------------------------------ MODULE ContentLog -------------------------------
(* The content log: one active file of lines, rotated by size or age, the      *)
(* rotated files compressed and pruned. A rotation is a sequence of file       *)
(* operations under the logger's mutex; each may fail, and the process may     *)
(* stop between any two.                                                       *)
EXTENDS Integers, Sequences, FiniteSets, FiniteSetsExt, Functions

CONSTANTS
    MaxSize, RotateEvery, Compress,     \* Options: when to rotate, 0 is never
    MaxBackups, MaxAge, MaxTotal,       \* Options: what to keep, 0 is all
    Sizes,                              \* bytes a line may have
    MaxRecords, MaxTime, MaxFaults      \* bounds

ASSUME ContentLogAssumption ==
    /\ {MaxSize, RotateEvery, MaxBackups, MaxAge, MaxTotal} \subseteq Nat
    /\ Sizes \subseteq Nat /\ \E most \in Sizes : \A bytes \in Sizes : bytes <= most

VARIABLES
    now,
    active,     \* lines of the active file, <<>> also when there is none
    backups,    \* rotated files
    open,       \* whether the logger's handle is open
    size,       \* the logger's own count of bytes in the active file
    rotatedAt,
    pc,         \* where the logger is in Log
    line,       \* the line being logged
    src,        \* number of the last rotation, which names its file
    accepted,   \* history: number of lines written without an error
    pruned,     \* history: lines in the files that retention has removed
    settled,    \* history: a retention has run to its end since the last fault
    faults

vars == <<now, active, backups, open, size, rotatedAt, pc, line, src, accepted, pruned, settled, faults>>
history == <<accepted, pruned>>

\* The number 0 marks a torn line.
Line(n, bytes) == [n |-> n, bytes |-> bytes]
Numbers(lines) == {lines[i].n : i \in DOMAIN lines}
Bytes(lines) == SumFunction([i \in DOMAIN lines |-> lines[i].bytes])

\* The name tells rotation and kind; a compressed file may still be partial.
File(at, gz, whole, lines) == [at |-> at, mod |-> now, gz |-> gz, whole |-> whole, lines |-> lines]
SizeOf(f) == IF f.gz THEN (Bytes(f.lines) + 1) \div 2 ELSE Bytes(f.lines)
Source == CHOOSE f \in backups : f.at = src /\ ~f.gz
Zipped == CHOOSE f \in backups : f.at = src /\ f.gz

-----------------------------------------------------------------------------
Fault == faults < MaxFaults /\ faults' = faults + 1 /\ settled' = FALSE
NoFault == UNCHANGED <<faults, settled>>

RotateNeeded(incoming) ==
    /\ size # 0
    /\ \/ MaxSize > 0 /\ size + incoming > MaxSize
       \/ RotateEvery > 0 /\ now - rotatedAt >= RotateEvery

Log(bytes) ==
    /\ pc = "idle" /\ accepted < MaxRecords
    /\ line' = Line(accepted + 1, bytes)
    /\ pc' = IF RotateNeeded(bytes) THEN "close" ELSE "write"
    /\ UNCHANGED <<now, active, backups, open, size, rotatedAt, src, history>> /\ NoFault

\* reopen, of whatever is at the path by then; a failure leaves a closed handle.
Reopened(lines) == open' = TRUE /\ size' = Bytes(lines) /\ rotatedAt' = now
NotReopened == open' = FALSE /\ UNCHANGED <<size, rotatedAt>>

\* rotate closes the active file. The error of a handle that is closed already
\* ends the rotation, but the path is opened again.
CloseActive ==
    /\ pc = "close" /\ open
    /\ open' = FALSE /\ pc' = "rename"
    /\ UNCHANGED <<now, active, backups, size, rotatedAt, line, src, history>> /\ NoFault
CloseFails ==
    /\ pc = "close"
    /\ \/ ~open /\ Reopened(active) /\ NoFault
       \/ open /\ Reopened(active) /\ Fault
       \/ NotReopened /\ Fault
    /\ pc' = "write"
    /\ UNCHANGED <<now, active, backups, line, src, history>>

Rename ==
    /\ pc = "rename"
    /\ backups' = backups \cup {File(src + 1, FALSE, TRUE, active)}
    /\ active' = <<>> /\ src' = src + 1 /\ pc' = "reopen"
    /\ UNCHANGED <<now, open, size, rotatedAt, line, history>> /\ NoFault
RenameFails ==
    /\ pc = "rename" /\ Fault
    /\ Reopened(active) \/ NotReopened
    /\ pc' = "write"
    /\ UNCHANGED <<now, active, backups, line, src, history>>

Reopen ==
    /\ pc = "reopen" /\ Reopened(active)
    /\ pc' = IF Compress THEN "compress" ELSE "retain"
    /\ UNCHANGED <<now, active, backups, line, src, history>> /\ NoFault
ReopenFails ==
    /\ pc = "reopen" /\ NotReopened /\ Fault
    /\ pc' = "write"
    /\ UNCHANGED <<now, active, backups, line, src, history>>

-----------------------------------------------------------------------------
(* compress: a twin beside the rotated file, complete before that is removed.  *)

CompressBegins_Renames ==
    /\ pc = "compress"
    /\ backups' = (backups \ {Source}) \cup {[Source EXCEPT !.gz = TRUE, !.whole = FALSE]}
    /\ pc' = "gzip"
    /\ UNCHANGED <<now, active, open, size, rotatedAt, line, src, history>> /\ NoFault
CompressBegins ==
    /\ pc = "compress"
    /\ backups' = backups \cup {[Source EXCEPT !.gz = TRUE, !.whole = FALSE]}
    /\ pc' = "gzip"
    /\ UNCHANGED <<now, active, open, size, rotatedAt, line, src, history>> /\ NoFault
CompressDone ==
    /\ pc = "gzip"
    /\ backups' = (backups \ {Zipped}) \cup {[Zipped EXCEPT !.whole = TRUE]}
    /\ pc' = "unlink"
    /\ UNCHANGED <<now, active, open, size, rotatedAt, line, src, history>> /\ NoFault

\* The removal of the partial file is not checked.
CompressFails ==
    /\ pc \in {"compress", "gzip"} /\ Fault
    /\ IF pc = "gzip" THEN backups' \in {backups, backups \ {Zipped}} ELSE UNCHANGED backups
    /\ pc' = "retain"
    /\ UNCHANGED <<now, active, open, size, rotatedAt, line, src, history>>

Unlink ==
    /\ pc = "unlink" /\ backups' = backups \ {Source} /\ pc' = "retain"
    /\ UNCHANGED <<now, active, open, size, rotatedAt, line, src, history>> /\ NoFault
UnlinkFails ==
    /\ pc = "unlink" /\ Fault /\ pc' = "retain"
    /\ UNCHANGED <<now, active, backups, open, size, rotatedAt, line, src, history>>

-----------------------------------------------------------------------------
(* enforceRetention. Stamps are nanoseconds, so files are in the order of their *)
(* rotations; a file and its twin are in either order. A file goes when it and  *)
(* the newer ones are too many or too large: what is kept is the newest part.   *)

ListBackups_Plain == {f \in backups : ~f.gz}
ListBackups == backups

Older(gzFirst, f, g) == f.at < g.at \/ (f.at = g.at /\ f.gz = gzFirst /\ g.gz # gzFirst)
NotOlder(gzFirst, files, f) == {g \in files : ~Older(gzFirst, g, f)}
Footprint(files) == size + SumFunction([f \in files |-> SizeOf(f)])

YoungEnough(files) == {f \in files : MaxAge = 0 \/ f.mod >= now - MaxAge}
FewEnough(gzFirst, files) ==
    {f \in files : MaxBackups = 0 \/ Cardinality(NotOlder(gzFirst, files, f)) <= MaxBackups}
SmallEnough(gzFirst, files) ==
    {f \in files : MaxTotal = 0 \/ Footprint(NotOlder(gzFirst, files, f)) <= MaxTotal}
Survivors(gzFirst) == SmallEnough(gzFirst, FewEnough(gzFirst, YoungEnough(ListBackups)))

EnforceRetention ==
    /\ pc = "retain"
    /\ \E gzFirst \in BOOLEAN :
         LET doomed == ListBackups \ Survivors(gzFirst) IN
         \E failing \in {{}} \cup {{f} : f \in doomed} :
            /\ backups' = backups \ (doomed \ failing)
            /\ pruned' = pruned \cup UNION {Numbers(f.lines) : f \in doomed}
            /\ IF failing = {} THEN settled' = TRUE /\ UNCHANGED faults ELSE Fault
    /\ pc' = "write"
    /\ UNCHANGED <<now, active, open, size, rotatedAt, line, src, accepted>>

-----------------------------------------------------------------------------
Write ==
    /\ pc = "write" /\ open
    /\ active' = Append(active, line) /\ size' = size + line.bytes
    /\ accepted' = accepted + 1 /\ pc' = "idle"
    /\ UNCHANGED <<now, backups, open, rotatedAt, line, src, pruned>> /\ NoFault

\* An error to the caller, who ignores it: a closed handle writes nothing, a full
\* disk a part of the line, which the logger does not count.
WriteFails ==
    /\ pc = "write"
    /\ \/ ~open /\ UNCHANGED active /\ NoFault
       \/ open /\ active' \in {active, Append(active, Line(0, 1))} /\ Fault
    /\ pc' = "idle"
    /\ UNCHANGED <<now, backups, open, size, rotatedAt, line, src, history>>

\* The process stops, anywhere, and OpenWithOptions appends to what is there.
Restart ==
    /\ Fault
    /\ pc' = "idle" /\ Reopened(active)
    /\ UNCHANGED <<now, active, backups, line, src, history>>

Tick ==
    /\ pc = "idle" /\ now < MaxTime /\ now' = now + 1
    /\ UNCHANGED <<active, backups, open, size, rotatedAt, pc, line, src, history>> /\ NoFault

Init ==
    /\ now = 0 /\ active = <<>> /\ backups = {} /\ open = TRUE /\ size = 0 /\ rotatedAt = 0
    /\ pc = "idle" /\ line = Line(0, 0) /\ src = 0
    /\ accepted = 0 /\ pruned = {} /\ settled = TRUE /\ faults = 0

Rotates ==
    \/ CloseActive \/ CloseFails \/ Rename \/ RenameFails \/ Reopen \/ ReopenFails
    \/ CompressBegins \/ CompressDone \/ CompressFails \/ Unlink \/ UnlinkFails
    \/ EnforceRetention

Next == (\E bytes \in Sizes : Log(bytes)) \/ Rotates \/ Write \/ WriteFails \/ Restart \/ Tick

Spec == Init /\ [][Next]_vars
-----------------------------------------------------------------------------
Readable(n) ==
    n \in Numbers(active) \/ \E f \in backups : f.whole /\ n \in Numbers(f.lines)

(* A line that Log accepted stays in a readable file until retention removes     *)
(* it, whatever step of a rotation fails or the process stops at (rotate,        *)
(* compress, enforceRetention). That a line written after a torn one shares its  *)
(* line is not told apart.                                                       *)
NothingVanishes == \A n \in 1..accepted : Readable(n) \/ n \in pruned

(* Retention goes by age of the lines: what it took is older than all that is    *)
(* readable, but for files it tried to remove (listBackups, enforceRetention).   *)
OldestGoFirst == \A n \in pruned \ {0}, m \in 1..accepted : m < n /\ Readable(m) => m \in pruned

(* An accepted line is lost to retention only, and in the order of age.          *)
AcceptedStaysReadable == NothingVanishes /\ OldestGoFirst

OnDisk == Bytes(active) + SumFunction([f \in backups |-> SizeOf(f)])

\* A line that is longer than MaxSize has a file of its own.
LargestFile == Max(Sizes \cup {MaxSize})

(* Leftovers of earlier failures included, a rotation that prunes without an      *)
(* error brings the log within MaxTotal, and until the next one only the active   *)
(* file grows (enforceRetention, rotateNeeded).                                   *)
DiskBounded ==
    MaxSize > 0 /\ MaxTotal > 0 /\ settled /\ pc = "idle" => OnDisk <= MaxTotal + LargestFile
===============================================================================
