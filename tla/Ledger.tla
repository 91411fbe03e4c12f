------------------------------ MODULE Ledger ------------------------------
(***************************************************************************)
(* The file ledger (internal/ledger): a directory of event files numbered  *)
(* from 1, written under an exclusively created lock file and read without *)
(* any lock.  Processes are separate OS processes: they share nothing but  *)
(* the directory.                                                          *)
(***************************************************************************)
EXTENDS Naturals, Sequences, FiniteSets, FiniteSetsExt

CONSTANTS
    Procs,      \* process slots; a crashed process is replaced by a new one
    Events,     \* what an event file may contain
    Ops,        \* the append functions in use: subset of {"append", "cas", "batch"}
    Faults,     \* what may go wrong: subset of {"crash", "io", "rename"}
    BatchSize,  \* the number of events of an AppendBatch
    MaxOps      \* bound: how many appends each process slot may start

ASSUME LedgerAssumption ==
    /\ Ops \subseteq {"append", "cas", "batch"}
    /\ Faults \subseteq {"crash", "io", "rename"}
    /\ BatchSize \in Nat \ {0}
    /\ MaxOps \in Nat

VARIABLES
    files,      \* the event files: a function from the sequence numbers present
    lockFile,   \* "none", "empty" (created, metadata not written) or the holder's operation
    pc,         \* where each process is
    op,         \* the append function it is executing
    evs,        \* the events it is appending
    start,      \* the first sequence number it will write (or must roll back)
    renamed,    \* how many of its temp files it has renamed (and not rolled back)
    res,        \* the outcome of its current or last append
    view,       \* the events it has read
    list,       \* while listing: sequence numbers the listing will contain;
                \* while reading: sequence numbers listed and not read yet
    extra,      \* while listing: numbers that appeared or vanished meanwhile
    ops         \* how many appends the slot has started (see MaxOps)

vars == <<files, lockFile, pc, op, evs, start, renamed, res, view, list, extra, ops>>
writing == <<op, evs, start, renamed, res, ops>>
reading == <<view, list, extra>>

Results == {"none", "ok", "mismatch", "timeout", "error"}

Critical == {"meta", "sequence", "temp", "rename", "rollback", "release"}

TypeOK ==
    /\ DOMAIN files \subseteq Nat \ {0}
    /\ files \in [DOMAIN files -> Events]
    /\ lockFile \in {"none", "empty"} \cup Ops
    /\ pc \in [Procs -> {"idle", "listing", "reading", "acquire"} \cup Critical]
    /\ op \in [Procs -> Ops \cup {"none"}]
    /\ evs \in [Procs -> Seq(Events)]
    /\ start \in [Procs -> Nat]
    /\ renamed \in [Procs -> Nat]
    /\ res \in [Procs -> Results]
    /\ view \in [Procs -> Seq(Events)]
    /\ list \in [Procs -> SUBSET (Nat \ {0})]
    /\ extra \in [Procs -> SUBSET (Nat \ {0})]
    /\ ops \in [Procs -> Nat]

Init ==
    /\ files = <<>>
    /\ lockFile = "none"
    /\ pc = [p \in Procs |-> "idle"]
    /\ op = [p \in Procs |-> "none"]
    /\ evs = [p \in Procs |-> <<>>]
    /\ start = [p \in Procs |-> 0]
    /\ renamed = [p \in Procs |-> 0]
    /\ res = [p \in Procs |-> "none"]
    /\ view = [p \in Procs |-> <<>>]
    /\ list = [p \in Procs |-> {}]
    /\ extra = [p \in Procs |-> {}]
    /\ ops = [p \in Procs |-> 0]

(* Mutants (the operators whose names end in _m...): the bugs that the     *)
(* properties below are there to exclude.                                  *)
NextSequence_mLast == Max({0} \cup DOMAIN files)
NextSequence_mSkip == Max({0} \cup DOMAIN files) + 2

(* 1 + the largest sequence number present, 1 in an empty directory.       *)
NextSequence == Max({0} \cup DOMAIN files) + 1

Goto(p, l) == pc' = [pc EXCEPT ![p] = l]

(* The append function returns r; its locals are gone.                     *)
Return(p, r) ==
    /\ Goto(p, "idle")
    /\ res' = [res EXCEPT ![p] = r]
    /\ op' = [op EXCEPT ![p] = "none"]
    /\ evs' = [evs EXCEPT ![p] = <<>>]
    /\ start' = [start EXCEPT ![p] = 0]
    /\ renamed' = [renamed EXCEPT ![p] = 0]
    /\ UNCHANGED ops

(* A directory entry that appears or vanishes while another process is     *)
(* listing the directory may or may not be part of that listing.           *)
Touched(s) ==
    [q \in Procs |-> IF pc[q] = "listing" THEN extra[q] \cup {s} ELSE extra[q]]

---------------------------------------------------------------------------
(* Reading: list the directory, then read the listed files in order.       *)

OpenDir(p) ==
    /\ pc[p] = "idle"
    /\ Goto(p, "listing")
    /\ list' = [list EXCEPT ![p] = DOMAIN files]
    /\ extra' = [extra EXCEPT ![p] = {}]
    /\ view' = [view EXCEPT ![p] = <<>>]
    /\ UNCHANGED <<files, lockFile, writing>>

EndList(p) ==
    /\ pc[p] = "listing"
    /\ Goto(p, "reading")
    /\ \E more \in SUBSET extra[p] :
          list' = [list EXCEPT ![p] = @ \cup more]
    /\ extra' = [extra EXCEPT ![p] = {}]
    /\ UNCHANGED <<files, lockFile, view, writing>>

ReadEvent_mAnyNumber(p) ==
    /\ pc[p] = "reading"
    /\ list[p] # {}
    /\ LET s == Min(list[p]) IN
         /\ view' = [view EXCEPT ![p] = Append(@, files[s])]
         /\ list' = [list EXCEPT ![p] = @ \ {s}]
    /\ UNCHANGED <<files, lockFile, pc, extra, writing>>

(* One file of the scan that replay drives: a file that is gone, or a      *)
(* number that does not follow the previous one, fails the whole load.     *)
ReadEvent(p) ==
    /\ pc[p] = "reading"
    /\ list[p] # {}
    /\ LET s == Min(list[p]) IN
         IF s \in DOMAIN files /\ s = Len(view[p]) + 1
         THEN /\ view' = [view EXCEPT ![p] = Append(@, files[s])]
              /\ list' = [list EXCEPT ![p] = @ \ {s}]
              /\ UNCHANGED pc
         ELSE /\ view' = [view EXCEPT ![p] = <<>>]
              /\ list' = [list EXCEPT ![p] = {}]
              /\ Goto(p, "idle")
    /\ UNCHANGED <<files, lockFile, extra, writing>>

EndRead(p) ==
    /\ pc[p] = "reading"
    /\ list[p] = {}
    /\ Goto(p, "idle")
    /\ UNCHANGED <<files, lockFile, reading, writing>>

---------------------------------------------------------------------------
(* Appending.                                                              *)

(* A call of Append, AppendIfSequence (the expected sequence number is the *)
(* length of the caller's view) or AppendBatch.                            *)
Call(p) ==
    /\ pc[p] = "idle"
    /\ ops[p] < MaxOps
    /\ Goto(p, "acquire")
    /\ \E o \in Ops :
         /\ op' = [op EXCEPT ![p] = o]
         /\ \E es \in [1 .. (IF o = "batch" THEN BatchSize ELSE 1) -> Events] :
               evs' = [evs EXCEPT ![p] = es]
    /\ res' = [res EXCEPT ![p] = "none"]
    /\ ops' = [ops EXCEPT ![p] = @ + 1]
    /\ UNCHANGED <<files, lockFile, start, renamed, reading>>

TryAcquire_mNoExcl(p) ==
    /\ pc[p] = "acquire"
    /\ lockFile' = "empty"
    /\ Goto(p, "meta")
    /\ UNCHANGED <<files, reading, writing>>

(* os.OpenFile with O_CREATE|O_EXCL: it succeeds for one process.          *)
TryAcquire(p) ==
    /\ pc[p] = "acquire"
    /\ lockFile = "none"
    /\ lockFile' = "empty"
    /\ Goto(p, "meta")
    /\ UNCHANGED <<files, reading, writing>>

AcquireTimeout_mNeedsMetadata(p) ==
    /\ pc[p] = "acquire"
    /\ lockFile \in Ops
    /\ Return(p, "timeout")
    /\ UNCHANGED <<files, lockFile, reading>>

(* A failed attempt past the deadline; before it the process just retries. *)
AcquireTimeout(p) ==
    /\ pc[p] = "acquire"
    /\ lockFile # "none"
    /\ Return(p, "timeout")
    /\ UNCHANGED <<files, lockFile, reading>>

WriteMeta(p) ==
    /\ pc[p] = "meta"
    /\ \/ lockFile' = op[p] /\ Goto(p, "sequence")
       \/ "io" \in Faults /\ lockFile' = "none" /\ Goto(p, "acquire")
    /\ UNCHANGED <<files, reading, writing>>

Sequence_mNoCompare(p) ==
    /\ pc[p] = "sequence"
    /\ start' = [start EXCEPT ![p] = NextSequence]
    /\ renamed' = [renamed EXCEPT ![p] = 0]
    /\ Goto(p, "temp")
    /\ UNCHANGED <<files, lockFile, op, evs, res, ops, reading>>

(* NextSequence and, for AppendIfSequence, the comparison.                 *)
Sequence(p) ==
    /\ pc[p] = "sequence"
    /\ start' = [start EXCEPT ![p] = NextSequence]
    /\ renamed' = [renamed EXCEPT ![p] = 0]
    /\ IF op[p] = "cas" /\ NextSequence - 1 # Len(view[p])
       THEN Goto(p, "release") /\ res' = [res EXCEPT ![p] = "mismatch"]
       ELSE Goto(p, "temp") /\ UNCHANGED res
    /\ UNCHANGED <<files, lockFile, op, evs, ops, reading>>

WriteTemp_mIgnoresError(p) ==
    /\ pc[p] = "temp"
    /\ \/ Goto(p, "rename") /\ UNCHANGED res
       \/ "io" \in Faults /\ Goto(p, "release") /\ res' = [res EXCEPT ![p] = "ok"]
    /\ UNCHANGED <<files, lockFile, op, evs, start, renamed, ops, reading>>

(* All temp files are created, written, synced and closed; temp files are  *)
(* not event files, so a failure (with its best-effort cleanup) leaves no  *)
(* trace that anyone reads.                                                *)
WriteTemp(p) ==
    /\ pc[p] = "temp"
    /\ \/ Goto(p, "rename") /\ UNCHANGED res
       \/ "io" \in Faults /\ Goto(p, "release") /\ res' = [res EXCEPT ![p] = "error"]
    /\ UNCHANGED <<files, lockFile, op, evs, start, renamed, ops, reading>>

Rename_mFirstOnly(p) ==
    /\ pc[p] = "rename"
    /\ files' = [i \in DOMAIN files \cup {start[p]} |->
                    IF i = start[p] THEN evs[p][1] ELSE files[i]]
    /\ extra' = Touched(start[p])
    /\ renamed' = [renamed EXCEPT ![p] = 1]
    /\ view' = IF op[p] = "cas" THEN [view EXCEPT ![p] = Append(@, evs[p][1])] ELSE view
    /\ Goto(p, "release")
    /\ res' = [res EXCEPT ![p] = "ok"]
    /\ UNCHANGED <<lockFile, list, op, evs, start, ops>>

(* os.Rename of the next temp file to its final name.                      *)
Rename(p) ==
    /\ pc[p] = "rename"
    /\ LET s == start[p] + renamed[p] IN
         /\ files' = [i \in DOMAIN files \cup {s} |->
                         IF i = s THEN evs[p][renamed[p] + 1] ELSE files[i]]
         /\ extra' = Touched(s)
    /\ renamed' = [renamed EXCEPT ![p] = @ + 1]
    /\ view' = IF op[p] = "cas" THEN [view EXCEPT ![p] = Append(@, evs[p][1])] ELSE view
    /\ IF renamed[p] + 1 = Len(evs[p])
       THEN Goto(p, "release") /\ res' = [res EXCEPT ![p] = "ok"]
       ELSE UNCHANGED <<pc, res>>
    /\ UNCHANGED <<lockFile, list, op, evs, start, ops>>

(* A failed rename: AppendBatch goes on to remove what it has renamed.     *)
RenameFails(p) ==
    /\ pc[p] = "rename"
    /\ "rename" \in Faults
    /\ res' = [res EXCEPT ![p] = "error"]
    /\ Goto(p, "rollback")
    /\ UNCHANGED <<files, lockFile, op, evs, start, renamed, ops, reading>>

(* The rollback removes in ascending order and ignores failures to remove. *)
Rollback(p) ==
    /\ pc[p] = "rollback"
    /\ IF renamed[p] = 0
       THEN /\ Goto(p, "release")
            /\ UNCHANGED <<files, start, renamed, reading>>
       ELSE /\ \/ /\ files' = [i \in DOMAIN files \ {start[p]} |-> files[i]]
                  /\ list' = [q \in Procs |->
                                IF pc[q] = "listing" THEN list[q] \ {start[p]} ELSE list[q]]
                  /\ extra' = Touched(start[p])
                  /\ UNCHANGED view
               \/ UNCHANGED <<files, reading>>
            /\ start' = [start EXCEPT ![p] = @ + 1]
            /\ renamed' = [renamed EXCEPT ![p] = @ - 1]
            /\ UNCHANGED pc
    /\ UNCHANGED <<lockFile, op, evs, res, ops>>

(* The deferred Release: remove the lock file if its metadata names the    *)
(* operation of this holder.  A failure is only logged.                    *)
Release(p) ==
    /\ pc[p] = "release"
    /\ \/ lockFile = op[p] /\ lockFile' = "none"
       \/ (lockFile # op[p] \/ "io" \in Faults) /\ UNCHANGED lockFile
    /\ Return(p, res[p])
    /\ UNCHANGED <<files, reading>>

---------------------------------------------------------------------------
(* The process dies.  The directory keeps what is in it, the lock file     *)
(* included; a new process takes the slot.                                 *)
Crash(p) ==
    /\ "crash" \in Faults
    /\ pc[p] # "idle"
    /\ Return(p, "none")
    /\ view' = [view EXCEPT ![p] = <<>>]
    /\ list' = [list EXCEPT ![p] = {}]
    /\ extra' = [extra EXCEPT ![p] = {}]
    /\ UNCHANGED <<files, lockFile>>

Load(p) == OpenDir(p) \/ EndList(p) \/ ReadEvent(p) \/ EndRead(p)
Acquire(p) == TryAcquire(p) \/ AcquireTimeout(p)
Write(p) ==
    \/ WriteMeta(p) \/ Sequence(p) \/ WriteTemp(p)
    \/ Rename(p) \/ RenameFails(p) \/ Rollback(p) \/ Release(p)

Next == \E p \in Procs : Load(p) \/ Call(p) \/ Acquire(p) \/ Write(p) \/ Crash(p)

Spec == Init /\ [][Next]_vars

(* A running process keeps running: it polls the lock until it has it or   *)
(* its deadline has passed, and no step of a write or of a scan waits for  *)
(* anybody.  Nothing obliges a process to start a new call.                *)
Progress(p) == EndList(p) \/ ReadEvent(p) \/ EndRead(p) \/ Acquire(p) \/ Write(p)

FairSpec == Spec /\ \A p \in Procs : WF_vars(Progress(p))

---------------------------------------------------------------------------
(* Unless the rename of a batch fails no event file is ever removed.       *)
NoRollback == "batch" \notin Ops \/ "rename" \notin Faults

(* The lock file admits one process at a time to the section that reads    *)
(* the last sequence number and writes the next one, and it exists as long *)
(* as anybody is in there.                                                 *)
MutualExclusion ==
    \A p \in Procs : pc[p] \in Critical =>
        /\ lockFile # "none"
        /\ \A q \in Procs \ {p} : pc[q] \notin Critical

(* The sequence numbers present are 1, 2, ..., n: replay, which fails on   *)
(* the first gap, can always read the directory again.                     *)
GapFree == \A s \in DOMAIN files : \A t \in 1 .. s : t \in DOMAIN files

(* No step removes or rewrites an event file.                              *)
AppendOnly ==
    [][\A s \in DOMAIN files : s \in DOMAIN files' /\ files'[s] = files[s]]_vars

(* When AppendIfSequence is about to write, the events its caller has read *)
(* (and decided on) are exactly the events in the ledger.                  *)
CasDecidesOnWholeLog ==
    \A p \in Procs : pc[p] = "rename" /\ op[p] = "cas" => view[p] = files

(* What a process has read is a prefix of the ledger, although it takes no *)
(* lock and the directory may change while it is being listed.             *)
ViewIsPrefix ==
    \A p \in Procs : \A i \in 1 .. Len(view[p]) :
        i \in DOMAIN files /\ view[p][i] = files[i]

(* When an append returns success its events are in the ledger, at the     *)
(* consecutive sequence numbers it returns.                                *)
AckedIsLogged ==
    \A p \in Procs : pc[p] = "release" /\ res[p] = "ok" =>
        \A i \in 1 .. Len(evs[p]) :
            LET s == start[p] + i - 1 IN s \in DOMAIN files /\ files[s] = evs[p][i]

(* Every call of an append function returns (with success or an error),    *)
(* even when the lock file was left behind by a process that died.         *)
CallReturns == \A p \in Procs : pc[p] = "acquire" ~> pc[p] = "idle"

(* The ledger implements the append-only log of AbstractLedger: the        *)
(* directory, as a function on 1 .. n, is the log.                         *)
Abstract == INSTANCE AbstractLedger WITH log <- files

Refines == Abstract!Spec
===========================================================================
