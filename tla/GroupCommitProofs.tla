-------------------------- MODULE GroupCommitProofs --------------------------
(***************************************************************************)
(* For any number of callers and any thresholds, group commit implements the *)
(* promise of sync=every, loses no wake-up and strands no request.          *)
(*                                                                         *)
(* The argument: a request is in the buffer or in the batch, and only once,  *)
(* exactly while its commit is unanswered; a caller is never in the buffer   *)
(* and in the batch at once; and every transaction of the batch that is not   *)
(* yet on disk was in the WAL when the flush began.                          *)
(***************************************************************************)
EXTENDS GroupCommit, FiniteSetTheorems, TLAPS

Queued == {buffer[i] : i \in 1..Len(buffer)}

Distinct ==
    /\ \A i, j \in 1..Len(buffer) : buffer[i] = buffer[j] => i = j
    /\ Queued \cap batch = {}

\* A request is held exactly while its commit waits for an answer.
RequestOk ==
    \A c \in Caller :
        /\ c \in batch \cup Queued <=>
              pc[c] \in {"notify", "await", "gone"} /\ answer[c] = "idle"
        /\ pc[c] \in {"commit", "await", "gone"} => answer[c] = "idle"

\* What the batcher holds at each point of its loop.
BatcherOk ==
    /\ batcher \in {"check", "parked", "exit"} => batch = {}
    /\ batcher \in {"collect", "timed", "woken"} => Cardinality(batch) < MaxBatch
    /\ batcher = "syncing" => batch \cap wal \subseteq flushing
    /\ batcher = "send" /\ result = "ok" => batch \cap wal = {}
    /\ batcher = "exit" => shutdown /\ buffer = << >>

IInv == /\ TypeOK /\ Distinct /\ RequestOk /\ BatcherOk
        /\ AckedDurable /\ NoLostWakeup

\* Callers are finite, so a batch has a size.
LEMMA BatchFinite ==
    ASSUME NEW S \in SUBSET Caller
    PROVE  IsFiniteSet(S) /\ Cardinality(S) \in Nat
BY GroupCommitAssumption, FS_Subset, FS_CardinalityType

\* Drain takes between none and all of the buffer, and no more than fits.
LEMMA TakeBound ==
    ASSUME TypeOK
    PROVE  /\ Take \in 0..Len(buffer)
           /\ Take + Cardinality(batch) <= MaxBatch
<1>1. Cardinality(batch) \in Nat /\ Cardinality(batch) <= MaxBatch /\ Len(buffer) \in Nat
  BY BatchFinite DEF TypeOK
<1> QED
  BY <1>1, GroupCommitAssumption DEF Take

\* A prefix of the buffer has at most as many members as its length.
LEMMA PrefixSize ==
    ASSUME TypeOK, NEW k \in 0..Len(buffer)
    PROVE  Cardinality({buffer[i] : i \in 1..k}) <= k
<1> DEFINE T == {buffer[i] : i \in 1..k}
           f == [i \in 1..k |-> buffer[i]]
<1>1. k \in Nat /\ IsFiniteSet(1..k) /\ Cardinality(1..k) = k
  BY FS_Interval DEF TypeOK
<1>2. f \in Surjection(1..k, T)
  BY DEF Surjection
<1> HIDE DEF T, f
<1>3. Cardinality(T) <= Cardinality(1..k)
  BY <1>1, <1>2, FS_Surjection
<1> QED BY <1>1, <1>3 DEF T

\* Drain moves requests from the buffer to the batch and neither loses nor
\* duplicates one.
LEMMA DrainMoves ==
    ASSUME TypeOK, Distinct, Drain
    PROVE  /\ buffer' \in Seq(Caller)
           /\ batch' \subseteq Caller /\ Cardinality(batch') <= MaxBatch
           /\ batch' \cup Queued' = batch \cup Queued
           /\ Distinct'
<1> DEFINE T == {buffer[i] : i \in 1..Take}
<1>1. Take \in 0..Len(buffer) /\ Len(buffer) \in Nat /\ Take + Cardinality(batch) <= MaxBatch
  BY TakeBound DEF TypeOK
<1>2. T \subseteq Caller /\ batch' = batch \cup T
  BY <1>1 DEF Drain, TypeOK
<1>3. Cardinality(batch') <= MaxBatch
  <2>1. Cardinality(T) <= Take
    BY <1>1, PrefixSize
  <2>2. /\ IsFiniteSet(T) /\ IsFiniteSet(batch) /\ Cardinality(batch) \in Nat
        /\ Cardinality(T) \in Nat /\ Cardinality(batch \cap T) \in Nat
    BY <1>2, BatchFinite DEF TypeOK
  <2>3. Cardinality(batch \cup T) = Cardinality(batch) + Cardinality(T) - Cardinality(batch \cap T)
    BY <2>2, FS_Union
  <2> QED BY <1>1, <1>2, <2>1, <2>2, <2>3, GroupCommitAssumption
<1>4. /\ buffer' \in Seq(Caller) /\ Len(buffer') = Len(buffer) - Take
      /\ \A i \in 1..Len(buffer') : buffer'[i] = buffer[i + Take]
  BY <1>1 DEF Drain, TypeOK
<1>5. Queued = T \cup Queued'
  <2>1. ASSUME NEW i \in 1..Len(buffer), i > Take PROVE buffer[i] \in Queued'
    <3>1. i - Take \in 1..Len(buffer') /\ buffer'[i - Take] = buffer[i]
      BY <1>1, <1>4, <2>1
    <3> QED BY <3>1 DEF Queued
  <2>2. Queued' \subseteq Queued
    BY <1>1, <1>4 DEF Queued
  <2>3. T \subseteq Queued
    BY <1>1 DEF Queued
  <2>4. Queued \subseteq T \cup Queued'
    BY <1>1, <2>1 DEF Queued
  <2> QED BY <2>2, <2>3, <2>4
<1>6. T \cap Queued' = {}
  BY <1>1, <1>4 DEF Queued, Distinct
<1>7. \A i, j \in 1..Len(buffer') : buffer'[i] = buffer'[j] => i = j
  BY <1>1, <1>4 DEF Distinct
<1>8. Distinct'
  BY <1>2, <1>5, <1>6, <1>7 DEF Distinct
<1> QED
  BY <1>2, <1>3, <1>4, <1>5, <1>8 DEF TypeOK

\* A pushed request is the last of the buffer.
LEMMA PushAppends ==
    ASSUME TypeOK, NEW c \in Caller, buffer' = Append(buffer, c)
    PROVE  /\ buffer' \in Seq(Caller) /\ buffer' # << >>
           /\ Queued' = Queued \cup {c}
           /\ c \notin Queued /\ (\A i, j \in 1..Len(buffer) : buffer[i] = buffer[j] => i = j)
                => \A i, j \in 1..Len(buffer') : buffer'[i] = buffer'[j] => i = j
<1>1. /\ Len(buffer) \in Nat /\ buffer' \in Seq(Caller) /\ Len(buffer') = Len(buffer) + 1
      /\ \A i \in 1..Len(buffer) : buffer'[i] = buffer[i]
      /\ buffer'[Len(buffer) + 1] = c
  BY DEF TypeOK
<1>2. Queued' = Queued \cup {c}
  <2>1. c \in Queued'
    BY <1>1 DEF Queued
  <2>2. Queued \subseteq Queued'
    BY <1>1 DEF Queued
  <2>3. Queued' \subseteq Queued \cup {c}
    BY <1>1 DEF Queued
  <2> QED BY <2>1, <2>2, <2>3
<1>3. ASSUME c \notin Queued, \A i, j \in 1..Len(buffer) : buffer[i] = buffer[j] => i = j,
             NEW i \in 1..Len(buffer'), NEW j \in 1..Len(buffer'), buffer'[i] = buffer'[j]
      PROVE  i = j
  BY <1>1, <1>3 DEF Queued
<1> QED BY <1>1, <1>2, <1>3

\* The invariant holds when the coordinator starts.
LEMMA InitIInv == Init => IInv
<1> SUFFICES ASSUME Init PROVE IInv
  OBVIOUS
<1>1. Queued = {} /\ buffer \in Seq(Caller) /\ Cardinality(batch) = 0
  BY FS_EmptySet DEF Init, Queued
<1>2. TypeOK
  <2>1. Cardinality(batch) <= MaxBatch
    BY <1>1, GroupCommitAssumption
  <2>2. batch \subseteq Caller /\ wal \subseteq Caller /\ flushing \subseteq Caller
    BY DEF Init
  <2>3. /\ pc \in [Caller -> {"idle", "commit", "notify", "await", "gone"}]
        /\ answer \in [Caller -> {"idle", "ok", "err"}]
        /\ shutdown \in BOOLEAN /\ batcher = "check" /\ result = "ok" /\ closer = "run"
    BY DEF Init
  <2> QED BY <1>1, <2>1, <2>2, <2>3 DEF TypeOK
<1>3. Distinct /\ RequestOk
  BY <1>1 DEF Init, Distinct, RequestOk
<1>4. BatcherOk /\ AckedDurable /\ NoLostWakeup
  BY DEF Init, BatcherOk, AckedDurable, NoLostWakeup
<1> QED BY <1>2, <1>3, <1>4 DEF IInv

\* The invariant survives the steps of callers.
LEMMA CallerStep ==
    ASSUME IInv, NEW c \in Caller,
           Commit(c) \/ WaitForSync(c) \/ Notify(c) \/ Abandon(c)
    PROVE  IInv'
<1> USE DEF IInv
<1>1. CASE Commit(c)
  <2> USE <1>1 DEF Commit
  <2>1. Queued' = Queued
    BY DEF Queued
  <2>2. TypeOK'
    BY DEF TypeOK
  <2>3. Distinct'
    BY <2>1 DEF Distinct
  <2>4. c \notin batch
    BY DEF RequestOk
  <2>5. RequestOk'
    BY <2>1 DEF RequestOk, TypeOK
  <2>6. BatcherOk'
    BY <2>4 DEF BatcherOk
  <2>7. AckedDurable' /\ NoLostWakeup'
    BY DEF AckedDurable, NoLostWakeup, Notifying, TypeOK
  <2> QED BY <2>2, <2>3, <2>5, <2>6, <2>7
<1>2. CASE WaitForSync(c)
  <2>1. CASE shutdown
    <3> USE <1>2, <2>1 DEF WaitForSync, BatcherUnchanged
    <3>1. Queued' = Queued
      BY DEF Queued
    <3>2. TypeOK' /\ Distinct'
      BY <3>1 DEF TypeOK, Distinct
    <3>3. RequestOk'
      BY <3>1 DEF RequestOk, TypeOK
    <3>4. BatcherOk' /\ AckedDurable' /\ NoLostWakeup'
      BY DEF BatcherOk, AckedDurable, NoLostWakeup, Notifying, TypeOK
    <3> QED BY <3>2, <3>3, <3>4
  <2>2. CASE ~shutdown
    <3> USE <1>2, <2>2 DEF WaitForSync, BatcherUnchanged
    <3>1. /\ buffer' \in Seq(Caller) /\ Queued' = Queued \cup {c}
          /\ c \notin Queued /\ c \notin batch
          /\ \A i, j \in 1..Len(buffer') : buffer'[i] = buffer'[j] => i = j
      BY PushAppends DEF RequestOk, Distinct
    <3>2. TypeOK'
      BY <3>1 DEF TypeOK
    <3>3. Distinct'
      BY <3>1 DEF Distinct
    <3>4. RequestOk'
      BY <3>1 DEF RequestOk, TypeOK
    <3>5. BatcherOk' /\ AckedDurable'
      BY DEF BatcherOk, AckedDurable
    <3>6. NoLostWakeup'
      BY DEF NoLostWakeup, Notifying, TypeOK
    <3> QED BY <3>2, <3>3, <3>4, <3>5, <3>6
  <2> QED BY <2>1, <2>2
<1>3. CASE Notify(c)
  <2> USE <1>3 DEF Notify, NotifyBatcher, BatcherUnchanged
  <2>1. Queued' = Queued
    BY DEF Queued
  <2>2. TypeOK' /\ Distinct'
    BY <2>1 DEF TypeOK, Distinct
  <2>3. RequestOk'
    BY <2>1 DEF RequestOk, TypeOK
  <2>4. BatcherOk' /\ AckedDurable' /\ NoLostWakeup'
    BY DEF BatcherOk, AckedDurable, NoLostWakeup, TypeOK
  <2> QED BY <2>2, <2>3, <2>4
<1>4. CASE Abandon(c)
  <2> USE <1>4 DEF Abandon, BatcherUnchanged
  <2>1. Queued' = Queued
    BY DEF Queued
  <2>2. TypeOK' /\ Distinct'
    BY <2>1 DEF TypeOK, Distinct
  <2>3. RequestOk'
    BY <2>1 DEF RequestOk, TypeOK
  <2>4. BatcherOk' /\ AckedDurable' /\ NoLostWakeup'
    BY DEF BatcherOk, AckedDurable, NoLostWakeup, Notifying, TypeOK
  <2> QED BY <2>2, <2>3, <2>4
<1> QED BY <1>1, <1>2, <1>3, <1>4

\* The invariant survives a drain, whatever the batcher does next.
LEMMA DrainStep ==
    ASSUME IInv, Drain, CallerUnchanged, UNCHANGED <<flushing, result, shutdown, closer>>,
           batcher' \in {"collect", "flush"},
           batcher' = "collect" => Cardinality(batch') < MaxBatch
    PROVE  IInv'
<1> USE DEF IInv, CallerUnchanged
<1>1. /\ buffer' \in Seq(Caller) /\ batch' \subseteq Caller
      /\ Cardinality(batch') <= MaxBatch
      /\ batch' \cup Queued' = batch \cup Queued /\ Distinct'
  BY DrainMoves
<1>2. TypeOK'
  BY <1>1 DEF TypeOK
<1>3. RequestOk'
  BY <1>1 DEF RequestOk
<1>4. BatcherOk' /\ AckedDurable' /\ NoLostWakeup'
  BY DEF BatcherOk, AckedDurable, NoLostWakeup
<1> QED BY <1>1, <1>2, <1>3, <1>4

\* The invariant survives the steps of the batcher.
LEMMA BatcherStepIInv == ASSUME IInv, BatcherStep PROVE IInv'
<1> USE DEF IInv
<1>a. ASSUME UNCHANGED <<batch, buffer>> PROVE Queued' = Queued /\ Distinct'
  BY <1>a DEF Queued, Distinct
<1>1. CASE CheckBuffer
  <2>1. CASE buffer # << >>
    BY <1>1, <2>1, DrainStep DEF CheckBuffer
  <2>2. CASE buffer = << >>
    BY <1>1, <2>2, <1>a DEF CheckBuffer, CallerUnchanged, TypeOK, RequestOk, BatcherOk,
                            AckedDurable, NoLostWakeup
  <2> QED BY <2>1, <2>2
<1>2. CASE Collect \/ TimedOut
  BY <1>2, <1>a DEF Collect, TimedOut, CallerUnchanged, BatcherUnchanged, TypeOK,
                    RequestOk, BatcherOk, AckedDurable, NoLostWakeup
<1>3. CASE Woken
  <2>1. CASE shutdown
    BY <1>3, <2>1, <1>a DEF Woken, CallerUnchanged, TypeOK, RequestOk, BatcherOk,
                            AckedDurable, NoLostWakeup
  <2>2. CASE ~shutdown
    BY <1>3, <2>2, DrainStep DEF Woken
  <2> QED BY <2>1, <2>2
<1>4. CASE BeginFlush
  BY <1>4, <1>a DEF BeginFlush, CallerUnchanged, TypeOK, RequestOk, BatcherOk,
                    AckedDurable, NoLostWakeup
<1>5. CASE EndFlush
  BY <1>5, <1>a DEF EndFlush, TypeOK, RequestOk, BatcherOk, AckedDurable, NoLostWakeup
<1>6. CASE Send
  <2>1. ASSUME NEW c \in batch, batch' = batch \ {c},
               answer' = [answer EXCEPT ![c] = IF pc[c] = "gone" THEN "idle" ELSE result],
               pc' = [pc EXCEPT ![c] = IF @ = "notify" THEN "notify" ELSE "idle"],
               batcher = "send",
               UNCHANGED <<batcher, result, wal, flushing, shutdown, buffer, closer>>
        PROVE  IInv'
    <3> USE <2>1
    <3>1. Queued' = Queued /\ c \notin Queued /\ c \in Caller
      BY DEF Queued, Distinct, TypeOK
    <3>2. Cardinality(batch') <= MaxBatch
      <4>1. /\ batch' \in SUBSET batch /\ IsFiniteSet(batch) /\ Cardinality(batch) \in Nat
            /\ batch' \in SUBSET Caller /\ Cardinality(batch) <= MaxBatch
        BY BatchFinite DEF TypeOK
      <4>2. Cardinality(batch') <= Cardinality(batch) /\ Cardinality(batch') \in Nat
        BY <4>1, FS_Subset, BatchFinite
      <4> QED BY <4>1, <4>2, GroupCommitAssumption
    <3>3. TypeOK'
      BY <3>1, <3>2 DEF TypeOK
    <3>4. Distinct'
      BY <3>1 DEF Distinct
    <3>5. RequestOk'
      BY <3>1 DEF RequestOk, TypeOK
    <3>6. BatcherOk'
      BY DEF BatcherOk
    <3>7. AckedDurable'
      BY <3>1 DEF AckedDurable, BatcherOk, TypeOK
    <3>8. NoLostWakeup'
      BY DEF NoLostWakeup
    <3> QED BY <3>3, <3>4, <3>5, <3>6, <3>7, <3>8
  <2>2. CASE batch = {} /\ batcher' = "check" /\ result' = "ok" /\ UNCHANGED <<batch, answer, pc>>
    BY <1>6, <2>2, <1>a DEF Send, TypeOK, RequestOk, BatcherOk, AckedDurable, NoLostWakeup
  <2> QED BY <1>6, <2>1, <2>2 DEF Send
<1> QED BY <1>1, <1>2, <1>3, <1>4, <1>5, <1>6 DEF BatcherStep

\* The invariant survives the steps of shutdown.
LEMMA ShutdownStep == ASSUME IInv, BeginShutdown \/ CloserStep PROVE IInv'
<1> USE DEF IInv
<1>1. Queued' = Queued /\ Distinct'
  BY DEF BeginShutdown, CloserStep, NotifyShutdown, JoinBatcher, FinalFlush,
         BatcherUnchanged, Queued, Distinct
<1>2. TypeOK' /\ RequestOk'
  BY <1>1 DEF BeginShutdown, CloserStep, NotifyShutdown, JoinBatcher, FinalFlush,
              BatcherUnchanged, CallerUnchanged, NotifyBatcher, TypeOK, RequestOk
<1>3. BatcherOk' /\ AckedDurable'
  BY DEF BeginShutdown, CloserStep, NotifyShutdown, JoinBatcher, FinalFlush,
         BatcherUnchanged, CallerUnchanged, NotifyBatcher, BatcherOk, AckedDurable
<1>4. NoLostWakeup'
  BY DEF BeginShutdown, CloserStep, NotifyShutdown, JoinBatcher, FinalFlush, TypeOK,
         BatcherUnchanged, CallerUnchanged, NotifyBatcher, NoLostWakeup, Notifying
<1> QED BY <1>1, <1>2, <1>3, <1>4

\* The inductive invariant.
THEOREM Invariance == Spec => []IInv
<1>1. Init => IInv
  BY InitIInv
<1>2. IInv /\ [Next]_vars => IInv'
  <2> SUFFICES ASSUME IInv, [Next]_vars PROVE IInv'
    OBVIOUS
  <2>1. CASE UNCHANGED vars
    BY <2>1 DEF vars, IInv, TypeOK, Distinct, Queued, RequestOk, BatcherOk,
                AckedDurable, NoLostWakeup, Notifying
  <2> QED BY <2>1, CallerStep, BatcherStepIInv, ShutdownStep DEF Next
<1> QED BY <1>1, <1>2, PTL DEF Spec

\* The variables keep their types; in particular the batch never has more than
\* MaxBatch requests.
THEOREM Types == Spec => []TypeOK
<1>1. IInv => TypeOK
  BY DEF IInv
<1> QED BY <1>1, Invariance, PTL

\* A commit that answered Ok is on disk.
THEOREM Durability == Spec => []AckedDurable
<1>1. IInv => AckedDurable
  BY DEF IInv
<1> QED BY <1>1, Invariance, PTL

\* The batcher never parks for good with work or a shutdown pending.
THEOREM WakeUps == Spec => []NoLostWakeup
<1>1. IInv => NoLostWakeup
  BY DEF IInv
<1> QED BY <1>1, Invariance, PTL

\* The batcher leaves no request behind.
THEOREM Stranding == Spec => []NothingStranded
<1>1. IInv => NothingStranded
  <2> SUFFICES ASSUME IInv, batcher = "exit" PROVE NothingStranded
    BY DEF NothingStranded
  <2>1. buffer = << >> /\ batch = {} /\ Queued = {}
    BY DEF IInv, BatcherOk, Queued
  <2> QED BY <2>1 DEF IInv, RequestOk, NothingStranded
<1> QED BY <1>1, Invariance, PTL

\* A step of a caller is one of its steps in SyncedCommit, or none.
LEMMA CallerRefines ==
    ASSUME IInv, NEW c \in Caller,
           Commit(c) \/ WaitForSync(c) \/ Notify(c) \/ Abandon(c)
    PROVE  SC!Next \/ Phase' = Phase
<1> USE DEF IInv, TypeOK, Phase
<1>1. CASE Commit(c)
  <2>1. SC!Commit(c)
    BY <1>1 DEF Commit, SC!Commit, SC!Pending
  <2> QED BY <2>1 DEF SC!Next
<1>2. CASE WaitForSync(c) /\ shutdown
  <2>1. SC!Fail(c)
    BY <1>2 DEF WaitForSync, SC!Fail, SC!Pending, RequestOk
  <2> QED BY <2>1 DEF SC!Next
<1>3. CASE WaitForSync(c) /\ ~shutdown
  BY <1>3 DEF WaitForSync
<1>4. CASE Notify(c)
  BY <1>4 DEF Notify
<1>5. CASE Abandon(c)
  <2>1. SC!Abandon(c)
    BY <1>5 DEF Abandon, SC!Abandon, SC!Pending, RequestOk
  <2> QED BY <2>1 DEF SC!Next
<1> QED BY <1>1, <1>2, <1>3, <1>4, <1>5

\* A flush makes some of the applied transactions durable.
LEMMA FlushRefines ==
    ASSUME IInv, wal' \subseteq wal, UNCHANGED <<pc, answer>>
    PROVE  SC!Next
<1> DEFINE S == {c \in Caller : Phase[c] = "committed" /\ c \notin wal'}
<1>1. SC!Sync(S)
  BY DEF SC!Sync, Phase, IInv, TypeOK
<1> QED BY <1>1 DEF SC!Next

\* Send answers a durable transaction Ok, or any pending one Err.
LEMMA SendRefines ==
    ASSUME IInv, Send
    PROVE  SC!Next \/ Phase' = Phase
<1> USE DEF IInv, TypeOK
<1>1. CASE batch = {}
  BY <1>1 DEF Send, Phase
<1>2. CASE batch # {}
  <2>1. PICK c \in batch :
             /\ answer' = [answer EXCEPT ![c] = IF pc[c] = "gone" THEN "idle" ELSE result]
             /\ pc' = [pc EXCEPT ![c] = IF @ = "notify" THEN "notify" ELSE "idle"]
    BY <1>2 DEF Send
  <2>2. /\ c \in Caller /\ answer[c] = "idle" /\ pc[c] \in {"notify", "await", "gone"}
        /\ result = "ok" => c \notin wal
        /\ wal' = wal
    BY <1>2 DEF RequestOk, BatcherOk, Send
  <2>3. CASE pc[c] = "gone"
    BY <2>1, <2>2, <2>3 DEF Phase
  <2>4. CASE pc[c] # "gone" /\ result = "ok"
    <3>1. SC!Ack(c)
      BY <2>1, <2>2, <2>4 DEF Phase, SC!Ack
    <3> QED BY <2>2, <3>1 DEF SC!Next
  <2>5. CASE pc[c] # "gone" /\ result = "err"
    <3>1. SC!Fail(c)
      BY <2>1, <2>2, <2>5 DEF Phase, SC!Fail, SC!Pending
    <3> QED BY <2>2, <3>1 DEF SC!Next
  <2> QED BY <2>3, <2>4, <2>5
<1> QED BY <1>1, <1>2

\* Group commit implements SyncedCommit: Ok means on disk, for every number of
\* callers, threshold and batch size.
THEOREM Refinement == Spec => ImplementsSyncedCommit
<1>1. Init => SC!Init
  BY DEF Init, SC!Init, Phase
<1>2. IInv /\ [Next]_vars => [SC!Next]_Phase
  <2> SUFFICES ASSUME IInv, [Next]_vars PROVE SC!Next \/ Phase' = Phase
    OBVIOUS
  <2>1. CASE UNCHANGED vars
    BY <2>1 DEF vars, Phase
  <2>2. CASE CheckBuffer \/ Collect \/ TimedOut \/ Woken \/ BeginFlush
    BY <2>2 DEF CheckBuffer, Collect, TimedOut, Woken, BeginFlush, CallerUnchanged, Phase
  <2>3. CASE EndFlush
    BY <2>3, FlushRefines DEF EndFlush
  <2>4. CASE BeginShutdown \/ NotifyShutdown \/ JoinBatcher
    BY <2>4 DEF BeginShutdown, NotifyShutdown, JoinBatcher, CallerUnchanged, Phase
  <2>5. CASE FinalFlush
    BY <2>5, FlushRefines DEF FinalFlush
  <2> QED
    BY <2>1, <2>2, <2>3, <2>4, <2>5, CallerRefines, SendRefines
       DEF Next, BatcherStep, CloserStep
<1> QED BY <1>1, <1>2, Invariance, PTL DEF Spec, ImplementsSyncedCommit, SC!Spec
=============================================================================
