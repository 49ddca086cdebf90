----------------------------- MODULE PullDedup -----------------------------
(***************************************************************************)
(* hort-app::pull_dedup: coalescing of concurrent pull-through fetches of  *)
(* one key.  Layer A is a map per replica from the key to the broadcast    *)
(* channel of the call that leads there; Layer B is one record in the      *)
(* shared ephemeral store, which is the cluster's lock while it says       *)
(* "in flight" and a cache of the leader's answer afterwards.  Calls may   *)
(* be dropped at any await, replicas may die, the store may fail, evict    *)
(* or lose a reply, and a caller that disproves an answer forgets it.      *)
(*                                                                         *)
(* A call is used once; its name stands for its channel and for the answer *)
(* its fetch brings, which tells answers apart.  Durations are left out:   *)
(* every timer may fire at any time, except that a record does not expire  *)
(* under a heartbeat.                                                      *)
(***************************************************************************)
EXTENDS Naturals, FiniteSets

CONSTANTS
    Calls,
    Replicas,
    At,         \* [Calls -> Replicas], where a call arrives
    MaxFaults   \* bound: store failures, lapsed heartbeats, replica deaths

ASSUME DedupAssumption ==
    /\ At \in [Calls -> Replicas]
    /\ MaxFaults \in Nat

VARIABLES
    record,     \* the key's record in the ephemeral store
    layerA,     \* [Replicas -> whose channel the entry points to]
    call,       \* [Calls -> the progress of the call]
    beating,    \* leaders whose heartbeat task runs
    disproved,  \* history: answers that were forgotten
    faults

vars == <<record, layerA, call, beating, disproved, faults>>

Nobody == "nobody"
Silence == [kind |-> "silence", of |-> Nobody]

(* What a fetch ends with.  To a caller every failure is an error. *)
Answer(c) == [kind |-> "ok", of |-> c]
Failure == [kind |-> "failed", of |-> Nobody]
Outcomes == {Answer(c) : c \in Calls} \cup {Failure}

(* An expired failure may still be there: expires_at is in whole seconds,  *)
(* and any heartbeat extends whatever record it finds.                     *)
Absent == [kind |-> "absent", of |-> Nobody, expired |-> FALSE]
InFlight(c) == [kind |-> "inFlight", of |-> c, expired |-> FALSE]
Terminal(o) == [kind |-> o.kind, of |-> o.of, expired |-> FALSE]
Records == {Absent} \cup {InFlight(c) : c \in Calls} \cup {Terminal(o) : o \in Outcomes}
             \cup {[Terminal(Failure) EXCEPT !.expired = TRUE]}

Guarded == {"fetching", "persisting", "sending", "evicting"}
Ended == {"returned", "dropped"}
Phases == {"idle", "joining", "joined", "reading", "electing", "overwriting", "polling", "elected"}
            \cup Guarded \cup Ended

(* chan: the channel joined; heard: what it delivered; late: history, the  *)
(* channel had been used when it was joined; open: led without Layer B;    *)
(* barred: history, the answers disproved before the call began, of        *)
(* leaders that were through by then.                                      *)
Progress == [phase : Phases, chan : Calls \cup {Nobody}, heard : {Silence} \cup Outcomes, late : BOOLEAN,
             open : BOOLEAN, result : {Silence} \cup Outcomes, forgot : BOOLEAN,
             barred : SUBSET Calls]

NotBegun == [phase |-> "idle", chan |-> Nobody, heard |-> Silence, late |-> FALSE, open |-> FALSE,
             result |-> Silence, forgot |-> FALSE, barred |-> {}]

Init ==
    /\ record = Absent
    /\ layerA = [r \in Replicas |-> Nobody]
    /\ call = [c \in Calls |-> NotBegun]
    /\ beating = {}
    /\ disproved = {}
    /\ faults = 0

In(c, phase) == call[c].phase = phase
Goes(c, phase) == call' = [call EXCEPT ![c].phase = phase]
Returns(c, o) == call' = [call EXCEPT ![c] = [NotBegun EXCEPT !.phase = "returned", !.result = o,
                                                              !.barred = call[c].barred]]
Dropped == [NotBegun EXCEPT !.phase = "dropped"]

Fault == faults < MaxFaults /\ faults' = faults + 1

(* The store answers an error; what it was asked to write may be there all *)
(* the same.                                                               *)
StoreFails(written) == Fault /\ record' \in {record, written}

-----------------------------------------------------------------------------
(* Layer A. *)

(* coalesce_inner: look for a window of this replica. *)
Begin(c) ==
    /\ In(c, "idle")
    /\ call' = [call EXCEPT ![c].phase = IF layerA[At[c]] = Nobody THEN "reading" ELSE "joining",
                            ![c].chan = layerA[At[c]],
                            ![c].barred = {a \in disproved : call[a].phase \in Ended}]
    /\ UNCHANGED <<record, layerA, beating, disproved, faults>>

(* Strong references: the leader's own, and one in every waiting follower. *)
Upgradable(d) == call[d].phase \in Guarded \/ \E f \in Calls : In(f, "joined") /\ call[f].chan = d

Subscribe(c) ==
    LET d == call[c].chan IN
    /\ In(c, "joining")
    /\ IF Upgradable(d)
       THEN call' = [call EXCEPT ![c].phase = "joined",
                                 ![c].late = call[d].phase \notin {"fetching", "persisting", "sending"}]
       ELSE call' = [call EXCEPT ![c].phase = "reading", ![c].chan = Nobody]
    /\ UNCHANGED <<record, layerA, beating, disproved, faults>>

Receive(c) ==
    /\ In(c, "joined") /\ call[c].heard # Silence
    /\ Returns(c, call[c].heard)
    /\ UNCHANGED <<record, layerA, beating, disproved, faults>>

(* follower_wait elapses on a silent channel.  The entry that is evicted   *)
(* is the one that is there by now.  A channel is never seen closed: the   *)
(* follower itself holds a sender.                                         *)
WaitElapses(c) ==
    /\ In(c, "joined") /\ call[c].heard = Silence
    /\ layerA' = [layerA EXCEPT ![At[c]] = Nobody]
    /\ call' = [call EXCEPT ![c].phase = "reading", ![c].chan = Nobody, ![c].late = FALSE]
    /\ UNCHANGED <<record, beating, disproved, faults>>

-----------------------------------------------------------------------------
(* Layer B: election. *)

Reads(c) ==
    CASE record.kind = "absent" -> Goes(c, "electing")
      [] record.kind = "inFlight" -> Goes(c, "polling")
      [] record.kind = "failed" /\ record.expired -> Goes(c, "overwriting")
      [] OTHER -> Returns(c, [kind |-> record.kind, of |-> record.of])

Read(c) ==
    /\ In(c, "reading")
    /\ \/ Reads(c) /\ UNCHANGED faults
       \/ Fault /\ Goes(c, "electing")
    /\ UNCHANGED <<record, layerA, beating, disproved>>

FailOpen(c) == call' = [call EXCEPT ![c].phase = "elected", ![c].open = TRUE]

(* Mutant: the lock is put without looking. *)
ElectByPut(c) ==
    /\ In(c, "electing")
    /\ record' = InFlight(c) /\ Goes(c, "elected")
    /\ UNCHANGED <<layerA, beating, disproved, faults>>

(* put_if_absent. *)
Elect(c) ==
    LET won == IF record = Absent THEN InFlight(c) ELSE record IN
    /\ In(c, "electing")
    /\ \/ record' = won /\ Goes(c, IF record = Absent THEN "elected" ELSE "polling") /\ UNCHANGED faults
       \/ StoreFails(won) /\ FailOpen(c)
    /\ UNCHANGED <<layerA, beating, disproved>>

(* put over the record that was read as expired, whatever it is by now. *)
Overwrite(c) ==
    /\ In(c, "overwriting")
    /\ \/ record' = InFlight(c) /\ Goes(c, "elected") /\ UNCHANGED faults
       \/ StoreFails(InFlight(c)) /\ FailOpen(c)
    /\ UNCHANGED <<layerA, beating, disproved>>

(* layer_b_follower_poll, at the reads that end it. *)
Poll(c) ==
    /\ In(c, "polling")
    /\ \/ record.kind \in {"ok", "failed"} /\ Returns(c, [kind |-> record.kind, of |-> record.of])
            /\ UNCHANGED faults
       \/ record = Absent /\ Returns(c, Failure) /\ UNCHANGED faults
       \/ Fault /\ Returns(c, Failure)
    /\ UNCHANGED <<record, layerA, beating, disproved>>

PollCeiling(c) ==
    /\ In(c, "polling")
    /\ Returns(c, Failure)
    /\ UNCHANGED <<record, layerA, beating, disproved, faults>>

-----------------------------------------------------------------------------
(* Leading.  The guard is armed from here on. *)

Lead(c) ==
    /\ In(c, "elected")
    /\ layerA' = [layerA EXCEPT ![At[c]] = c]
    /\ beating' = IF call[c].open THEN beating ELSE beating \cup {c}
    /\ Goes(c, "fetching")
    /\ UNCHANGED <<record, disproved, faults>>

(* The heartbeat is stopped before the outcome is written. *)
FetchEnds(c, outcome) ==
    /\ In(c, "fetching")
    /\ beating' = beating \ {c}
    /\ call' = [call EXCEPT ![c].phase = IF call[c].open THEN "sending" ELSE "persisting",
                            ![c].result = outcome]
    /\ UNCHANGED <<record, layerA, disproved, faults>>

FetchReturns(c) == FetchEnds(c, Answer(c)) \/ FetchEnds(c, Failure)

(* Mutant: only the leader with a healthy Layer B has a deadline. *)
DeadlineUnlessOpen(c) == ~call[c].open /\ FetchEnds(c, Failure)

(* Mutant: a leader abandoned at its deadline tells nobody. *)
DeadlineUntold(c) ==
    /\ In(c, "fetching")
    /\ beating' = beating \ {c}
    /\ call' = [call EXCEPT ![c].phase = "evicting", ![c].result = Failure]
    /\ UNCHANGED <<record, layerA, disproved, faults>>

(* leader_deadline elapses: the fetch is abandoned as a failure. *)
Deadline(c) == FetchEnds(c, Failure)

(* The terminal put replaces whatever record is there, best effort. *)
Persist(c) ==
    /\ In(c, "persisting")
    /\ \/ record' = Terminal(call[c].result) /\ UNCHANGED faults
       \/ StoreFails(Terminal(call[c].result))
    /\ Goes(c, "sending")
    /\ UNCHANGED <<layerA, beating, disproved>>

Delivered(c) ==
    [f \in Calls |-> IF In(f, "joined") /\ call[f].chan = c
                     THEN [call[f] EXCEPT !.heard = call[c].result] ELSE call[f]]

(* Mutant: followers are told before the record is written. *)
BroadcastFirst(c) ==
    /\ call[c].phase \in {"persisting", "sending"}
    /\ call' = [Delivered(c) EXCEPT ![c].phase = IF In(c, "sending") THEN "evicting" ELSE @]
    /\ UNCHANGED <<record, layerA, beating, disproved, faults>>

Broadcast(c) ==
    /\ In(c, "sending")
    /\ call' = [Delivered(c) EXCEPT ![c].phase = "evicting"]
    /\ UNCHANGED <<record, layerA, beating, disproved, faults>>

(* The entry under the key goes, whoever put it there. *)
Disarm(c) ==
    /\ In(c, "evicting")
    /\ layerA' = [layerA EXCEPT ![At[c]] = Nobody]
    /\ Returns(c, call[c].result)
    /\ UNCHANGED <<record, beating, disproved, faults>>

-----------------------------------------------------------------------------
(* The call's future is dropped at an await: a client went away. *)

AtAwait(c) ==
    /\ call[c].phase \notin {"idle", "joining", "evicting"} \cup Ended
    /\ call[c].open => ~In(c, "sending")

(* Mutant: the guard is not armed until the fetch has returned. *)
DropWithoutGuard(c) ==
    /\ AtAwait(c)
    /\ layerA' = IF call[c].phase \in {"persisting", "sending"} THEN [layerA EXCEPT ![At[c]] = Nobody] ELSE layerA
    /\ beating' = beating \ {c}
    /\ call' = [call EXCEPT ![c] = Dropped]
    /\ UNCHANGED <<record, disproved, faults>>

(* Mutant: the heartbeat outlives a leader that was dropped. *)
DropLeaksHeartbeat(c) ==
    /\ AtAwait(c)
    /\ layerA' = IF call[c].phase \in Guarded THEN [layerA EXCEPT ![At[c]] = Nobody] ELSE layerA
    /\ call' = [call EXCEPT ![c] = Dropped]
    /\ UNCHANGED <<record, beating, disproved, faults>>

(* LeaderGuard::drop. *)
Drop(c) ==
    /\ AtAwait(c)
    /\ layerA' = IF call[c].phase \in Guarded THEN [layerA EXCEPT ![At[c]] = Nobody] ELSE layerA
    /\ beating' = beating \ {c}
    /\ call' = [call EXCEPT ![c] = Dropped]
    /\ UNCHANGED <<record, disproved, faults>>

Crash(r) ==
    LET lost == {c \in Calls : At[c] = r /\ call[c].phase \notin {"idle"} \cup Ended} IN
    /\ lost # {} /\ Fault
    /\ call' = [c \in Calls |-> IF c \in lost THEN Dropped ELSE call[c]]
    /\ layerA' = [layerA EXCEPT ![r] = Nobody]
    /\ beating' = beating \ lost
    /\ UNCHANGED <<record, disproved>>

-----------------------------------------------------------------------------
(* The record. *)

Expire ==
    /\ record # Absent /\ beating = {}
    /\ record' = Absent
    /\ UNCHANGED <<layerA, call, beating, disproved, faults>>

(* Heartbeats fail for a whole TTL, or the store evicts the record. *)
Evict ==
    /\ record # Absent /\ Fault
    /\ record' = Absent
    /\ UNCHANGED <<layerA, call, beating, disproved>>

FailureExpires ==
    /\ record.kind = "failed" /\ ~record.expired
    /\ record' = [record EXCEPT !.expired = TRUE]
    /\ UNCHANGED <<layerA, call, beating, disproved, faults>>

(* A caller found the answer it was given refuted. *)
Forget(c) ==
    /\ In(c, "returned") /\ call[c].result.kind = "ok" /\ ~call[c].forgot
    /\ call' = [call EXCEPT ![c].forgot = TRUE]
    /\ \/ /\ record' = Absent
          /\ disproved' = disproved \cup {call[c].result.of}
          /\ UNCHANGED faults
       \/ StoreFails(Absent) /\ UNCHANGED disproved
    /\ UNCHANGED <<layerA, beating>>

Proceed(c) ==
    \/ Subscribe(c) \/ Receive(c) \/ Read(c) \/ Elect(c) \/ Overwrite(c)
    \/ Lead(c) \/ Persist(c) \/ Broadcast(c) \/ Disarm(c)

Next ==
    \/ \E c \in Calls :
         \/ Begin(c) \/ Proceed(c) \/ WaitElapses(c) \/ Poll(c) \/ PollCeiling(c)
         \/ FetchReturns(c) \/ Deadline(c) \/ Drop(c) \/ Forget(c)
    \/ \E r \in Replicas : Crash(r)
    \/ Expire \/ Evict \/ FailureExpires

Spec == Init /\ [][Next]_vars

(* Timers fire and a call goes on where it waits for nobody; that a fetch  *)
(* ever returns is not assumed.                                            *)
FairSpec ==
    /\ Spec
    /\ \A c \in Calls :
         WF_vars(Proceed(c)) /\ WF_vars(WaitElapses(c)) /\ WF_vars(PollCeiling(c)) /\ WF_vars(Deadline(c))
    /\ WF_vars(Expire)

-----------------------------------------------------------------------------
(* Properties. *)

(* The type invariant; a heartbeat belongs to a call that is fetching.     *)
TypeOK ==
    /\ record \in Records
    /\ layerA \in [Replicas -> Calls \cup {Nobody}]
    /\ call \in [Calls -> Progress]
    /\ beating \subseteq {c \in Calls : In(c, "fetching")}
    /\ disproved \subseteq Calls
    /\ faults \in 0..MaxFaults

(* No entry outlives its window: a caller that finds one joins a leader of *)
(* its own replica that is still there, although entries are inserted,     *)
(* replaced and removed by key and not by owner.                           *)
EntryHasLeader ==
    \A r \in Replicas :
        LET d == layerA[r] IN d # Nobody => At[d] = r /\ call[d].phase \in Guarded

(* Whoever joined a window before its outcome was sent hears it: a         *)
(* follower is left to wait out its ceiling only by a leader that was      *)
(* dropped, or because it joined between the send and the eviction.        *)
SilenceExplained ==
    \A f \in Calls :
        LET d == call[f].chan IN
        In(f, "joined") /\ call[f].heard = Silence /\ ~call[f].late =>
            call[d].phase \in {"fetching", "persisting", "sending", "dropped"}

(* A disproved answer is not handed on: a call that begins after a forget  *)
(* took effect, and after the leader that brought the answer was through,  *)
(* never returns what was forgotten, on either layer, even when fetches    *)
(* overlap: the outcome is written before anyone is told it.               *)
DisprovedNotInherited ==
    \A c \in Calls :
        In(c, "returned") /\ call[c].result.kind = "ok" => call[c].result.of \notin call[c].barred

(* Single flight, as far as it goes: while a leader fetches under the lock *)
(* the lock is lost only to a fault, to a forget, or to a call that acts   *)
(* on an older reading: one that found an expired failure, or a former     *)
(* leader that writes its outcome late.  A fresh election never takes it.  *)
LockTakenOnlyBy ==
    [][\A c \in Calls :
         record = InFlight(c) /\ c \in beating /\ record' # record /\ c \in beating' =>
            \/ faults' > faults
            \/ \E d \in Calls : call'[d].forgot # call[d].forgot
            \/ \E d \in Calls \ {c} : call[d].phase \in {"overwriting", "persisting"} /\ call'[d] # call[d]]_vars

(* No call waits for ever, whatever a fetch does. *)
CallsEnd == \A c \in Calls : []<>(call[c].phase \in {"idle"} \cup Ended)

(* No key stays poisoned: a lock goes, also when its holder is wedged, was *)
(* dropped or died with its replica.                                       *)
LockReleased == \A c \in Calls : []<>(record # InFlight(c))

=============================================================================
