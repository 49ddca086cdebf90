-------------------------- MODULE PolicyProjection --------------------------
(***************************************************************************)
(* One scan policy: its event stream, the projection row every reader of   *)
(* the policy uses, the rows of its exclusions, and the re-evaluation pass *)
(* that brings the artifacts in line.  A mutation appends to the stream,   *)
(* then writes the rows, then enqueues the pass; nothing makes the three   *)
(* one step, and the row is written without a version guard.               *)
(***************************************************************************)
EXTENDS Naturals, Sequences

CONSTANTS
    Writers,     \* calls that may be in progress at once
    Exclusions,  \* exclusion ids; each is minted once
    MaxEvents,   \* bound: events on the stream
    MaxQueued,   \* bound: queued re-evaluation jobs
    MaxFaults    \* bound: failed writes, lost enqueues and killed calls

ASSUME PolicyAssumption == {MaxEvents, MaxQueued, MaxFaults} \subseteq Nat

VARIABLES
    stream,    \* the events after PolicyCreated
    row,       \* the projection row
    exclRows,  \* the exclusion rows
    calls,     \* [Writers -> the mutation in progress]
    queued,    \* the number of policy-reevaluation jobs in the queue
    enforced,  \* what the artifacts were last evaluated against
    faults

vars == <<stream, row, exclRows, calls, queued, enforced, faults>>

(* A policy as far as it matters here: a field the gate depends on, one it *)
(* does not, and whether it is archived.                                   *)
Fields == 0..1
Policies == [gate : Fields, aux : Fields, archived : BOOLEAN, version : 0..MaxEvents]
Created == [gate |-> 0, aux |-> 0, archived |-> FALSE, version |-> 0]

(* The mutations; an empty set keeps a field as it is. *)
UpdateOps == {o \in [kind : {"update"}, gate : SUBSET Fields, aux : SUBSET Fields] :
                 o.gate # Fields /\ o.aux # Fields /\ o.gate \cup o.aux # {}}
AllOps == UpdateOps \cup [kind : {"archive", "reactivate"}] \cup [kind : {"add", "remove"}, id : Exclusions]

(* A replay is a policy with its exclusions. *)
Replay(p, x) == [policy |-> p, excl |-> x]

-----------------------------------------------------------------------------
(* The fold. *)

Event(k, v) == [kind |-> k, value |-> v]

Apply(s, e) ==
    CASE e.kind = "gate" -> [s EXCEPT !.policy.gate = e.value]
      [] e.kind = "aux" -> [s EXCEPT !.policy.aux = e.value]
      [] e.kind = "archived" -> [s EXCEPT !.policy.archived = TRUE]
      [] e.kind = "reactivated" -> [s EXCEPT !.policy.archived = FALSE]
      [] e.kind = "added" -> [s EXCEPT !.excl = @ \cup {e.value}]
      [] e.kind = "removed" -> [s EXCEPT !.excl = @ \ {e.value}]

Folded(s, events) ==
    LET upTo[n \in 0..Len(events)] == IF n = 0 THEN s ELSE Apply(upTo[n - 1], events[n])
    IN  upTo[Len(events)]

ApplyBatch(s, events) ==
    [Folded(s, events) EXCEPT !.policy.version = s.policy.version + Len(events)]

FoldStream(events) ==
    [Folded(Replay(Created, {}), events) EXCEPT !.policy.version = Len(events)]

-----------------------------------------------------------------------------
(* What a mutation appends to a state: nothing when the state already says *)
(* it, and "refused" on an archived policy.                                *)

Diff(field, want, have) == IF want = {} \/ have \in want THEN << >> ELSE <<Event(field, CHOOSE v \in want : TRUE)>>

Satisfied(o, s) ==
    CASE o.kind = "update" -> /\ o.gate = {} \/ s.policy.gate \in o.gate
                              /\ o.aux = {} \/ s.policy.aux \in o.aux
      [] o.kind = "archive" -> s.policy.archived
      [] o.kind = "reactivate" -> ~s.policy.archived
      [] o.kind = "add" -> o.id \in s.excl
      [] o.kind = "remove" -> o.id \notin s.excl

Refused(o, s) == o.kind \in {"update", "add", "remove"} /\ s.policy.archived

Intent(o, s) ==
    CASE o.kind = "update" -> Diff("gate", o.gate, s.policy.gate) \o Diff("aux", o.aux, s.policy.aux)
      [] o.kind = "archive" -> <<Event("archived", TRUE)>>
      [] o.kind = "reactivate" -> <<Event("reactivated", TRUE)>>
      [] o.kind = "add" -> <<Event("added", o.id)>>
      [] o.kind = "remove" -> <<Event("removed", o.id)>>

-----------------------------------------------------------------------------
(* A call: the row and exclusions as read, the state it stands on, and     *)
(* what it appended.  since and alone are kept for the properties: the     *)
(* length of the stream when it began, and whether no other call has been  *)
(* in progress.                                                            *)

Idle == [stage |-> "idle"]
Busy(w) == calls[w].stage # "idle"
At(w, stage) == calls[w].stage = stage
Becomes(w, c) == calls' = [calls EXCEPT ![w] = c]

Init ==
    /\ stream = << >> /\ row = Created /\ exclRows = {}
    /\ calls = [w \in Writers |-> Idle]
    /\ queued = 0 /\ enforced = [gate |-> Created.gate, excl |-> {}]
    /\ faults = 0

(* The row as read admits the mutation.  The id of an added exclusion is   *)
(* new.                                                                    *)
Admits(o) ==
    CASE o.kind = "update" -> ~row.archived
      [] o.kind = "archive" -> ~row.archived
      [] o.kind = "reactivate" -> row.archived
      [] o.kind = "add" -> /\ ~row.archived
                           /\ \A i \in 1..Len(stream) : stream[i] # Event("added", o.id)
                           /\ \A v \in Writers : Busy(v) => calls[v].op # o
      [] o.kind = "remove" -> ~row.archived

(* Where a call goes once it has read the row: an update the row already   *)
(* satisfies, stale as the row may be, is answered from it.                *)
FirstStage(o, read) ==
    CASE o.kind = "remove" -> "listing"
      [] o.kind = "update" /\ Satisfied(o, read) -> "unchanged"
      [] OTHER -> "first"

Begin(w, o) ==
    /\ ~Busy(w) /\ Admits(o)
    /\ LET read == Replay(row, {})
           call == [stage |-> FirstStage(o, read),
                    op |-> o, base |-> read, st |-> read, new |-> << >>,
                    since |-> Len(stream), alone |-> \A v \in Writers : ~Busy(v)]
       IN  calls' = [v \in Writers |-> IF v = w THEN call
                                       ELSE IF Busy(v) THEN [calls[v] EXCEPT !.alone = FALSE]
                                       ELSE Idle]
    /\ UNCHANGED <<stream, row, exclRows, queued, enforced, faults>>

(* "No field changes": the call is told Ok, and nothing is appended,       *)
(* written or enqueued.                                                    *)
AnswerFromRow(w) ==
    /\ At(w, "unchanged")
    /\ Becomes(w, Idle)
    /\ UNCHANGED <<stream, row, exclRows, queued, enforced, faults>>

(* remove_exclusion lists the exclusion rows after it has read the policy  *)
(* row, and answers NotFound when the id is not among them.                *)
ListExclusions(w) ==
    /\ At(w, "listing")
    /\ LET c == calls[w] IN
       Becomes(w, IF c.op.id \in exclRows
                  THEN [c EXCEPT !.stage = "first", !.base.excl = exclRows, !.st.excl = exclRows]
                  ELSE Idle)
    /\ UNCHANGED <<stream, row, exclRows, queued, enforced, faults>>

(* Mutant: the batch decided against the row is appended at the version of *)
(* the stream.                                                             *)
BatchAsFirstRead(c) == Intent(c.op, c.base)

(* Every attempt decides its batch against the state it stands on. *)
Batch(c) == Intent(c.op, c.st)

(* Appended: the state to write is the fold of the batch that landed. *)
Landed(c) ==
    LET new == Batch(c)
    IN  [c EXCEPT !.new = new, !.st = ApplyBatch(c.st, new),
                  !.stage = IF c.op.kind \in {"add", "remove"} THEN "exclusion" ELSE "projection"]

TryAppend(w) ==
    LET c == calls[w]
        new == Batch(c)
    IN  /\ c.st.policy.version = Len(stream)
        /\ Len(stream) + Len(new) <= MaxEvents
        /\ stream' = stream \o new
        /\ Becomes(w, Landed(c))

(* The first attempt stands on the row as read; a refused version sends    *)
(* the call to the stream.                                                 *)
FirstAttempt(w) ==
    /\ At(w, "first")
    /\ \/ TryAppend(w)
       \/ /\ calls[w].st.policy.version # Len(stream)
          /\ Becomes(w, [calls[w] EXCEPT !.stage = "rebase"])
          /\ UNCHANGED stream
    /\ UNCHANGED <<row, exclRows, queued, enforced, faults>>

(* Mutant: the re-base takes the stream's version and keeps the fields of  *)
(* the row.                                                                *)
RebasedVersionOnly(c) == [c.base EXCEPT !.policy.version = Len(stream)]

Rebased(c) == FoldStream(stream)

(* Mutant: the satisfied path writes the row back as it was read. *)
HealedByNothing(c, s) == c.base

Healed(c, s) == s

(* The second attempt stands on the stream: the mutation is refused there, *)
(* or already stated there, or decided again.                              *)
Rebase(w) ==
    /\ At(w, "rebase")
    /\ LET c == calls[w]
           s == Rebased(c)
       IN  Becomes(w, IF Refused(c.op, s) THEN Idle
                      ELSE IF Satisfied(c.op, s)
                           THEN [c EXCEPT !.st = Healed(c, s),
                                          !.stage = IF c.op.kind = "remove" THEN "exclusion" ELSE "projection"]
                           ELSE [c EXCEPT !.st = s, !.stage = "second"])
    /\ UNCHANGED <<stream, row, exclRows, queued, enforced, faults>>

(* A version refused again is another writer: the caller is told to retry. *)
SecondAttempt(w) ==
    /\ At(w, "second")
    /\ \/ TryAppend(w)
       \/ /\ calls[w].st.policy.version # Len(stream)
          /\ Becomes(w, Idle)
          /\ UNCHANGED stream
    /\ UNCHANGED <<row, exclRows, queued, enforced, faults>>

WriteExclusion(w) ==
    /\ At(w, "exclusion")
    /\ LET o == calls[w].op
       IN  exclRows' = IF o.kind = "add" THEN exclRows \cup {o.id} ELSE exclRows \ {o.id}
    /\ Becomes(w, [calls[w] EXCEPT !.stage = "projection"])
    /\ UNCHANGED <<stream, row, queued, enforced, faults>>

(* Is a pass owed?  An update asks its own batch, or, when it appended     *)
(* nothing, whether the row it replaced was behind on the gate.            *)
Owes(c) ==
    CASE c.op.kind = "update" -> IF c.new # << >> THEN \E i \in 1..Len(c.new) : c.new[i].kind = "gate"
                                 ELSE c.base.policy.gate # c.st.policy.gate
      [] c.op.kind = "archive" -> FALSE
      [] OTHER -> TRUE

(* The upsert overwrites the row whatever version it has. *)
WriteProjection(w) ==
    /\ At(w, "projection")
    /\ row' = calls[w].st.policy
    /\ Becomes(w, IF Owes(calls[w]) THEN [calls[w] EXCEPT !.stage = "enqueue"] ELSE Idle)
    /\ UNCHANGED <<stream, exclRows, queued, enforced, faults>>

(* A failure to enqueue is logged and the call still succeeds. *)
Enqueue(w) ==
    /\ At(w, "enqueue")
    /\ Becomes(w, Idle)
    /\ \/ queued < MaxQueued /\ queued' = queued + 1 /\ UNCHANGED faults
       \/ faults < MaxFaults /\ faults' = faults + 1 /\ UNCHANGED queued
    /\ UNCHANGED <<stream, row, exclRows, enforced>>

(* A write fails, or the process dies: the call ends where it stands. *)
Fail(w) ==
    /\ Busy(w) /\ ~At(w, "enqueue") /\ faults < MaxFaults
    /\ Becomes(w, Idle)
    /\ faults' = faults + 1
    /\ UNCHANGED <<stream, row, exclRows, queued, enforced>>

(* A queued pass evaluates the artifacts against the rows it reads, and    *)
(* skips an archived policy.                                               *)
RunPass ==
    /\ queued > 0
    /\ queued' = queued - 1
    /\ enforced' = IF row.archived THEN enforced ELSE [gate |-> row.gate, excl |-> exclRows]
    /\ UNCHANGED <<stream, row, exclRows, calls, faults>>

Next ==
    \/ \E w \in Writers, o \in AllOps : Begin(w, o)
    \/ \E w \in Writers :
          \/ AnswerFromRow(w) \/ ListExclusions(w) \/ FirstAttempt(w) \/ Rebase(w) \/ SecondAttempt(w)
          \/ WriteExclusion(w) \/ WriteProjection(w) \/ Enqueue(w) \/ Fail(w)
    \/ RunPass

Spec == Init /\ [][Next]_vars

-----------------------------------------------------------------------------
(* Properties. *)

Replays == [policy : Policies, excl : SUBSET Exclusions]
Events == [kind : {"gate", "aux"}, value : Fields] \cup [kind : {"archived", "reactivated"}, value : {TRUE}]
            \cup [kind : {"added", "removed"}, value : Exclusions]
Stages == {"unchanged", "listing", "first", "rebase", "second", "exclusion", "projection", "enqueue"}

(* The state has its type, and no row or call stands on a version the      *)
(* stream has not reached: ExpectedVersion::Exact of it could then only    *)
(* ever be refused.                                                        *)
TypeOK ==
    /\ stream \in Seq(Events) /\ Len(stream) <= MaxEvents
    /\ row \in Policies /\ row.version <= Len(stream)
    /\ exclRows \subseteq Exclusions
    /\ \A w \in Writers :
          LET c == calls[w]
          IN  \/ c = Idle
              \/ /\ c.stage \in Stages /\ c.op \in AllOps
                 /\ {c.base, c.st} \subseteq Replays /\ c.new \in Seq(Events)
                 /\ c.since <= Len(stream) /\ c.alone \in BOOLEAN
                 /\ c.base.policy.version <= c.st.policy.version
                 /\ c.st.policy.version <= Len(stream)
    /\ queued \in 0..MaxQueued /\ faults \in 0..MaxFaults
    /\ enforced \in [gate : Fields, excl : SUBSET Exclusions]

(* The projection row, and the policy every call is about to write, is     *)
(* what the stream said at the version it carries: whatever calls overlap, *)
(* fail or overwrite each other's row, it mixes no two states              *)
(* (apply_policy_batch, rebase_policy_from_stream).                        *)
RowIsStreamPrefix ==
    \A p \in {row} \cup {calls[w].st.policy : w \in {v \in Writers : Busy(v)}} :
        p = FoldStream(SubSeq(stream, 1, p.version)).policy

(* w's call is told Ok in this step.  A lost enqueue is swallowed. *)
Succeeds(w) ==
    /\ Busy(w) /\ calls[w].stage \in {"unchanged", "projection", "enqueue"} /\ calls'[w] = Idle
    /\ faults' = faults \/ At(w, "enqueue")

(* A call that no other call overlapped, and that the row did not answer,  *)
(* leaves the row at the head of the stream, however far behind it an      *)
(* earlier failed write had left it: "the next mutation re-derives it from *)
(* the stream" (write_projection).  An update the stale row satisfies      *)
(* leaves it as it is.                                                     *)
AloneCallHeals ==
    [][\A w \in Writers : Succeeds(w) /\ calls[w].alone /\ ~At(w, "unchanged")
                          => row' = FoldStream(stream').policy]_vars

(* The version from which a call's intent counts as said: the stream's     *)
(* when it began, or that of the row that answered it.                     *)
Asked(c) == IF c.stage = "unchanged" THEN c.base.policy.version ELSE c.since

(* A call that is told Ok has its intent on record.  One that wrote, also  *)
(* when it appended nothing: the stream stated what it asked for between   *)
(* its beginning and its answer.  One the row answered (update_policy, "no *)
(* field changes"): the stream stated it at the version of that row, or    *)
(* later, which may be before the call began, and may have been taken back *)
(* by then.                                                                *)
IntentRecorded ==
    [][\A w \in Writers : Succeeds(w) =>
          \E n \in Asked(calls[w])..Len(stream) :
              Satisfied(calls[w].op, FoldStream(SubSeq(stream, 1, n)))]_vars

(* What enqueue_re_evaluation says of a pass it could not enqueue: "the    *)
(* operator recovers a missed tighten by re-applying the policy (which     *)
(* re-enqueues)".  A gate-only update that is told Ok, with no other call  *)
(* overlapping and its own enqueue not lost, would leave its gate          *)
(* evaluated or a pass queued.  It does not: the row answers the retry.    *)
ReapplyRecovers ==
    [][\A w \in Writers :
          /\ Succeeds(w) /\ faults' = faults
          /\ calls[w].alone /\ calls[w].op.kind = "update" /\ calls[w].op.aux = {}
          => enforced'.gate = row'.gate \/ queued' > 0]_vars

=============================================================================
