-------------------------- MODULE PlanExecutionTabs --------------------------
(***************************************************************************)
(* The plan page in the browser, one tab per caller: it offers commands    *)
(* for the view it shows, keeps the command it sent until it knows the     *)
(* outcome, and repeats it with the same key on Revalidate.  A receipt is  *)
(* confirmed by a fresh read before anything is shown.                     *)
(***************************************************************************)
EXTENDS TimelineExecution

CONSTANTS
    LastVersion,   \* bound: no command is sent for a later version
    MaxOrphans    \* bound: calls under way nobody waits for

ASSUME TabBoundsAssumption == {LastVersion, MaxOrphans} \subseteq Nat

VARIABLES
    tab,          \* what each tab shows and remembers
    waiting,      \* the call each tab waits for, or none, as a set
    orphans       \* calls under way whose tab has stopped waiting

tabVars == <<timelineVars, today, tab, waiting, orphans>>

-----------------------------------------------------------------------------
(* What a read returns, as far as the page depends on it.                  *)
View ==
    [execution |-> execution,
     open |-> {[cp |-> i, row |-> checkpoints[i], overdue |-> today >= i] : i \in Open},
     latest |-> {a \in DOMAIN attestations :
                    \A b \in DOMAIN attestations : attestations[b].at <= attestations[a].at}]

(* The buttons of the workspace for a view: start, the attestation form,   *)
(* the verification panel, and reassessment when blocked or overdue.       *)
Offers(t, view) ==
    LET ev == view.execution.version
        Offer(op, c, what, ref) == Command(t, op, c.cp, ev, c.row.version, what, ref)
    IN
    IF view.execution.state = "none" THEN {StartCommand(c) : c \in {t} \cap Family}
    ELSE IF view.execution.state # "active" THEN {}
    ELSE {Offer("attest", c, kind, NoReference) :
              c \in {c \in view.open : c.row.state = "in_progress" /\ t \in Accountable(c.cp)},
              kind \in AttestationKinds}
         \cup {Offer("verify", c, action, a) :
              c \in {c \in view.open : c.row.state = "awaiting_advisor" /\ t \in Advisors},
              action \in VerificationActions, a \in view.latest}
         \cup {Offer("reassess", c, "blocked_attestation", a) :
              c \in {c \in view.open : c.row.state = "blocked" /\ t \in Advisors},
              a \in view.latest}
         \cup {Offer("reassess", c, "deadline_elapsed", NoReference) :
              c \in {c \in view.open : c.row.state # "blocked" /\ c.overdue /\ t \in Advisors}}

Screens == {"shown", "in_flight", "confirming", "refreshing", "recoverable", "session_changed"}

(* started: whether the read that opens a recovery found an execution;     *)
(* TRUE where nothing is compared with it.                                 *)
Showing(view) == [screen |-> "shown", view |-> view, pending |-> {}, started |-> TRUE]
On(t, screen, pending) ==
    tab' = [tab EXCEPT ![t].screen = screen, ![t].pending = pending]

CallFor(cmd) == [cmd |-> cmd, at |-> EntryTime(cmd), day |-> EntryDay(cmd)]

TabInit ==
    /\ TimelineInit
    /\ tab = [t \in Callers |-> Showing(View)]
    /\ waiting = [t \in Callers |-> {}]
    /\ orphans = {}

-----------------------------------------------------------------------------
(*                             In the browser                              *)

(* The buttons that can be pressed.  The reassessment depends on the view  *)
(* alone (canReassess), which a failure leaves in place, so it stays there *)
(* beside Revalidate; the other commands are taken off.                    *)
Buttons(t) ==
    {cmd \in Offers(t, tab[t].view) :
        \/ tab[t].screen = "shown"
        \/ tab[t].screen = "recoverable" /\ cmd.op = "reassess"}

(* runMutation: the controller is locked, the command kept, the call sent. *)
(* A reassessment asked for after a failure takes the place of the command *)
(* kept so far; the same one again has the same body and so the same key.  *)
Act(t) ==
    /\ \E cmd \in Buttons(t) :
           /\ cmd.ev < LastVersion
           /\ tab' = [tab EXCEPT ![t].screen = "in_flight", ![t].pending = {cmd},
                                 ![t].started = TRUE]
           /\ waiting' = [waiting EXCEPT ![t] = {CallFor(cmd)}]
    /\ UNCHANGED <<timelineVars, today, orphans>>

(* recover with a command in memory: it reads the context, then sends the  *)
(* same body under the same key.                                           *)
Recover(t) ==
    /\ tab[t].screen = "recoverable"
    /\ \E cmd \in tab[t].pending :
           /\ tab' = [tab EXCEPT ![t].screen = "in_flight",
                                 ![t].started = execution.state # "none"]
           /\ waiting' = [waiting EXCEPT ![t] = {CallFor(cmd)}]
    /\ UNCHANGED <<timelineVars, today, orphans>>

(* recover without one: only reads.                                        *)
RecoverByReading(t) ==
    /\ tab[t].screen \in {"recoverable", "session_changed"} /\ tab[t].pending = {}
    /\ tab' = [tab EXCEPT ![t] = Showing(View)]
    /\ UNCHANGED <<timelineVars, today, waiting, orphans>>

(* The request fails in transport; the server may still be working on it.  *)
TransportFails(t) ==
    /\ waiting[t] # {}
    /\ \E kept \in SUBSET waiting[t] : orphans' = orphans \cup kept
    /\ Cardinality(orphans') <= MaxOrphans
    /\ waiting' = [waiting EXCEPT ![t] = {}]
    /\ On(t, "recoverable", tab[t].pending)
    /\ UNCHANGED <<timelineVars, today>>

(* receiptReconciles: the fresh view is not behind the receipt.            *)
Reconciles(receipt) ==
    LET cmd == receipt.cmd IN
    /\ execution.version >= receipt.after
    /\ cmd.op # "start" =>
           /\ checkpoints[cmd.cp].version >= receipt.cpAfter
           /\ receipt.cpAfter = IF cmd.op = "reassess" THEN cmd.cv ELSE cmd.cv + 1
    /\ cmd.op = "reassess" =>
           \E r \in DOMAIN reassessments : reassessments[r].cp = cmd.cp

ReceiptOf(cmd) == receipts[CHOOSE i \in DOMAIN receipts : receipts[i].cmd = cmd]

(* The read after the receipt.  A recovery also compares the context with  *)
(* the one it read first (sameContextIdentity): no execution then, one now *)
(* is taken for a changed session.                                         *)
Confirm(t) ==
    /\ tab[t].screen = "confirming"
    /\ \E cmd \in tab[t].pending :
           IF tab[t].started /\ Reconciles(ReceiptOf(cmd))
           THEN tab' = [tab EXCEPT ![t] = Showing(View)]
           ELSE On(t, "session_changed", {})
    /\ UNCHANGED <<timelineVars, today, waiting, orphans>>

Refresh(t) ==
    /\ tab[t].screen = "refreshing"
    /\ tab' = [tab EXCEPT ![t] = Showing(View)]
    /\ UNCHANGED <<timelineVars, today, waiting, orphans>>

ReadFails(t) ==
    /\ tab[t].screen \in {"confirming", "refreshing"}
    /\ On(t, "recoverable", tab[t].pending)
    /\ UNCHANGED <<timelineVars, today, waiting, orphans>>

(* The page is loaded anew: the command in memory is gone, a read follows. *)
Reload(t) ==
    /\ orphans' = orphans \cup waiting[t]
    /\ Cardinality(orphans') <= MaxOrphans
    /\ waiting' = [waiting EXCEPT ![t] = {}]
    /\ tab' = [tab EXCEPT ![t] = Showing(View)]
    /\ UNCHANGED <<timelineVars, today>>

-----------------------------------------------------------------------------
(*                          Answers of the server                          *)

Answered(t, screen, pending) ==
    /\ waiting' = [waiting EXCEPT ![t] = {}]
    /\ On(t, screen, pending)
    /\ UNCHANGED <<today, orphans>>

GetReceipt(t) ==
    \E call \in waiting[t] :
        /\ Replay(call) \/ Accept(call)
        /\ Answered(t, "confirming", tab[t].pending)

(* Two slips: a stale refusal keeps its slot; any refusal is repeated.     *)
KeepRefused(t) ==
    \E call \in waiting[t] :
        /\ Refuse(call)
        /\ Answered(t, IF RefusedAsStale(call.cmd) THEN "refreshing" ELSE "recoverable",
                       tab[t].pending)
RepeatRefused(t) ==
    \E call \in waiting[t] : Refuse(call) /\ Answered(t, "recoverable", tab[t].pending)

(* isPlanExecutionStaleAuthority: the slot is dropped and the page reads.  *)
(* Every other refusal is handled like a failure of the transport.         *)
GetRefusal(t) ==
    \E call \in waiting[t] :
        /\ Refuse(call)
        /\ IF RefusedAsStale(call.cmd) THEN Answered(t, "refreshing", {})
           ELSE Answered(t, "recoverable", tab[t].pending)

ServeOrphan ==
    \E call \in orphans :
        /\ Replay(call) \/ Accept(call) \/ Refuse(call)
        /\ orphans' = orphans \ {call}
        /\ UNCHANGED <<today, tab, waiting>>

DateTurns == DueDatePasses /\ UNCHANGED <<tab, waiting, orphans>>

TabNext ==
    \/ \E t \in Callers :
           \/ Act(t) \/ Recover(t) \/ RecoverByReading(t) \/ TransportFails(t)
           \/ Confirm(t) \/ Refresh(t) \/ ReadFails(t) \/ Reload(t)
           \/ GetReceipt(t) \/ GetRefusal(t)
    \/ ServeOrphan \/ DateTurns

(* The transport is not down for ever: a tab that keeps asking is answered *)
(* at last, and so are its reads.  Its person presses Revalidate, and the  *)
(* server ends what it began.  Nobody has to act or to reload.             *)
TabFairness ==
    /\ \A t \in Callers :
           /\ SF_tabVars(GetReceipt(t) \/ GetRefusal(t))
           /\ SF_tabVars(Confirm(t)) /\ SF_tabVars(Refresh(t))
           /\ WF_tabVars(Recover(t)) /\ WF_tabVars(RecoverByReading(t))
    /\ WF_tabVars(ServeOrphan)

TabSpec == TabInit /\ [][TabNext]_tabVars
FairTabSpec == TabSpec /\ TabFairness

-----------------------------------------------------------------------------
(*                              Properties                                 *)

(* A tab waits exactly while a command of its own is in flight, and keeps  *)
(* a command only while its outcome is open.                               *)
TabTypeOK ==
    \A t \in Callers :
        /\ tab[t].screen \in Screens
        /\ Cardinality(tab[t].pending) <= 1
        /\ \A cmd \in tab[t].pending : cmd.by = t
        /\ tab[t].screen = "in_flight" <=> waiting[t] # {}
        /\ {call.cmd : call \in waiting[t]} \subseteq tab[t].pending
        /\ tab[t].screen \in {"in_flight", "confirming"} => tab[t].pending # {}
        /\ tab[t].screen \in {"shown", "refreshing", "session_changed"} => tab[t].pending = {}

(* A receipt, the first or a replayed one, agrees with the view whenever   *)
(* it is read after it, whatever others did in between: the check of the   *)
(* receipt alone never takes the page's own success for a changed session. *)
ReceiptsReconcile ==
    \A t \in Callers : tab[t].screen = "confirming" =>
        \A cmd \in tab[t].pending : Reconciles(ReceiptOf(cmd))

(* What the state matrix says of session_changed: the role or the session  *)
(* changed.  Nobody changes either here, so no page may say so.            *)
OnlySessionsChange == \A t \in Callers : tab[t].screen # "session_changed"

(* A tab that dropped its command after a refusal has not lost an effect:  *)
(* what it sent is not recorded, though answers were lost on the way.      *)
DropsOnlyUndone ==
    [][\A t \in Callers :
          tab[t].screen = "in_flight" /\ tab'[t].screen = "refreshing" =>
              \A cmd \in tab[t].pending : ~\E i \in DOMAIN receipts' : receipts'[i].cmd = cmd]_tabVars

(* While the plan goes on, a person who presses Revalidate gets through    *)
(* without a reload: a tab that keeps a command comes to keep none.  The   *)
(* command was confirmed, or dropped after a refusal or the false alarm of *)
(* a recovered start, or its advisor gave it up for a reassessment, which  *)
(* is then confirmed or dropped (what became of the first one, a late copy *)
(* included, only the fresh view tells).  After a hand-over this is no     *)
(* longer so.                                                              *)
CommandsSettle ==
    \A t \in Callers :
        tab[t].pending # {} ~> \/ tab[t].pending = {}
                               \/ execution.state = "reassessment_required"

(* What the recovery test says of stale versions: a tab whose command is   *)
(* based on a version that has passed gets a fresh view.                   *)
StaleTabRefreshes ==
    \A t \in Callers :
        (\E cmd \in tab[t].pending : cmd.ev < execution.version /\ ~Done(cmd))
            ~> tab[t].screen \in {"refreshing", "shown"}
=============================================================================
