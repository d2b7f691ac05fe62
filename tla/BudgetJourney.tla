----------------------------- MODULE BudgetJourney -----------------------------
(***************************************************************************)
(* The tab before the plan: on the collaboration page a parent sends a     *)
(* budget as a message, proposes it as a fact, signs over to the advisor   *)
(* who confirms it, and takes the same Case and session to the page of     *)
(* DemoJourney.  The tab keeps one envelope in sessionStorage; others of   *)
(* the family or the practice may write to the thread, decide, start the   *)
(* task or take the cookie, out of the same budget of faults.              *)
(***************************************************************************)
EXTENDS DemoJourney, Sequences

VARIABLES
    page,     \* the page of the tab: collaboration, then demo
    talk,     \* messages, candidates, current fact, revision and keys served
    posts,    \* commands the tab has given up and that may still be served
    book,     \* the envelope of this journey in sessionStorage
    form,     \* the reducer's state and context, and the submitted intent
    call,     \* the asynchronous function that runs, and where it awaits
    redo,     \* retryAction: what the recovery button repeats
    typed     \* times the person submitted the budget form

pageVars == <<talk, posts, book, form, call, redo, typed>>
demoPageVars == <<case, records, late, store, view, job, again, stream, asked>>
allVars == <<journeyVars, page, pageVars>>

Amounts == {"default", "other"}     \* the intent old envelopes had, and any other
Posts == {"append", "propose", "verify"}
NoKeys == [op \in Posts |-> 0]

NoBook == [is |-> "none", role |-> "none", fits |-> FALSE, phase |-> "none",
           msg |-> 0, cand |-> 0, keys |-> NoKeys, intent |-> "none"]
ParentBook == [NoBook EXCEPT !.is = "collaboration", !.role = "parent", !.fits = TRUE,
                             !.phase = "bootstrapping_parent"]
NewForm == [is |-> "bootstrapping_parent", resume |-> "none", cand |-> 0, open |-> FALSE,
            fact |-> 0, rev |-> 1, intent |-> "none"]
NoCall == [do |-> "none", at |-> "none", boot |-> FALSE, conflict |-> FALSE,
           state |-> "none", fact |-> 0, phase |-> "none"]

EmptyThread == [msgs |-> << >>, cands |-> << >>, fact |-> 0, rev |-> 1, keys |-> {}]

(* A tab may start on either page, or come here with the other's journey.  *)
LeftJourney == [NoBook EXCEPT !.is = "advisor-family", !.role = "advisor", !.fits = TRUE]

BudgetInit ==
    /\ page \in {"collaboration", "demo"}
    /\ book \in IF page = "demo" THEN {NoBook} ELSE {NoBook, LeftJourney}
    /\ IF book = NoBook THEN JourneyInit
       ELSE StartsWith([role |-> "advisor", live |-> TRUE, rival |-> FALSE])
    /\ talk = EmptyThread
    /\ posts = {} /\ form = NewForm /\ call = NoCall /\ redo = NoCall /\ typed = 0

-----------------------------------------------------------------------------
(*                       The thread, and its commands                      *)

Ids(s) == DOMAIN s
StateOf(c) == IF talk.cands[c].state = "pending" /\ talk.cands[c].rev # talk.rev
              THEN "stale" ELSE talk.cands[c].state

(* A key served before answers with what it made.                          *)
Served(q) == {k \in talk.keys : k.op = q.op /\ k.key = q.key}

CandidateOf(msg) == {c \in Ids(talk.cands) : talk.cands[c].msg = msg}

(* 409: the Case has gone on, the candidate is decided, a task runs.       *)
Refused(q) ==
    CASE q.op = "append" -> FALSE
      [] q.op = "propose" -> talk.rev # 1
      [] OTHER -> StateOf(q.of) # "pending" \/ case.phase # "task_ready"

NewMessage(value, own) == [talk EXCEPT !.msgs = Append(@, [value |-> value, own |-> own])]
NewCandidate(msg, rev) ==
    [talk EXCEPT !.cands = Append(@, [msg |-> msg, value |-> talk.msgs[msg].value,
                                      rev |-> rev, state |-> "pending"])]
Confirmed(c) == [talk EXCEPT !.cands[c].state = "confirmed", !.fact = c, !.rev = @ + 1]

(* A second proposal of one message finds the first.                       *)
Effect(q) ==
    CASE q.op = "append" -> NewMessage(q.value, TRUE)
      [] q.op = "propose" /\ CandidateOf(q.of) # {} -> talk
      [] q.op = "propose" /\ CandidateOf(q.of) = {} -> NewCandidate(q.of, 1)
      [] OTHER -> Confirmed(q.of)

Made(q) == CASE q.op = "append" -> Len(Effect(q).msgs)
             [] q.op = "propose" /\ CandidateOf(q.of) # {} -> CHOOSE c \in CandidateOf(q.of) : TRUE
             [] q.op = "propose" /\ CandidateOf(q.of) = {} -> Len(Effect(q).cands)
             [] OTHER -> q.of

Serve(q) == talk' = [Effect(q) EXCEPT !.keys = @ \cup {[op |-> q.op, key |-> q.key, id |-> Made(q)]}]
Fresh(q) == Served(q) = {} /\ ~Refused(q)

-----------------------------------------------------------------------------
(*                  sessionStorage, reducer, and how calls end             *)

Submitted(b) == b.msg # 0 \/ b.keys # NoKeys

(* collaborationV3: an envelope that fails it is removed by the next load. *)
WellFormed(b) ==
    CASE b.phase = "bootstrapping_parent" -> b.role = "parent" /\ ~Submitted(b)
                                             /\ b.cand = 0 /\ b.intent = "none"
      [] b.phase = "switching_to_advisor" -> b.msg # 0 /\ b.cand = 0 /\ b.intent # "none"
      [] b.phase \in {"thread_ready", "message_submitting", "proposal_pending"} ->
           /\ b.role = "parent" /\ b.cand = 0
           /\ b.phase = "proposal_pending" => b.msg # 0
           /\ Submitted(b) <=> b.intent # "none"
      [] OTHER -> b.role = "advisor" /\ b.msg # 0 /\ b.cand # 0 /\ b.intent # "none"
Save(b) == book' = IF WellFormed(b) THEN b ELSE NoBook

Unkeyed(b, op) == [b EXCEPT !.keys[op] = 0]
FreshKeyOf(op) == 1 + Cardinality({k \in talk.keys : k.op = op} \cup {q \in posts : q.op = op})
(* A slip: every attempt takes a new key.                                  *)
KeyedAnew(b, op, phase) == [b EXCEPT !.phase = phase, !.keys[op] = FreshKeyOf(op)]
(* persistMutation: the saved key of the same request, or a new one.       *)
Bound(b, op, phase) ==
    [b EXCEPT !.phase = phase, !.keys[op] = IF @ # 0 THEN @ ELSE FreshKeyOf(op)]

Failed(f) == [f EXCEPT !.is = "recoverable_error",
                 !.resume = CASE f.is = "recoverable_error" -> f.resume
                              [] f.is = "handoff_validating" -> "replan_required"
                              [] OTHER -> f.is]
Underlying == Failed(form).resume
Turn(from, f) == form' = IF Underlying \in from THEN f ELSE Failed(form)
Context(phase, cand, open, fact, rev, intent) ==
    [is |-> phase, resume |-> "none", cand |-> cand, open |-> open, fact |-> fact,
     rev |-> rev, intent |-> intent]
ParentContext(phase, cand, intent) == Context(phase, cand, FALSE, 0, 1, intent)

Done == call' = NoCall
(* fail: any failure but a 401 leaves envelope and retryAction as they are. *)
Broken == Done /\ form' = Failed(form) /\ UNCHANGED <<book, redo>>
SessionLost == Done /\ form' = Failed(form) /\ book' = NoBook /\ redo' = NoCall

(* recover, from the envelope: without one the parent connects anew.       *)
Resume(b, conflict) ==
    IF b = NoBook
    THEN /\ call' = [NoCall EXCEPT !.do = "connect", !.at = "bootstrap"]
         /\ form' = [NewForm EXCEPT !.intent = form.intent]
    ELSE /\ call' = [NoCall EXCEPT !.do = "recover", !.at = "read", !.conflict = conflict]
         /\ UNCHANGED form
-----------------------------------------------------------------------------
(*                Reading the thread, and adopting what it says            *)

(* matchingMessage and matchingParticipantBudgets.                         *)
MessageFor(msg, intent) ==
    LET same == {m \in Ids(talk.msgs) : talk.msgs[m].value = intent} IN
    CASE msg # 0 -> IF msg \in same THEN msg ELSE 0
      [] msg = 0 /\ Cardinality(same) = 1 -> CHOOSE m \in same : TRUE
      [] OTHER -> 0
OwnMatches(intent) == IF jar.role = "parent"
                      THEN {c \in Ids(talk.cands) : talk.cands[c].value = intent} ELSE {}
TheOwn(intent) == IF Cardinality(OwnMatches(intent)) = 1
                  THEN CHOOSE c \in OwnMatches(intent) : TRUE ELSE 0

(* The candidate an advisor is shown for the message of the envelope.      *)
Shared(b) == {c \in CandidateOf(b.msg) : talk.cands[c].value = b.intent /\ talk.cands[c].rev = 1}

(* upgradeLegacyCollaboration: an envelope that has submitted nothing      *)
(* adopts the one message of the thread if it is the default budget.       *)
Unsubmitted(b) == b.phase = "bootstrapping_parent" \/ (b.phase = "thread_ready" /\ ~Submitted(b))
Ambiguous(b) == Unsubmitted(b) /\ talk.msgs # << >>
                /\ ~(Len(talk.msgs) = 1 /\ talk.msgs[1].value = "default")
Adopted(b) == IF Unsubmitted(b) /\ talk.msgs # << >>
              THEN [b EXCEPT !.msg = 1, !.intent = "default"] ELSE b

Reads == SignedOn /\ UNCHANGED jar
ReadLost == ~SignedOn /\ jar' = NoSession /\ SessionLost

ServerStill == UNCHANGED <<talk, posts>>
Awaits(step) == page = "collaboration" /\ call.at = step
GoesTo(step) == call' = [call EXCEPT !.at = step]

ToThread(b) ==
    /\ Save([b EXCEPT !.phase = "thread_ready", !.keys = NoKeys,
                      !.msg = IF b.intent = "none" THEN 0 ELSE MessageFor(b.msg, b.intent)])
    /\ Turn({"bootstrapping_parent", "thread_ready", "message_submitting"},
            ParentContext("thread_ready", 0, b.intent))
    /\ Done

(* connectParent and recover of an envelope that has just connected.       *)
ReadConnected ==
    /\ Awaits("read") /\ call.do \in {"connect", "recover"} /\ book.phase = "bootstrapping_parent"
    /\ \/ ReadLost
       \/ Reads /\ Ambiguous(book) /\ Broken
       \/ Reads /\ ~Ambiguous(book) /\ ToThread(Adopted(book))
          /\ redo' = IF call.do = "recover" THEN NoCall ELSE redo
    /\ ServerStill

(* recover with the role of a parent.                                      *)
Settled(b, f) == Save(b) /\ form' = f /\ redo' = NoCall /\ Done

(* A slip: what was not answered is read again, and never sent again.      *)
OfferNothing(op, f) == redo' = NoCall /\ form' = Failed(f) /\ Done /\ UNCHANGED book
Offer(op, f) == /\ redo' = [NoCall EXCEPT !.do = "resend", !.at = op]
                /\ form' = Failed(f) /\ Done /\ UNCHANGED book

RecoverAsParent(b) ==
    LET msg == MessageFor(b.msg, b.intent)
        matches == IF msg = 0 THEN {} ELSE OwnMatches(b.intent)
        cand == IF matches = {} THEN 0 ELSE CHOOSE c \in matches : TRUE
        f(phase) == ParentContext(phase, cand, b.intent)
        broken == Done /\ form' = Failed([form EXCEPT !.intent = b.intent]) /\ UNCHANGED <<book, redo>>
    IN
    IF (msg # 0 /\ jar.role = "advisor") \/ Cardinality(matches) > 1 THEN broken
    ELSE
    CASE msg # 0 /\ b.phase = "message_submitting" ->
           Settled([Unkeyed(b, "append") EXCEPT !.msg = msg, !.phase = "thread_ready"], f("thread_ready"))
      [] msg = 0 /\ b.phase = "message_submitting" -> Offer("append", f("message_submitting"))
      [] b.phase = "thread_ready" /\ b.keys["propose"] # 0 /\ cand # 0 ->
           Settled([Unkeyed(b, "propose") EXCEPT !.phase = "proposal_pending"], f("proposal_pending"))
      [] b.phase = "thread_ready" /\ b.keys["propose"] # 0 /\ cand = 0 /\ call.conflict ->
           Settled(Unkeyed(b, "propose"), Failed(f("thread_ready")))
      [] b.phase = "thread_ready" /\ b.keys["propose"] # 0 /\ cand = 0 /\ ~call.conflict ->
           Offer("propose", f("thread_ready"))
      [] b.phase = "proposal_pending" /\ cand = 0 -> broken
      [] OTHER -> form' = f(b.phase) /\ Done /\ UNCHANGED <<book, redo>>

(* Candidate and current fact, as they are when they are read.             *)
Noted(cand) == [call EXCEPT !.at = "ledger", !.state = StateOf(cand), !.fact = talk.fact]

(* recover in the middle of the change of roles: the side the cookie is on. *)
RecoverSwitch(b) ==
    CASE jar.role # "advisor" /\ TheOwn(b.intent) # 0 ->
           Settled([Unkeyed(b, "propose") EXCEPT !.role = "parent", !.phase = "proposal_pending"],
                   ParentContext("proposal_pending", TheOwn(b.intent), b.intent))
      [] jar.role = "advisor" /\ Shared(b) # {} /\ b.role = "advisor" ->
           /\ call' = Noted(CHOOSE c \in Shared(b) : TRUE)
           /\ form' = [form EXCEPT !.intent = b.intent] /\ UNCHANGED <<book, redo>>
      [] jar.role = "advisor" /\ Shared(b) # {} /\ b.role = "parent" ->
           /\ book' = NoBook /\ redo' = NoCall /\ Done
           /\ form' = Failed(ParentContext("switching_to_advisor", 0, b.intent))
      [] OTHER -> /\ Done /\ form' = Failed([form EXCEPT !.intent = b.intent])
                  /\ UNCHANGED <<book, redo>>

RecoverAsAdvisor(b) ==
    /\ form' = IF jar.role = "advisor" THEN [form EXCEPT !.intent = b.intent]
               ELSE Failed([form EXCEPT !.intent = b.intent])
    /\ IF jar.role = "advisor" THEN call' = Noted(b.cand) ELSE Done
    /\ UNCHANGED <<book, redo>>

ReadRecovered ==
    /\ Awaits("read") /\ call.do = "recover" /\ book.phase # "bootstrapping_parent"
    /\ \/ ReadLost
       \/ Reads /\ Ambiguous(book) /\ Broken
       \/ /\ Reads /\ ~Ambiguous(book)
          /\ LET b == Adopted(book) IN
             CASE b.phase = "switching_to_advisor" -> RecoverSwitch(b)
               [] b.phase # "switching_to_advisor" /\ b.role = "parent" -> RecoverAsParent(b)
               [] OTHER -> RecoverAsAdvisor(b)
    /\ ServerStill

(* The candidate as the reading before the ledger's has shown it.          *)
AdvisorContext(phase, cand, state, fact) ==
    Context(phase, cand, state = "pending", IF fact = cand THEN fact ELSE 0, talk.rev, form.intent)
Reviewing(cand) ==
    /\ Save([book EXCEPT !.role = "advisor", !.phase = "advisor_reviewing", !.cand = cand,
                         !.keys = NoKeys])
    /\ Done

LedgerRead == jar.role = "advisor"

(* recover with the role of an advisor, from the ledger's revision.        *)
RecoverFromLedger ==
    LET c == book.cand
        rev == talk.cands[c].rev
        f(phase) == AdvisorContext(phase, c, call.state, call.fact)
        back == Unkeyed([book EXCEPT !.phase = "advisor_reviewing"], "verify")
    IN
    CASE book.phase = "advisor_reviewing" ->
           form' = f("advisor_reviewing") /\ Done /\ UNCHANGED <<book, redo>>
      [] book.phase # "advisor_reviewing" /\ call.state = "confirmed" /\ call.fact = c /\ talk.rev > rev ->
           Settled(Unkeyed([book EXCEPT !.phase = "replan_required"], "verify"), f("replan_required"))
      [] book.phase = "replan_required" /\ ~(call.state = "confirmed" /\ call.fact = c /\ talk.rev > rev) -> Broken
      [] book.phase = "confirmation_submitting"
           /\ (book.keys["verify"] = 0 \/ call.state # "pending" \/ talk.rev # rev \/ call.conflict)
           /\ ~(call.state = "confirmed" /\ call.fact = c /\ talk.rev > rev) ->
           Settled(back, Failed(f("advisor_reviewing")))
      [] OTHER -> Offer("verify", f("confirmation_submitting"))

(* switchToAdvisor, and recover of an advisor who has just signed on.      *)
ReviewFromLedger ==
    LET c == CHOOSE x \in Shared(book) : TRUE IN
    IF talk.rev = 1
    THEN /\ Reviewing(c) /\ redo' = IF call.do = "recover" THEN NoCall ELSE redo
         /\ LET f == AdvisorContext("advisor_reviewing", c, call.state, 0) IN
            IF call.do = "recover" THEN form' = f
            ELSE Turn({"switching_to_advisor", "advisor_reviewing"}, f)
    ELSE Broken

ReadLedger ==
    /\ Awaits("ledger") /\ call.do \in {"recover", "switch"}
    /\ \/ IF call.do = "recover" /\ book.phase = "switching_to_advisor"
          THEN ~SignedOn /\ jar' = NoSession /\ Broken ELSE ReadLost
       \/ Reads /\ ~LedgerRead /\ Broken
       \/ Reads /\ LedgerRead /\ IF book.phase = "switching_to_advisor" THEN ReviewFromLedger
                                 ELSE RecoverFromLedger
    /\ ServerStill

-----------------------------------------------------------------------------
(*                 Sessions: revoke, bootstrap, mint                       *)

CsrfFits == SignedOn /\ book.fits

(* An ended session leads to connecting; a role that cannot be given up    *)
(* ends the switch.                                                        *)
RevokeSession ==
    /\ Awaits("revoke")
    /\ jar' = IF SignedOn /\ ~book.fits THEN jar ELSE NoSession
    /\ CASE call.do = "end" -> /\ book' = NoBook /\ UNCHANGED <<form, redo>>
                               /\ call' = [NoCall EXCEPT !.do = "connect", !.at = "bootstrap"]
         [] call.do = "switch" /\ CsrfFits -> GoesTo("bootstrap") /\ UNCHANGED <<book, form, redo>>
         [] OTHER -> SessionLost
    /\ ServerStill

BootstrapSession ==
    /\ Awaits("bootstrap")
    /\ IF jar # NoSession THEN jar' = NoSession /\ Broken
       ELSE /\ call' = [call EXCEPT !.at = "mint", !.boot = TRUE]
            /\ UNCHANGED <<jar, book, form, redo>>
    /\ ServerStill

NextRole == IF call.do = "connect" THEN "parent" ELSE "advisor"
SignOn == [role |-> NextRole, live |-> TRUE, rival |-> FALSE]

MintSession ==
    /\ Awaits("mint")
    /\ CASE jar # NoSession -> SessionLost /\ jar' = IF SignedOn THEN jar ELSE NoSession
         [] jar = NoSession /\ ~call.boot -> Broken /\ UNCHANGED jar
         [] OTHER ->
              /\ jar' = SignOn /\ GoesTo("read") /\ UNCHANGED <<form, redo>>
              /\ book' = IF call.do = "connect" THEN ParentBook
                         ELSE [book EXCEPT !.role = "advisor", !.fits = TRUE]
    /\ ServerStill

(* switchToAdvisor reads the thread and the candidates of the advisor.     *)
ReadSwitched ==
    /\ Awaits("read") /\ call.do = "switch"
    /\ \/ ReadLost
       \/ /\ Reads /\ IF jar.role = "advisor" /\ Shared(book) # {}
                      THEN /\ call' = Noted(CHOOSE c \in Shared(book) : TRUE)
                           /\ UNCHANGED <<book, form, redo>>
                      ELSE Broken
    /\ ServerStill

-----------------------------------------------------------------------------
(*                              Commands                                   *)

Post == [op |-> call.at, key |-> book.keys[call.at], value |-> book.intent,
         of |-> IF call.at = "propose" THEN book.msg ELSE book.cand]

(* The answer is followed by reading; a resent command by recover.         *)
PostAnswered ==
    IF call.do = "resend" THEN Resume(book, FALSE) /\ UNCHANGED <<book, redo>>
    ELSE GoesTo("reread") /\ UNCHANGED <<book, form, redo>>

SendPost ==
    /\ page = "collaboration" /\ call.at \in Posts
    /\ CASE ~CsrfFits -> SessionLost /\ UNCHANGED talk
         [] CsrfFits /\ Fresh(Post) -> Serve(Post) /\ PostAnswered
         [] CsrfFits /\ Served(Post) # {} -> PostAnswered /\ UNCHANGED talk
         [] OTHER -> Resume(book, TRUE) /\ UNCHANGED <<talk, book, redo>>
    /\ UNCHANGED <<jar, posts>>

(* appendMessage takes the message's id from the answer, and keeps its key. *)
AppendRead ==
    /\ Awaits("reread") /\ call.do = "append"
    /\ \/ ReadLost
       \/ /\ Reads /\ Done /\ redo' = NoCall
          /\ Save([book EXCEPT !.phase = "thread_ready", !.msg = (CHOOSE k \in Served(
                       [op |-> "append", key |-> book.keys["append"]]) : TRUE).id])
          /\ Turn({"bootstrapping_parent", "thread_ready", "message_submitting"},
                  [form EXCEPT !.is = "thread_ready", !.resume = "none"])
    /\ ServerStill

ProposalRead ==
    /\ Awaits("reread") /\ call.do = "propose"
    /\ \/ ReadLost
       \/ Reads /\ (jar.role = "advisor" \/ TheOwn(book.intent) = 0) /\ Broken
       \/ /\ Reads /\ jar.role # "advisor" /\ TheOwn(book.intent) # 0 /\ Done /\ redo' = NoCall
          /\ Save([book EXCEPT !.phase = "proposal_pending"])
          /\ Turn({"thread_ready", "message_submitting", "proposal_pending"},
                  ParentContext("proposal_pending", TheOwn(book.intent), book.intent))
    /\ ServerStill

(* confirmCandidate, before it sends: the ledger must still be where the   *)
(* candidate was proposed.                                                 *)
ConfirmChecked ==
    /\ Awaits("check")
    /\ \/ ReadLost
       \/ Reads /\ (jar.role # "advisor" \/ talk.rev # talk.cands[book.cand].rev) /\ Broken
       \/ /\ Reads /\ jar.role = "advisor" /\ talk.rev = talk.cands[book.cand].rev
          /\ redo' = [NoCall EXCEPT !.do = "confirm", !.at = "verify"]
          /\ GoesTo("verify")
          /\ form' = [form EXCEPT !.is = "confirmation_submitting"]
          /\ Save(Bound(book, "verify", "confirmation_submitting"))
    /\ ServerStill

(* prove: candidate and fact, and then the ledger, before anything is said. *)
ConfirmRead ==
    /\ Awaits("reread") /\ call.do = "confirm"
    /\ \/ ReadLost
       \/ Reads /\ jar.role # "advisor" /\ Broken
       \/ Reads /\ jar.role = "advisor" /\ call' = Noted(book.cand) /\ UNCHANGED <<book, form, redo>>
    /\ ServerStill

Published == talk.rev = talk.cands[book.cand].rev + 1

ConfirmProved ==
    /\ Awaits("ledger") /\ call.do = "confirm"
    /\ \/ ReadLost
       \/ /\ Reads
          /\ IF jar.role = "advisor" /\ call.state = "confirmed" /\ call.fact = book.cand /\ Published
             THEN /\ Save(Unkeyed([book EXCEPT !.phase = "replan_required"], "verify"))
                  /\ Done /\ redo' = NoCall
                  /\ Turn({"confirmation_submitting", "replan_required"},
                          AdvisorContext("replan_required", book.cand, call.state, call.fact))
             ELSE Broken
    /\ ServerStill

-----------------------------------------------------------------------------
(*                            The hand-over                                *)

(* A stale or lost authority is not asked again; anything else may be.     *)
HandoffRefused(code) == /\ Done /\ form' = Failed(form) /\ UNCHANGED book
                        /\ redo' = IF code = "stale" THEN NoCall ELSE redo

HandoffRead ==
    /\ Awaits("facts")
    /\ \/ ReadLost
       \/ /\ Reads
          /\ CASE jar.role # "advisor" -> HandoffRefused("transport")
               [] jar.role = "advisor" /\ StateOf(book.cand) # "confirmed" -> HandoffRefused("terminal")
               [] jar.role = "advisor" /\ StateOf(book.cand) = "confirmed" /\ talk.fact # form.fact ->
                    HandoffRefused("stale")
               [] OTHER -> GoesTo("authority") /\ UNCHANGED <<book, form, redo>>
    /\ ServerStill

AuthorityHolds == talk.rev = form.rev /\ Published
Takeable == {"task_ready", "active_task", "review_required", "terminal_task_failure"}

HandoffAuthority ==
    /\ Awaits("authority")
    /\ \/ ReadLost
       \/ /\ Reads
          /\ CASE jar.role # "advisor" -> HandoffRefused("transport")
               [] jar.role = "advisor" /\ ~(AuthorityHolds /\ case.phase \in Takeable) ->
                    HandoffRefused("stale")
               [] OTHER -> /\ call' = [call EXCEPT !.at = "leave", !.phase = case.phase]
                           /\ UNCHANGED <<book, form, redo>>
    /\ ServerStill

(* continueCollaborationAsAdvisorFamily: the envelope of the next page, on *)
(* the Case as the ledger showed it before the inspector was awaited.      *)
Converted == [NoStore EXCEPT !.role = "advisor", !.fits = book.fits,
                 !.task = IF call.phase = "task_ready" THEN 0 ELSE case.round]

(* The page is left for good, and with it what only it reads.              *)
HandOver ==
    /\ Awaits("leave") /\ book.keys = NoKeys
    /\ page' = "demo" /\ Restart(Converted)
    /\ form' = NewForm /\ call' = NoCall /\ redo' = NoCall /\ book' = NoBook
    /\ talk' = EmptyThread /\ posts' = {} /\ typed' = 0
    /\ UNCHANGED <<case, jar, records, late, asked, faults>>

-----------------------------------------------------------------------------
(*                      What the person does                               *)

Resting == page = "collaboration" /\ call = NoCall /\ UNCHANGED <<talk, posts, jar>>
Start(do, at) == call' = [NoCall EXCEPT !.do = do, !.at = at]

ConnectParent ==
    /\ Resting /\ form.is = "bootstrapping_parent" /\ book.is # "advisor-family"
    /\ Start("connect", "bootstrap") /\ UNCHANGED <<book, form, redo, typed, faults>>

(* The journey of the other page is in the way: it is ended, or kept.      *)
EndConflictingJourney ==
    /\ Resting /\ book.is = "advisor-family"
    /\ Start("end", "revoke") /\ UNCHANGED <<book, form, redo, typed, faults>>

AppendBudget ==
    /\ Resting /\ form.is = "thread_ready" /\ form.intent = "none" /\ book.role = "parent"
    /\ \E value \in Amounts :
          LET b == IF book.intent = "none" THEN [book EXCEPT !.intent = value] ELSE book IN
          /\ Save(Bound(b, "append", "message_submitting"))
          /\ form' = [form EXCEPT !.is = "message_submitting", !.intent = value]
    /\ Start("append", "append") /\ redo' = call' /\ typed' = typed + 1 /\ UNCHANGED faults

ProposeBudget ==
    /\ Resting /\ form.is = "thread_ready" /\ form.intent # "none"
    /\ book.role = "parent" /\ book.msg # 0
    /\ Save(Bound(book, "propose", "thread_ready"))
    /\ form' = [form EXCEPT !.intent = book.intent]
    /\ Start("propose", "propose") /\ redo' = call' /\ UNCHANGED <<typed, faults>>

SwitchToAdvisor ==
    /\ Resting /\ form.is = "proposal_pending" /\ book.role = "parent" /\ book.msg # 0
    /\ Save([book EXCEPT !.phase = "switching_to_advisor"])
    /\ form' = [form EXCEPT !.is = "switching_to_advisor"]
    /\ Start("switch", "revoke") /\ UNCHANGED <<redo, typed, faults>>

CanConfirm == form.is = "advisor_reviewing" /\ form.open /\ form.rev = 1
ConfirmCandidate ==
    /\ Resting /\ CanConfirm /\ book.role = "advisor" /\ book.cand # 0
    /\ Start("confirm", "check") /\ UNCHANGED <<book, form, redo, typed, faults>>

ContinueToPlanning ==
    /\ Resting /\ form.is = "replan_required" /\ form.fact # 0
    /\ form' = [form EXCEPT !.is = "handoff_validating"]
    /\ Start("handoff", "facts") /\ redo' = call' /\ UNCHANGED <<book, typed, faults>>

(* The button of the recovery notice.                                      *)
RetryBudget ==
    /\ Resting /\ form.is = "recoverable_error" /\ book.is # "advisor-family"
    /\ CASE redo.do = "handoff" -> call' = redo /\ form' = [form EXCEPT !.is = "handoff_validating"]
                                   /\ UNCHANGED book
         [] redo.do \in {"append", "propose", "confirm"} ->
              /\ Save(Bound(book, redo.at, IF redo.at = "propose" THEN "thread_ready"
                            ELSE IF redo.at = "append" THEN "message_submitting"
                            ELSE "confirmation_submitting"))
              /\ call' = redo /\ UNCHANGED form
         [] redo.do = "resend" -> call' = redo /\ UNCHANGED <<book, form>>
         [] OTHER -> Resume(book, FALSE) /\ UNCHANGED book
    /\ UNCHANGED <<redo, typed, faults>>

(* A reload keeps sessionStorage; only a collaboration envelope recovers.  *)
Reopen(b) ==
    /\ book' = b /\ form' = NewForm /\ redo' = NoCall
    /\ call' = IF b.is = "collaboration" THEN [NoCall EXCEPT !.do = "recover", !.at = "read"]
               ELSE NoCall

(* A command on its way when the page goes may be served later, or never.  *)
GivenUp == posts' = posts \/ (call.at \in Posts /\ CsrfFits /\ posts' = posts \cup {Post})

ReloadBudget ==
    /\ page = "collaboration" /\ book.is # "advisor-family"
    /\ Detour /\ Reopen(book) /\ GivenUp /\ UNCHANGED <<talk, jar, typed>>

-----------------------------------------------------------------------------
(*                     Faults, and what others do                          *)

LosePost ==
    /\ page = "collaboration" /\ call # NoCall /\ Detour /\ Broken
    /\ GivenUp /\ UNCHANGED <<talk, jar, typed>>

LosePostAnswer ==
    /\ page = "collaboration" /\ Detour /\ Broken
    /\ \/ call.at \in Posts /\ CsrfFits /\ Fresh(Post) /\ Serve(Post) /\ UNCHANGED jar
       \/ call.at = "revoke" /\ CsrfFits /\ jar' = [jar EXCEPT !.live = FALSE] /\ UNCHANGED talk
    /\ UNCHANGED <<posts, typed>>

GoneAfterSignOn ==
    /\ Awaits("mint") /\ jar = NoSession /\ call.boot /\ Detour
    /\ jar' = SignOn /\ Reopen([book EXCEPT !.fits = FALSE]) /\ UNCHANGED <<talk, posts, typed>>

ServePost ==
    /\ page = "collaboration"
    /\ \E q \in posts :
          /\ posts' = posts \ {q}
          /\ IF Fresh(q) THEN Serve(q) ELSE UNCHANGED talk
    /\ UNCHANGED <<jar, book, form, call, redo, typed, faults>>

(* The family in another tab, or another advisor.                          *)
OthersWrite ==
    /\ page = "collaboration" /\ Detour
    /\ \/ \E value \in Amounts : talk' = NewMessage(value, FALSE)
       \/ \E m \in Ids(talk.msgs) : CandidateOf(m) = {} /\ talk' = NewCandidate(m, talk.rev)
       \/ \E c \in Ids(talk.cands) :
             /\ StateOf(c) = "pending" /\ case.phase = "task_ready"
             /\ talk' \in {Confirmed(c), [talk EXCEPT !.cands[c].state = "rejected"]}
    /\ UNCHANGED <<posts, jar, book, form, call, redo, typed>>

(* Another advisor starts the task of the confirmed budget.                *)
OthersStart ==
    /\ page = "collaboration" /\ Detour /\ talk.fact # 0 /\ case.phase = "task_ready"
    /\ case' = NewTask
    /\ UNCHANGED pageVars /\ UNCHANGED <<jar, records, late, store, view, job, again, stream, asked>>

-----------------------------------------------------------------------------
BudgetStep ==
    \/ /\ \/ ReadConnected \/ ReadRecovered \/ ReadLedger \/ RevokeSession \/ BootstrapSession
          \/ MintSession \/ ReadSwitched \/ SendPost \/ AppendRead \/ ProposalRead
          \/ ConfirmChecked \/ ConfirmRead \/ ConfirmProved \/ HandoffRead \/ HandoffAuthority
       /\ UNCHANGED demoPageVars /\ UNCHANGED <<page, typed, faults>>
    \/ HandOver
BudgetClick ==
    /\ \/ ConnectParent \/ EndConflictingJourney \/ AppendBudget \/ ProposeBudget
       \/ SwitchToAdvisor \/ ConfirmCandidate \/ ContinueToPlanning \/ RetryBudget
    /\ UNCHANGED demoPageVars /\ UNCHANGED page
BudgetFault ==
    /\ \/ LosePost \/ LosePostAnswer \/ GoneAfterSignOn \/ ServePost \/ OthersWrite
    /\ UNCHANGED demoPageVars /\ UNCHANGED page

OnDemo(A) == page = "demo" /\ A /\ UNCHANGED page /\ UNCHANGED pageVars
Serving == (Progress \/ Settle) /\ UNCHANGED page /\ UNCHANGED pageVars
Reloading == OnDemo(Reload) \/ (ReloadBudget /\ UNCHANGED demoPageVars /\ UNCHANGED page)
Others == \/ Expire /\ UNCHANGED page /\ UNCHANGED pageVars
          \/ /\ Rival /\ UNCHANGED <<page, talk, posts, form, redo, typed>>
             /\ IF page = "demo" THEN UNCHANGED <<book, call>>
                ELSE book' = [book EXCEPT !.fits = FALSE] /\ call' = [call EXCEPT !.boot = FALSE]

TabNext ==
    \/ Serving \/ OnDemo(TabStep) \/ OnDemo(StreamStep) \/ OnDemo(Click)
    \/ OnDemo(LoseRequest) \/ OnDemo(LoseAnswer) \/ OnDemo(GoneAfterMint)
    \/ OnDemo(BreakStream) \/ OnDemo(Prepare) \/ OnDemo(ServeLate)
    \/ BudgetStep \/ BudgetClick \/ BudgetFault \/ Reloading \/ Others
    \/ (OthersStart /\ UNCHANGED page)

(* As for one page: what runs goes on, the person presses what is offered. *)
TabFairness ==
    /\ WF_allVars(Serving) /\ WF_allVars(OnDemo(TabStep) \/ BudgetStep)
    /\ WF_allVars(OnDemo(StreamStep)) /\ WF_allVars(OnDemo(Click) \/ BudgetClick)
    /\ SF_allVars(OnDemo(Reload /\ Stuck))
    /\ WF_allVars(Others /\ jar.rival /\ UNCHANGED faults)

TabSpec == BudgetInit /\ [][TabNext]_allVars /\ TabFairness

-----------------------------------------------------------------------------
(* What an advisor takes to planning is a budget the parent said: the tab   *)
(* submits a message no more often than the person does, however often it  *)
(* sends it (idempotency.ts, retryAction), and the confirmed candidate     *)
(* handed over is the one of that message and of the amount on the screen, *)
(* confirmed at the revision the next page continues from.                 *)
SaidOnce == Cardinality({m \in Ids(talk.msgs) : talk.msgs[m].own}) <= typed
HandsOverWhatWasSaid ==
    /\ talk.cands[book.cand].state = "confirmed"
    /\ talk.cands[book.cand].msg = book.msg
    /\ form.intent = talk.msgs[book.msg].value
    /\ form.rev = talk.cands[book.cand].rev + 1
BudgetAsSaid ==
    [][/\ HandOver => HandsOverWhatWasSaid
       /\ page' = "collaboration" => SaidOnce']_allVars

(* Where the page itself can never go on: the session was lost after a     *)
(* budget that is not the one old envelopes had, or after the confirmation; *)
(* or someone else wrote to the thread or decided.                         *)
Stranded ==
    \/ book.phase \in {"none", "bootstrapping_parent"} /\ Ambiguous(ParentBook)
    \/ talk.fact # 0 /\ book.phase \notin {"confirmation_submitting", "replan_required"}
Overtaken ==
    \/ \E m \in Ids(talk.msgs) : ~talk.msgs[m].own
    \/ \E c \in Ids(talk.cands) : talk.cands[c].state = "rejected"
    \/ talk.fact # 0 /\ ~\E k \in talk.keys : k.op = "verify" /\ k.id = talk.fact

(* Where only a person can help: several proposals to tell apart, an       *)
(* intake nothing is known of to be rejected, or a value that was rejected  *)
(* and is proposed again with the keys of the first time, for ever          *)
(* (revision.ts:94, use-connected-demo.ts:474).                             *)
Undecidable == Phase = "revision_fact_pending"
               /\ (OnlyPending = "none" \/ case.open["unfounded"] > 0)

(* From the first page to the plan: once the faults are over, repeated     *)
(* clicks and, where nothing can be pressed, a reload bring the tab to     *)
(* plan_ready, whatever was lost, reloaded, expired or taken by another    *)
(* tab on the way.  What is left to the person is left out, and so are the *)
(* dead ends above.                                                        *)
ReachesPlan ==
    <>[](\/ page = "demo" /\ (\/ Undecidable \/ Spent
                              \/ view.is = "show" /\ view.phase = "plan_ready")
         \/ page = "collaboration" /\ (Stranded \/ Overtaken))
=============================================================================
