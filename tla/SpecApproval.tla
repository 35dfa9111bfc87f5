----------------------------- MODULE SpecApproval -----------------------------
(***************************************************************************)
(* What a human agrees to before a Work's product may be written: the      *)
(* native route and the intent of its SPEC, and the verification baseline. *)
(* A request is shown in sessions of the coordinator; a reply is a prompt  *)
(* in such a session, or the answer to a question that was bound to the    *)
(* request when it was asked.                                              *)
(*                                                                         *)
(* One active Work of the bmad provider; its requirement does not change   *)
(* (WorkSwitch amends requirements).  NativeReviews holds the reviews and  *)
(* the write itself.                                                       *)
(***************************************************************************)
EXTENDS Naturals, FiniteSets, TLC

CONSTANTS
    Primary,        \* sessions of the coordinator, where the human replies
    Questions,      \* calls of ask_user_question
    Reviewers,      \* sessions that review
    Nothing,
    Limits          \* bounds: what a behaviour may use up, see limits

Words == {"plain", "go", "stop", "resume", "baseline"}
Texts == {"clean", "findings"}
Flaws == {"patch", "spec", "conflict"}
Happenings == {"close", "read", "edit", "unobserved", "attach", "deliver", "recover", "end", "damage"}

\* A route declared, and a request shown to the human, about what it asks agreement to.
Routes == [id : Nat \ {0}, intent : Nat, rules : Nat]
Requests(abouts) == [id : Nat \ {0}, status : {"pending", "approved"}, stop : BOOLEAN, about : abouts,
                     seen : SUBSET Primary, asked : SUBSET [call : Questions, id : Nat \ {0}]]
Intents == [route : Nat, intent : Nat]

ASSUME ApprovalAssumption ==
    /\ Nothing \notin Primary \cup Questions \cup Reviewers \cup Texts
    /\ Nothing \notin Routes /\ Nothing \notin Requests(Intents) /\ Nothing \notin Requests(Nat)
    /\ Limits \subseteq [build : {"dispatch", "oneshot"}, open : SUBSET Primary, questions : SUBSET Questions,
                         reviewers : SUBSET Reviewers, words : SUBSET Words, texts : SUBSET Texts, intents : Nat,
                         codes : Nat, policies : Nat, rules : Nat, routes : Nat, requests : Nat, layers : Nat \ {0},
                         tickets : Nat, flaws : SUBSET Flaws, may : SUBSET Happenings]

VARIABLES
    product,    \* what is on disk: code, the SPEC's frozen intent, the verification policy
    consent,    \* the Work's record of it: route, requests, anchor, implementation
    talk,       \* what the human and the host know, and what was really agreed to
    limits      \* the bounds of this behaviour: its build route, sessions, questions, words
                \* and outputs; contents of intent, code, policy and rules; routes, requests,
                \* active layers, tickets and flaws; and which Happenings there may be

approvalVars == <<product, consent, talk, limits>>

ApprovalTypeOK ==
    /\ limits \in Limits
    /\ product \in [code : 0..limits.codes, intent : 0..limits.intents, policy : 0..limits.policies]
    /\ consent.route \in {Nothing} \cup [id : 1..limits.routes, intent : Nat, rules : 0..limits.rules]
    /\ consent.anchor \in 0..limits.policies
    /\ {consent.prepared, consent.built} \subseteq {Nothing} \cup (1..limits.routes)
    /\ \A r \in {consent.approval, consent.baseline} \ {Nothing} :
          /\ r.id \in 1..consent.requests /\ r.seen \subseteq Primary
          /\ \A a \in r.asked : a.call \in Questions /\ a.id \in 1..consent.requests
    /\ talk.open \subseteq Primary

ApprovalInit ==
    /\ limits \in Limits
    /\ product = [code |-> 0, intent |-> 0, policy |-> 0]
    /\ consent = [route |-> Nothing, routes |-> 0, approval |-> Nothing, baseline |-> Nothing, requests |-> 0,
                  anchor |-> 0, prepared |-> Nothing, built |-> Nothing]
    /\ talk = [open |-> {}, agreed |-> Nothing, vetted |-> {0}, conflicts |-> {}, retired |-> {},
                call |-> [c \in Questions |-> [state |-> "new", by |-> Nothing, topic |-> "", under |-> {}]]]

-----------------------------------------------------------------------------
(* The route and what stands in the way of its implementation.             *)

Now == [route |-> consent.route.id, intent |-> product.intent]
RouteCurrent == consent.route # Nothing /\ consent.route.intent = product.intent
Granted == consent.approval # Nothing /\ consent.approval.status = "approved" /\ consent.approval.about = Now
Paused == Granted /\ consent.approval.stop

\* route_state: only the dispatch build asks the human.
RouteReady == RouteCurrent /\ (limits.build = "dispatch" => Granted /\ ~Paused)

\* implementation_state, and what a write in progress may still make of it.
Implemented == limits.build = "dispatch" => consent.built = consent.route.id
Prepared == consent.prepared = consent.route.id
PolicyAccepted == consent.anchor = product.policy

Pending(r) == r # Nothing /\ r.status = "pending"
Awaits(r) == r # Nothing /\ (r.status = "pending" \/ r.stop)

Requested(about) == [id |-> consent.requests + 1, status |-> "pending", stop |-> FALSE, about |-> about,
                     seen |-> talk.open, asked |-> {}]

\* cmd_sdd_route propose: another declaration for the intent as it is.
ProposeRoute(rules) ==
    /\ consent.routes < limits.routes
    /\ consent' = [consent EXCEPT !.routes = @ + 1, !.approval = Nothing,
                                  !.route = [id |-> consent.routes + 1, intent |-> product.intent, rules |-> rules]]
    /\ UNCHANGED <<product, talk, limits>>

\* cmd_sdd_approval request: a request that still stands is not repeated.
Request ==
    /\ RouteCurrent /\ consent.requests < limits.requests
    /\ ~(consent.approval # Nothing /\ consent.approval.about = Now)
    /\ consent' = [consent EXCEPT !.approval = Requested(Now), !.requests = @ + 1]
    /\ UNCHANGED <<product, talk, limits>>

\* ensure_verification_review: a request for the policy as it is.
Ensured(policy) ==
    IF consent.baseline # Nothing /\ consent.baseline.about = policy THEN consent
    ELSE [consent EXCEPT !.baseline = Requested(policy), !.requests = @ + 1]

\* verification configure: what is not the accepted standard has to be reviewed.
Configure(policy) ==
    /\ policy # product.policy /\ consent.requests < limits.requests
    /\ product' = [product EXCEPT !.policy = policy]
    /\ consent' = IF consent.anchor = policy THEN consent ELSE Ensured(policy)
    /\ UNCHANGED <<talk, limits>>

\* reopen --reanchor: refused unless this very policy was approved, and then
\* the request it needs is there.
Reanchor ==
    /\ ~PolicyAccepted /\ consent.requests < limits.requests
    /\ consent' = IF Ensured(product.policy).baseline.status = "approved"
                  THEN [consent EXCEPT !.anchor = product.policy] ELSE Ensured(product.policy)
    /\ UNCHANGED <<product, talk, limits>>

-----------------------------------------------------------------------------
(* Replies.                                                                *)

\* expose_approval_context: what waits for a word is shown in the session.
ShownIn(s, r) == IF Awaits(r) THEN [r EXCEPT !.seen = @ \cup {s}] ELSE r
Exposed(st, s) == [st EXCEPT !.approval = ShownIn(s, @), !.baseline = ShownIn(s, @)]

\* Mutant: any answer counts in a session that has seen the request.
HeardAnyCall(r, s, c) == s \in r.seen

\* request_context_matches: c is the call that is answered, or Nothing for a prompt.
Heard(r, s, c) == s \in r.seen /\ (c # Nothing => [call |-> c, id |-> r.id] \in r.asked)

\* Mutant: an unqualified approval is taken for the baseline although a SPEC waits for one.
BaselineWordsAlways(st) == {"baseline", "plain"}

\* An unqualified approval is safe only when no SPEC request competes for it.
BaselineWords(st) == IF Pending(st.approval) THEN {"baseline"} ELSE {"baseline", "plain"}
SpecWords(st, c) ==
    IF st.approval.status = "approved" THEN (IF st.approval.stop THEN {"resume", "go"} ELSE {})
    ELSE {"go", "stop"} \cup (IF c = Nothing /\ Pending(st.baseline) THEN {} ELSE {"plain"})

\* approve_baseline_response
WithBaseline(st, s, c, word) ==
    IF Pending(st.baseline) /\ st.baseline.about = product.policy /\ Heard(st.baseline, s, c) /\ word \in BaselineWords(st)
    THEN [st EXCEPT !.baseline.status = "approved"] ELSE st

\* approve_observed_response
WithSpec(st, s, c, word) ==
    IF st.approval # Nothing /\ Heard(st.approval, s, c) /\ word \in SpecWords(st, c) /\ st.approval.about = Now
    THEN [st EXCEPT !.approval.status = "approved", !.approval.stop = (word = "stop")] ELSE st

Replied(s, c, word) == WithSpec(WithBaseline(consent, s, c, word), s, c, word)

Decides(old, new) ==
    /\ old # Nothing /\ new # Nothing
    /\ new.id = old.id /\ ~(new.status = old.status /\ new.stop = old.stop)
SpecDecided == Decides(consent.approval, consent'.approval)
BaselineDecided == Decides(consent.baseline, consent'.baseline)

\* What the reply really said, kept beside the record.
Remembers(call) ==
    talk' = [talk EXCEPT !.call = call,
                         !.agreed = IF ~SpecDecided THEN @ ELSE IF consent'.approval.stop THEN Nothing ELSE Now,
                         !.conflicts = IF SpecDecided THEN {} ELSE @,
                         !.retired = IF SpecDecided THEN {} ELSE @,
                         !.vetted = IF BaselineDecided THEN @ \cup {product.policy} ELSE @]

Opens(s) ==
    /\ s \in limits.open \ talk.open
    /\ talk' = [talk EXCEPT !.open = @ \cup {s}]
    /\ consent' = Exposed(consent, s)
    /\ UNCHANGED <<product, limits>>

Closes(s) ==
    /\ "close" \in limits.may /\ s \in talk.open
    /\ talk' = [talk EXCEPT !.open = @ \ {s}]
    /\ UNCHANGED <<product, consent, limits>>

\* host_event prompt_submit: the reply first, then what waits is shown.
Says(s, word) ==
    /\ s \in talk.open /\ word \in limits.words
    /\ consent' = Exposed(Replied(s, Nothing, word), s)
    /\ Remembers(talk.call)
    /\ UNCHANGED <<product, limits>>

\* bind_approval_question: the call is bound to the request it is about.
BoundTo(r, s, c) ==
    IF Awaits(r) /\ s \in r.seen THEN [r EXCEPT !.asked = @ \cup {[call |-> c, id |-> r.id]}] ELSE r

\* host_event pre_tool of ask_user_question.  "under" is what was open then.
Asks(s, c, topic) ==
    /\ s \in talk.open /\ c \in limits.questions /\ talk.call[c].state = "new"
    /\ consent' = IF topic = "baseline" THEN [consent EXCEPT !.baseline = BoundTo(@, s, c)]
                  ELSE [consent EXCEPT !.approval = BoundTo(@, s, c)]
    /\ talk' = [talk EXCEPT !.call[c] = [state |-> "asked", by |-> s, topic |-> topic,
                                         under |-> {r.id : r \in {consent.approval, consent.baseline} \ {Nothing}}]]
    /\ UNCHANGED <<product, limits>>

\* host_event post_tool of it.
Answers(c, word) ==
    /\ talk.call[c].state = "asked" /\ talk.call[c].by \in talk.open /\ word \in limits.words
    /\ consent' = Replied(talk.call[c].by, c, word)
    /\ Remembers([talk.call EXCEPT ![c].state = "answered"])
    /\ UNCHANGED <<product, limits>>

\* observe_implementation_read: the native implementation step was read in full.
ReadStep ==
    /\ "read" \in limits.may /\ limits.build = "dispatch" /\ consent.route # Nothing
    /\ consent' = [consent EXCEPT !.prepared = consent.route.id]
    /\ UNCHANGED <<product, talk, limits>>

EditIntent(intent) ==
    /\ intent # product.intent
    /\ product' = [product EXCEPT !.intent = intent]
    /\ UNCHANGED <<consent, talk, limits>>

ApprovalStep ==
    \/ \E rules \in 0..limits.rules : ProposeRoute(rules)
    \/ Request
    \/ \E policy \in 0..limits.policies : Configure(policy)
    \/ Reanchor
    \/ \E s \in Primary : Opens(s)
    \/ \E s \in Primary : Closes(s)
    \/ \E s \in Primary, word \in Words : Says(s, word)
    \/ \E s \in Primary, c \in Questions, topic \in {"spec", "baseline"} : Asks(s, c, topic)
    \/ \E c \in Questions, word \in Words : Answers(c, word)
    \/ ReadStep
    \/ \E intent \in 0..limits.intents : EditIntent(intent)

=============================================================================
