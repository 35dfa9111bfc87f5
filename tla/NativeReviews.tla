----------------------------- MODULE NativeReviews -----------------------------
(***************************************************************************)
(* The native reviews of one Work: tickets for the active layers, sessions *)
(* of reviewers bound to them by the host's observation, their findings    *)
(* classified, patched and resolved, the loopback to implementation, and   *)
(* the hook's decision about a write of the product (SpecApproval holds    *)
(* what a human agreed to).                                                *)
(*                                                                         *)
(* A text is "clean" or has "findings"; of the flaws it is classified with *)
(* a conflict is one with the frozen intent.  There is one model of        *)
(* reviewers; the set of active layers does not change, the rendering of   *)
(* their instructions (rules) does.                                        *)
(***************************************************************************)
EXTENDS SpecApproval

VARIABLES
    reviews,    \* the Work's record: run of each layer, contract, loopback, tickets given out
    session     \* what the host observed of each reviewer

vars == <<product, consent, talk, limits, reviews, session>>

Active == 1..limits.layers
Dispatch == limits.build = "dispatch"
Inputs(rules) == [code |-> product.code, intent |-> product.intent, rules |-> rules]
Verdict == [text : limits.texts, found : SUBSET limits.flaws]

\* id is the ticket; on are the inputs it stands for, from those it was frozen with;
\* known are the sessions of before it, by the one it is bound to.
RunType == [id : Nat \ {0}, status : {"running", "classified", "passed"},
            on : [code : Nat, intent : Nat, rules : Nat], from : [code : Nat, intent : Nat, rules : Nat],
            known : SUBSET Reviewers, by : Reviewers \cup {Nothing}, text : Texts \cup {Nothing},
            found : SUBSET Flaws, kept : BOOLEAN]

\* ticket is 0 without one; out is the last message, message the artifact made of one,
\* stored the messages filed before, files what it was seen to write; said and born (the
\* tickets of before it) are what really happened.
SessionType == [ticket : Nat, alive : BOOLEAN, out : Texts \cup {Nothing}, message : Texts \cup {Nothing},
                recovered : Texts \cup {Nothing}, stored : SUBSET Texts, files : SUBSET Texts,
                said : SUBSET Texts, born : Nat]

ASSUME ReviewsAssumption == Nothing \notin RunType /\ Nothing \notin SessionType

TypeOK ==
    /\ ApprovalTypeOK
    /\ reviews.tickets \in 0..limits.tickets
    /\ reviews.loop \in {"none", "reimplementing", "reviewing"}
    /\ \A l \in Active : reviews.run[l] \in {Nothing} \cup RunType
    /\ \A s \in Reviewers : session[s] \in {Nothing} \cup SessionType

Init ==
    /\ ApprovalInit
    /\ reviews = [run |-> [l \in Active |-> Nothing], contract |-> Nothing, loop |-> "none", tickets |-> 0]
    /\ session = [s \in Reviewers |-> Nothing]

-----------------------------------------------------------------------------
(* What the records are worth now.                                         *)

\* A classified review keeps the code it was made on: patches follow it.
Same(run, inputs) ==
    \/ run.on = inputs
    \/ run.status = "classified" /\ run.on = [inputs EXCEPT !.code = run.on.code]

Loopback(run) == run.found \cap {"spec", "conflict"} # {}
Started(rs) == {l \in Active : rs.run[l] # Nothing}

\* review_integrity
Intact(rs) ==
    \A l \in Started(rs) :
        /\ rs.run[l].kept /\ Same(rs.run[l], Inputs(rs.contract))
        /\ rs.run[l].status # "running" => rs.run[l].by # Nothing

\* Mutant: a review that passed passes for whatever the inputs are now.
ReviewReadyOnce ==
    /\ consent.route # Nothing /\ Implemented
    /\ \A l \in Active : /\ reviews.run[l] # Nothing /\ reviews.run[l].status = "passed" /\ reviews.run[l].by # Nothing
                         /\ ~Loopback(reviews.run[l])

\* review_state
ReviewReady ==
    /\ consent.route # Nothing /\ Implemented /\ Intact(reviews)
    /\ \A l \in Active :
          /\ reviews.run[l] # Nothing /\ reviews.run[l].status = "passed" /\ reviews.run[l].by # Nothing
          /\ reviews.run[l].on = Inputs(reviews.contract) /\ ~Loopback(reviews.run[l])

\* dispatch_patch_state: the product waits until every layer is classified.
PatchReady ==
    Started(reviews) # {} =>
       /\ Intact(reviews)
       /\ \A l \in Active : /\ reviews.run[l] # Nothing /\ reviews.run[l].status # "running"
                            /\ ~Loopback(reviews.run[l])

-----------------------------------------------------------------------------
(* Tickets.                                                                *)

\* Something of the reviewer's was observed: to throw it away needs a reason.
Observed(run) ==
    run.by # Nothing /\ ~(session[run.by].files = {} /\ session[run.by].message = Nothing /\ session[run.by].out = Nothing)

Stale(rs) == \E l \in Started(rs) : ~Same(rs.run[l], Inputs(consent.route.rules))
Reused(rs, l, restart) ==
    ~restart /\ rs.run[l] # Nothing /\ ~Stale(rs) /\ Intact([rs EXCEPT !.contract = consent.route.rules])

Thrown(rs, l) ==
    /\ rs.run[l].on = Inputs(rs.contract) /\ Observed(rs.run[l])
    /\ \A k \in Started(rs) : ~Loopback(rs.run[k])

\* What stops a ticket whatever the mutants below leave out.
Refusal(rs, l, restart, reason) ==
    \/ rs.loop = "reimplementing" /\ ~(RouteReady /\ Implemented)
    \/ restart /\ ~reason /\ rs.run[l] # Nothing /\ Thrown(rs, l)
    \/ ~restart /\ rs.run[l] # Nothing /\ ~Reused(rs, l, restart)
    \/ ~restart /\ Stale(rs)
    \/ ~Reused(rs, l, restart) /\ (product.code = 0 \/ rs.tickets = limits.tickets)

NewRun(rs) ==
    [id |-> rs.tickets + 1, status |-> "running", on |-> Inputs(consent.route.rules), from |-> Inputs(consent.route.rules),
     known |-> {s \in Reviewers : session[s] # Nothing}, by |-> Nothing, text |-> Nothing, found |-> {},
     kept |-> TRUE]

\* A restart of a stale round puts all of it away.
Begun(rs, l, restart) ==
    LET stay == IF restart /\ Stale(rs) THEN [k \in Active |-> Nothing] ELSE rs.run
    IN [run |-> IF Reused(rs, l, restart) THEN stay ELSE [stay EXCEPT ![l] = NewRun(rs)],
        contract |-> consent.route.rules,
        loop |-> IF rs.loop = "reimplementing" THEN "reviewing" ELSE rs.loop,
        tickets |-> IF Reused(rs, l, restart) THEN rs.tickets ELSE rs.tickets + 1]

\* Mutant: the conflicts of the round that is put away are not looked at.
BeginForgetting(rs, l, restart, reason) ==
    IF rs = Nothing THEN Nothing ELSE IF Refusal(rs, l, restart, reason) THEN Nothing ELSE Begun(rs, l, restart)

\* begin_review: the record with a ticket for the layer, Nothing when refused.  A
\* restart alone does not take back a conflict with the intent as it is.
Begin(rs, l, restart, reason) ==
    IF rs = Nothing THEN Nothing
    ELSE IF \/ Refusal(rs, l, restart, reason)
            \/ restart /\ \E k \in Started(rs) : "conflict" \in rs.run[k].found /\ rs.run[k].on.intent = product.intent
         THEN Nothing
    ELSE Begun(rs, l, restart)

\* The intents a record holds a conflict with.
Holding(rs) == {rs.run[l].on.intent : l \in {k \in Started(rs) : "conflict" \in rs.run[k].found}}

\* The new record is saved.  "retired" is history: the conflicts whose record was
\* put away while the intent was another, which is all the code asks for.
Becomes(rs) ==
    /\ rs # Nothing /\ rs # reviews /\ reviews' = rs
    /\ talk' = [talk EXCEPT !.retired = @ \cup (Holding(reviews) \ (Holding(rs) \cup {product.intent}))]
    /\ UNCHANGED <<product, consent, limits, session>>

\* cao sdd review begin
BeginLayer(l, restart, reason) ==
    /\ consent.route # Nothing
    /\ Becomes(Begin(reviews, l, restart, reason))

\* cao sdd review prepare: all layers or none; a round that is satisfied stays.
Prepare(restart, reason) ==
    LET round[l \in 0..limits.layers] == IF l = 0 THEN reviews ELSE Begin(round[l - 1], l, restart, reason)
    IN /\ consent.route # Nothing /\ ~(ReviewReady /\ ~restart)
       /\ Becomes(round[limits.layers])

-----------------------------------------------------------------------------
(* Reviewers.                                                              *)

TicketsOf(rs, s) == {l \in Started(rs) : rs.run[l].by = s}

\* Mutant: a session of before the ticket may take it.
BindableAnyone(ss, s, l) ==
    LET run == reviews.run[l]
    IN /\ run # Nothing /\ run.status = "running" /\ run.by = Nothing /\ run.on = Inputs(reviews.contract)
       /\ ss.alive /\ ss.ticket \in {0, run.id}

\* attach_reviewer
Bindable(ss, s, l) ==
    LET run == reviews.run[l]
    IN /\ run # Nothing /\ run.status = "running" /\ run.by = Nothing /\ run.on = Inputs(reviews.contract)
       /\ ss.alive /\ ss.ticket = run.id /\ s \notin run.known

\* auto_bind, when the host has reported what it observed of the child.
AutoBound(ss, s, observed) ==
    [reviews EXCEPT !.run = [l \in Active |-> IF observed /\ Bindable(ss, s, l) THEN [@[l] EXCEPT !.by = s] ELSE @[l]]]

\* A session is registered, or comes again with a prompt; l is the layer whose
\* marker the prompt holds, or 0.  A ticket is given once.
Starts(s, l, observed) ==
    LET old == IF session[s] # Nothing THEN session[s]
               ELSE [ticket |-> 0, alive |-> TRUE, out |-> Nothing, message |-> Nothing, recovered |-> Nothing,
                     stored |-> {}, files |-> {}, said |-> {}, born |-> reviews.tickets]
        new == [old EXCEPT !.alive = TRUE,
                           !.ticket = IF @ = 0 /\ l \in Started(reviews) /\ s \notin reviews.run[l].known
                                      THEN reviews.run[l].id ELSE @]
    IN /\ s \in limits.reviewers /\ (~observed => "unobserved" \in limits.may)
       /\ session' = [session EXCEPT ![s] = new]
       /\ reviews' = AutoBound(new, s, observed)
       /\ UNCHANGED <<product, consent, talk, limits>>

\* cao sdd review attach, of the reviewer or for it.
Attach(s, l) ==
    /\ "attach" \in limits.may /\ session[s] # Nothing /\ Bindable(session[s], s, l)
    /\ reviews' = [reviews EXCEPT !.run[l].by = s]
    /\ UNCHANGED <<product, consent, talk, limits, session>>

\* The session's message: its digest is kept, and the first time the ticket's
\* owner sends it, the artifact.
Message(rs, ss, s, text) ==
    IF ss.ticket = 0 THEN [ss EXCEPT !.said = @ \cup {text}]
    ELSE IF TicketsOf(rs, s) # {} /\ text \notin ss.stored
    THEN [ss EXCEPT !.said = @ \cup {text}, !.out = text, !.message = text, !.stored = @ \cup {text}]
    ELSE [ss EXCEPT !.said = @ \cup {text}, !.out = text]

\* turn_end, stop, subagent_stop
Reports(s, text, observed, ends) ==
    /\ session[s] # Nothing /\ session[s].alive /\ text \in limits.texts
    /\ (ends => "end" \in limits.may) /\ (~observed => "unobserved" \in limits.may)
    /\ LET rs == AutoBound(session[s], s, observed)
       IN /\ reviews' = rs
          /\ session' = [session EXCEPT ![s] = [Message(rs, session[s], s, text) EXCEPT !.alive = ~ends]]
    /\ UNCHANGED <<product, consent, talk, limits>>

\* collect_written_artifact
Delivers(s, text) ==
    /\ "deliver" \in limits.may /\ session[s] # Nothing /\ session[s].alive /\ text \in limits.texts /\ TicketsOf(reviews, s) # {}
    /\ session' = [session EXCEPT ![s].files = @ \cup {text}, ![s].said = @ \cup {text}]
    /\ UNCHANGED <<product, consent, talk, limits, reviews>>

\* cao sdd review recover, and resume: the message that was observed, found again.
Recover(l) ==
    /\ "recover" \in limits.may /\ reviews.run[l] # Nothing /\ reviews.run[l].by # Nothing
    /\ LET s == reviews.run[l].by
       IN /\ session[s].out # Nothing /\ session[s].recovered \in {Nothing, session[s].out}
          /\ session' = [session EXCEPT ![s].message = session[s].out, ![s].recovered = session[s].out]
    /\ UNCHANGED <<product, consent, talk, limits, reviews>>

-----------------------------------------------------------------------------
(* Findings.                                                               *)

\* Mutant: any text is taken for the reviewer's.
SourcesAny(s) == Texts

\* validate_source: the collected bytes, or without any the last message.
Sources(s) ==
    LET collected == session[s].files \cup ({session[s].message} \ {Nothing})
    IN IF collected # {} THEN collected ELSE {session[s].out} \ {Nothing}

\* require_collected
Collected ==
    \A l \in Started(reviews) : reviews.run[l].status = "running" =>
        reviews.run[l].by # Nothing /\ session[reviews.run[l].by].out # Nothing

Judges(l, v) ==
    /\ reviews.run[l].status = "running" /\ reviews.run[l].by # Nothing
    /\ v.text \in Sources(reviews.run[l].by)
    /\ v.text = "clean" => v.found \subseteq {"conflict"}
    /\ ~Dispatch => "spec" \notin v.found

\* classify, and classify-batch: verdicts of one layer or of all.  Nothing is
\* patched between the first ticket and the last verdict.
Classify(verdicts) ==
    /\ Collected /\ Intact(reviews)
    /\ \A l \in Active : reviews.run[l] # Nothing /\ reviews.run[l].on = Inputs(reviews.contract)
    /\ \A l \in DOMAIN verdicts : Judges(l, verdicts[l])
    /\ reviews' = [reviews EXCEPT !.run = [l \in Active |->
          IF l \notin DOMAIN verdicts THEN @[l]
          ELSE [@[l] EXCEPT !.status = "classified", !.text = verdicts[l].text, !.found = verdicts[l].found]]]
    /\ talk' = IF \E l \in DOMAIN verdicts : "conflict" \in verdicts[l].found
               THEN [talk EXCEPT !.conflicts = @ \cup {product.intent}, !.retired = @ \ {product.intent}] ELSE talk
    /\ UNCHANGED <<product, consent, limits, session>>

\* Mutant: a finding counts as patched without a change of the product.
PatchedUnchanged(run, found) == TRUE

\* review_resolution: each finding to patch names a change since the review.
Patched(run, found) == "patch" \in found => product.code # run.from.code

Passes(l, text, found) ==
    /\ reviews' = [reviews EXCEPT !.run[l] = [@ EXCEPT !.status = "passed", !.on = Inputs(reviews.contract),
                                                      !.text = text, !.found = found]]
    /\ UNCHANGED <<product, consent, talk, limits, session>>

\* resolve_review
Resolve(l) ==
    /\ Dispatch /\ PatchReady
    /\ reviews.run[l] # Nothing /\ reviews.run[l].status = "classified"
    /\ Patched(reviews.run[l], reviews.run[l].found)
    /\ Passes(l, reviews.run[l].text, reviews.run[l].found)

\* submit_review, of a oneshot build: with or without a classification before it.
Submit(l, found) ==
    /\ ~Dispatch /\ Collected /\ Intact(reviews)
    /\ \A k \in Active : reviews.run[k] # Nothing /\ ~Loopback(reviews.run[k])
    /\ reviews.run[l].status # "passed" /\ reviews.run[l].by # Nothing
    /\ "findings" \in Sources(reviews.run[l].by)
    /\ reviews.run[l].status = "classified" =>
          /\ \A k \in Active : reviews.run[k].status # "running"
          /\ reviews.run[l].text = "findings" /\ reviews.run[l].found = found
    /\ Patched(reviews.run[l], found)
    /\ Passes(l, "findings", found)

\* Mutant: the approval outlives a conflict with the intent.
LoopBackApproved ==
    /\ reviews.loop # "reimplementing" /\ Intact(reviews) /\ consent.route # Nothing
    /\ \A l \in Active : reviews.run[l] # Nothing /\ reviews.run[l].status = "classified"
    /\ \E l \in Active : Loopback(reviews.run[l])
    /\ reviews' = [reviews EXCEPT !.run = [l \in Active |-> Nothing], !.contract = Nothing, !.loop = "reimplementing"]
    /\ consent' = [consent EXCEPT !.built = Nothing, !.prepared = Nothing]
    /\ talk' = IF \E l \in Active : "conflict" \in reviews.run[l].found THEN [talk EXCEPT !.agreed = Nothing] ELSE talk
    /\ UNCHANGED <<product, limits, session>>

\* native_loopback: the round is put away; a conflict takes the approval with it.
LoopBack ==
    LET conflict == \E l \in Active : "conflict" \in reviews.run[l].found
    IN /\ reviews.loop # "reimplementing" /\ Intact(reviews) /\ consent.route # Nothing
       /\ \A l \in Active : reviews.run[l] # Nothing /\ reviews.run[l].status = "classified"
       /\ \E l \in Active : Loopback(reviews.run[l])
       /\ reviews' = [reviews EXCEPT !.run = [l \in Active |-> Nothing], !.contract = Nothing, !.loop = "reimplementing"]
       /\ consent' = [consent EXCEPT !.built = Nothing, !.prepared = Nothing, !.approval = IF conflict THEN Nothing ELSE @]
       /\ talk' = IF conflict THEN [talk EXCEPT !.agreed = Nothing] ELSE talk
       /\ UNCHANGED <<product, limits, session>>

-----------------------------------------------------------------------------
(* The product.                                                            *)

HookOpen == consent.route # Nothing /\ RouteReady /\ PolicyAccepted /\ (Implemented \/ Prepared)

\* host_event pre_tool of a write, and the write: the implementation counts as
\* begun even when the reviews then refuse it.
WriteProduct(code) ==
    /\ HookOpen
    /\ consent' = IF Implemented THEN consent ELSE [consent EXCEPT !.built = consent.route.id]
    /\ product' = IF PatchReady THEN [product EXCEPT !.code = code] ELSE product
    /\ UNCHANGED <<talk, limits, reviews, session>>

\* rollback_write: the recorded files may go back before anything else is agreed.
RollBack ==
    /\ reviews.loop = "reimplementing"
    /\ product' = [product EXCEPT !.code = 0]
    /\ UNCHANGED <<consent, talk, limits, reviews, session>>

\* An editor the host knows nothing of.
EditCode(code) ==
    /\ "edit" \in limits.may
    /\ product' = [product EXCEPT !.code = code]
    /\ UNCHANGED <<consent, talk, limits, reviews, session>>

\* A file of the run's evidence or input package is changed, or put back.
Damage(l) ==
    /\ "damage" \in limits.may /\ reviews.run[l] # Nothing
    /\ reviews' = [reviews EXCEPT !.run[l].kept = ~@]
    /\ UNCHANGED <<product, consent, talk, limits, session>>

Next ==
    \/ ApprovalStep /\ UNCHANGED <<reviews, session>>
    \/ \E l \in Active, restart, reason \in BOOLEAN : BeginLayer(l, restart, reason)
    \/ \E restart, reason \in BOOLEAN : Prepare(restart, reason)
    \/ \E s \in Reviewers, l \in 0..limits.layers, observed \in BOOLEAN : Starts(s, l, observed)
    \/ \E s \in Reviewers, l \in Active : Attach(s, l)
    \/ \E s \in Reviewers, text \in Texts, observed, ends \in BOOLEAN : Reports(s, text, observed, ends)
    \/ \E s \in Reviewers, text \in Texts : Delivers(s, text)
    \/ \E l \in Active : Recover(l)
    \/ \E l \in Active, v \in Verdict : Classify([k \in {l} |-> v])
    \/ \E verdicts \in [Active -> Verdict] : Classify(verdicts)
    \/ \E l \in Active : Resolve(l)
    \/ \E l \in Active, found \in SUBSET (limits.flaws \cap {"patch"}) : Submit(l, found)
    \/ LoopBack
    \/ \E code \in 0..limits.codes : WriteProduct(code)
    \/ RollBack
    \/ \E code \in 0..limits.codes : EditCode(code)
    \/ \E l \in Active : Damage(l)

Spec == Init /\ [][Next]_vars

-----------------------------------------------------------------------------
(* Properties.                                                             *)

\* A reply decides one record at most; the answer to a question decides only
\* what the question was about, and only the request that was open when it was
\* asked; and what is decided is the route, the intent or the policy as it is.
RepliesApproveWhatWasAsked ==
    [][ /\ ~(SpecDecided /\ BaselineDecided)
        /\ SpecDecided => consent.approval.about = Now
        /\ BaselineDecided => consent.baseline.about = product.policy
        /\ \A c \in Questions : talk'.call[c] # talk.call[c] /\ talk'.call[c].state = "answered" =>
              /\ SpecDecided => talk.call[c].topic = "spec" /\ consent.approval.id \in talk.call[c].under
              /\ BaselineDecided => talk.call[c].topic = "baseline" /\ consent.baseline.id \in talk.call[c].under ]_vars

\* Whenever the hook would let the product of a dispatch build be written, a human
\* agreed to go on with this very route and intent, and to this policy.
WrittenUnderConsent == Dispatch /\ RouteReady /\ PolicyAccepted => talk.agreed = Now /\ product.policy \in talk.vetted

\* A conflict with the frozen intent that a reviewer's findings were classified
\* with stands, whatever is edited, restarted, rerendered or looped back, until a
\* human decides again.  One exception: a restart while the intent is another puts
\* the record of the conflict away, and it does not come back with the intent.
ConflictStands == Dispatch /\ ReviewReady => product.intent \notin talk.conflicts \ talk.retired

\* Nothing stands in for a human: neither for the consent to write, nor for the end of
\* a conflict.
HumanDecides == WrittenUnderConsent /\ ConflictStands

\* Reviews that are ready were made by as many sessions, each begun after its
\* ticket, of the code or of patches since, with findings its session really gave.
ReviewsSound ==
    /\ TypeOK
    /\ ReviewReady =>
          /\ \A l \in Active : LET run == reviews.run[l] IN
                /\ session[run.by].born >= run.id /\ run.text \in session[run.by].said
                /\ run.on = Inputs(run.on.rules) /\ ("patch" \in run.found => product.code # run.from.code)
          /\ \A k, l \in Active : reviews.run[k].by = reviews.run[l].by => k = l

=============================================================================
