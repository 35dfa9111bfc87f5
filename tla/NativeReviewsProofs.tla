-------------------------- MODULE NativeReviewsProofs --------------------------
(***************************************************************************)
(* Proofs about what a human agrees to and about the reviews, for any      *)
(* sessions, questions, reviewers, layers, tickets and bounds: whoever     *)
(* replies where, whatever is asked, edited, restarted, looped back or     *)
(* damaged, nothing is written without consent and no conflict with the    *)
(* intent is forgotten.                                                    *)
(*                                                                         *)
(* A conflict has a witness at every moment (Contested): the run that was  *)
(* classified with it, or a loopback that took the approval. Begin refuses *)
(* a restart that would lose the run, and a round after the loopback needs *)
(* a new decision.                                                         *)
(***************************************************************************)
EXTENDS NativeReviews, WellFoundedInduction, TLAPS

-----------------------------------------------------------------------------
(* The inductive invariant.                                                *)

(* What is on disk, within the bounds.                                     *)
ProductOK(p, lim) ==
    lim \in Limits /\ p \in [code : 0..lim.codes, intent : 0..lim.intents, policy : 0..lim.policies]

(* A request shown to the human, one of n so far, and bound only to calls  *)
(* about requests that were made.                                          *)
RequestOK(r, n, abouts) ==
    r # Nothing =>
        r \in Requests(abouts) /\ r.id \in 1..n /\ \A a \in r.asked : a.id \in 1..n

(* The Work's record of what was agreed to: its shape, and its counters    *)
(* within the bounds.                                                      *)
ConsentOK(c, lim) ==
    /\ DOMAIN c = {"route", "routes", "approval", "baseline", "requests", "anchor", "prepared", "built"}
    /\ c.routes \in 0..lim.routes /\ c.requests \in 0..lim.requests /\ c.anchor \in 0..lim.policies
    /\ c.route # Nothing => c.route \in Routes /\ c.route.id \in 1..lim.routes /\ c.route.rules \in 0..lim.rules
    /\ c.prepared \in {Nothing} \cup (1..lim.routes) /\ c.built \in {Nothing} \cup (1..lim.routes)
    /\ RequestOK(c.approval, c.requests, Intents) /\ RequestOK(c.baseline, c.requests, Nat)

(* What the host knows of the sessions and the questions: its shape.       *)
TalkOK(t) ==
    /\ DOMAIN t = {"open", "agreed", "vetted", "conflicts", "retired", "call"}
    /\ t.open \subseteq Primary
    /\ t.call \in [Questions -> [state : {"new", "asked", "answered"}, by : Primary \cup {Nothing},
                                 topic : {"", "spec", "baseline"}, under : SUBSET Nat]]

(* The approval, the anchor and the approved baseline are what a human     *)
(* really agreed to.                                                       *)
AgreedOK(t, c) ==
    /\ c.approval # Nothing /\ c.approval.status = "approved" /\ ~c.approval.stop => t.agreed = c.approval.about
    /\ c.anchor \in t.vetted
    /\ c.baseline # Nothing /\ c.baseline.status = "approved" => c.baseline.about \in t.vetted

(* A call bound to the request was asked, about the request's topic, while *)
(* that request was open.                                                  *)
AskedOK(r, call, topic) ==
    r # Nothing =>
        \A a \in r.asked : call[a.call].state # "new" /\ call[a.call].topic = topic /\ a.id \in call[a.call].under

(* A run: what it is bound to holds its ticket and is younger than it, its *)
(* text was really said, and a patch it passed with changed the code.      *)
RunOK(r, ses) ==
    /\ r.status = "running" => r.found = {}
    /\ r.by # Nothing => ses[r.by] # Nothing /\ ses[r.by].ticket = r.id /\ r.by \notin r.known
    /\ \A s \in Reviewers : ses[s] # Nothing /\ s \notin r.known => ses[s].born >= r.id
    /\ r.status # "running" => r.by # Nothing /\ r.text \in ses[r.by].said
    /\ r.status = "passed" /\ "patch" \in r.found => r.on.code # r.from.code

(* A round of reviews: one run for each active layer at most, no two of    *)
(* one ticket, none without a contract or while the product is being       *)
(* reimplemented.                                                          *)
RoundOK(rs, ses, lim) ==
    /\ DOMAIN rs = {"run", "contract", "loop", "tickets"}
    /\ rs.tickets \in 0..lim.tickets /\ rs.loop \in {"none", "reimplementing", "reviewing"}
    /\ rs.contract \in {Nothing} \cup (0..lim.rules)
    /\ DOMAIN rs.run = 1..lim.layers /\ rs.run = [l \in 1..lim.layers |-> rs.run[l]]
    /\ \A l \in 1..lim.layers : rs.run[l] # Nothing =>
          /\ rs.run[l] \in RunType /\ RunOK(rs.run[l], ses) /\ rs.run[l].id <= rs.tickets
          /\ rs.contract \in 0..lim.rules /\ rs.loop # "reimplementing"
    /\ \A k, l \in 1..lim.layers : rs.run[k] # Nothing /\ rs.run[l] # Nothing /\ rs.run[k].id = rs.run[l].id => k = l

(* What the host holds of a reviewer was really said by it.                *)
SessionOK(ss) ==
    /\ ss \in SessionType /\ ss.files \subseteq ss.said
    /\ ss.out # Nothing => ss.out \in ss.said
    /\ ss.message # Nothing => ss.message \in ss.said

(* Every reviewer's session is such.                                       *)
SessionsOK(ses) ==
    DOMAIN ses = Reviewers /\ ses = [s \in Reviewers |-> ses[s]] /\ \A s \in Reviewers : ses[s] # Nothing => SessionOK(ses[s])

(* The intent i is in conflict: a run says so, or the round that said so   *)
(* was looped back and nobody has decided since.                           *)
Contested(rs, c, lim, i) ==
    \/ \E l \in 1..lim.layers : rs.run[l] # Nothing /\ "conflict" \in rs.run[l].found /\ rs.run[l].on.intent = i
    \/ rs.loop = "reimplementing" /\ (c.approval # Nothing => c.approval.status = "pending")

(* Of a dispatch build, every conflict a reviewer's findings were          *)
(* classified with is still on record.                                     *)
ConflictOK(rs, t, c, lim) == lim.build = "dispatch" => \A i \in t.conflicts \ t.retired : Contested(rs, c, lim, i)

(* The inductive invariant: the consent is the human's, the reviews are    *)
(* the reviewers', and a conflict is not forgotten.                        *)
IInv ==
    /\ ProductOK(product, limits) /\ ConsentOK(consent, limits) /\ TalkOK(talk)
    /\ AgreedOK(talk, consent) /\ AskedOK(consent.approval, talk.call, "spec") /\ AskedOK(consent.baseline, talk.call, "baseline")
    /\ RoundOK(reviews, session, limits) /\ SessionsOK(session) /\ ConflictOK(reviews, talk, consent, limits)

-----------------------------------------------------------------------------
(* Induction, and what the bounds and the invariant say.                   *)

(* A set of naturals that is not empty has a least member.                 *)
LEMMA Least == ASSUME NEW T \in SUBSET Nat, T # {} PROVE \E m \in T : \A n \in T : m <= n
<1> DEFINE R == {ss \in Nat \X Nat : ss[1] < ss[2]}
<1>1. IsWellFoundedOn(R, Nat)
  BY NatLessThanWellFounded DEF OpToRel
<1> HIDE DEF R
<1>2. \E m \in T : \A n \in T : <<n, m>> \notin R
  BY <1>1, WFMin
<1>3. \A m, n \in Nat : <<n, m>> \notin R => m <= n
  BY DEF R
<1> QED
  BY <1>2, <1>3

(* Induction over the naturals, stated of a set: of a set that holds 0 and *)
(* the successor of each member, every natural is a member.                *)
LEMMA SetInduction == ASSUME NEW S \in SUBSET Nat, 0 \in S, \A n \in S : n + 1 \in S PROVE \A n \in Nat : n \in S
<1>1. SUFFICES ASSUME Nat \ S # {} PROVE FALSE
  OBVIOUS
<1>2. PICK m \in Nat \ S : \A n \in Nat \ S : m <= n
  BY <1>1, Least
<1>3. m # 0 /\ m - 1 \in Nat
  BY <1>2
<1>4. m - 1 \in S
  BY <1>2, <1>3
<1> QED
  BY <1>2, <1>4

(* What the assumption says of one behaviour's bounds.                     *)
LEMMA LimitsTyped ==
    ASSUME NEW lim \in Limits
    PROVE  /\ lim.codes \in Nat /\ lim.intents \in Nat /\ lim.policies \in Nat /\ lim.rules \in Nat /\ lim.routes \in Nat
           /\ lim.requests \in Nat /\ lim.layers \in Nat \ {0} /\ lim.tickets \in Nat
           /\ lim.open \subseteq Primary /\ lim.questions \subseteq Questions /\ lim.reviewers \subseteq Reviewers
           /\ lim.words \subseteq Words /\ lim.texts \subseteq Texts /\ lim.flaws \subseteq Flaws
           /\ lim.build \in {"dispatch", "oneshot"}
  BY ApprovalAssumption

(* The invariant implies both safety properties: a write has the human's   *)
(* consent, a conflict stands, and reviews that are ready were made by as  *)
(* many sessions.                                                          *)
LEMMA InvariantMeans == ASSUME IInv PROVE HumanDecides /\ ReviewsSound
<1>1. WrittenUnderConsent
  <2>1. ASSUME Dispatch, RouteReady, PolicyAccepted PROVE talk.agreed = Now /\ product.policy \in talk.vetted
    BY <2>1 DEF Dispatch, RouteReady, PolicyAccepted, Granted, Paused, IInv, AgreedOK
  <2> QED
    BY <2>1 DEF WrittenUnderConsent
<1>2. limits.layers \in Nat \ {0} /\ 1 \in Active
  BY LimitsTyped DEF IInv, ProductOK, Active
<1>3. ConflictStands
  <2>1. ASSUME Dispatch, ReviewReady, product.intent \in talk.conflicts \ talk.retired PROVE FALSE
    <3>1. Contested(reviews, consent, limits, product.intent)
      BY <2>1 DEF Dispatch, IInv, ConflictOK
    <3>2. \A l \in Active : reviews.run[l] # Nothing /\ ~Loopback(reviews.run[l])
      BY <2>1 DEF ReviewReady
    <3>3. reviews.loop # "reimplementing"
      BY <1>2, <3>2 DEF IInv, RoundOK, Active
    <3> QED
      BY <3>1, <3>2, <3>3 DEF Contested, Loopback, Active
  <2> QED
    BY <2>1 DEF ConflictStands
<1>4. TypeOK
  <2>1. consent.route \in {Nothing} \cup [id : 1..limits.routes, intent : Nat, rules : 0..limits.rules]
    BY DEF IInv, ConsentOK, Routes
  <2>2. \A r \in {consent.approval, consent.baseline} \ {Nothing} :
          /\ r.id \in 1..consent.requests /\ r.seen \subseteq Primary
          /\ \A a \in r.asked : a.call \in Questions /\ a.id \in 1..consent.requests
    BY DEF IInv, ConsentOK, RequestOK, Requests
  <2>3. ApprovalTypeOK
    BY <2>1, <2>2 DEF IInv, ProductOK, ConsentOK, TalkOK, ApprovalTypeOK
  <2>4. /\ \A l \in Active : reviews.run[l] \in {Nothing} \cup RunType
        /\ \A s \in Reviewers : session[s] \in {Nothing} \cup SessionType
    BY DEF IInv, RoundOK, SessionsOK, SessionOK, Active
  <2> QED
    BY <2>3, <2>4 DEF TypeOK, IInv, RoundOK
<1>5. ASSUME ReviewReady, NEW l \in Active
      PROVE  LET run == reviews.run[l] IN
               /\ session[run.by].born >= run.id /\ run.text \in session[run.by].said
               /\ run.on = Inputs(run.on.rules) /\ ("patch" \in run.found => product.code # run.from.code)
               /\ session[run.by].ticket = run.id
  <2> DEFINE run == reviews.run[l]
  <2>1. run # Nothing /\ run.status = "passed" /\ run.by # Nothing /\ run.on = Inputs(reviews.contract)
    BY <1>5 DEF ReviewReady
  <2>2. run \in RunType /\ RunOK(run, session)
    BY <2>1 DEF IInv, RoundOK, Active
  <2>3. run.on = Inputs(run.on.rules) /\ run.on.code = product.code
    BY <2>1 DEF Inputs
  <2>4. run.by \in Reviewers
    BY <2>1, <2>2 DEF RunType
  <2> HIDE DEF run
  <2>5. session[run.by].born >= run.id /\ run.text \in session[run.by].said /\ session[run.by].ticket = run.id
    BY <2>1, <2>2, <2>4 DEF RunOK
  <2>6. "patch" \in run.found => product.code # run.from.code
    BY <2>1, <2>2, <2>3 DEF RunOK
  <2> QED
    BY <2>3, <2>5, <2>6 DEF run
<1>6. ASSUME ReviewReady, NEW k \in Active, NEW l \in Active, reviews.run[k].by = reviews.run[l].by PROVE k = l
  <2>1. reviews.run[k].id = reviews.run[l].id
    BY <1>5, <1>6
  <2>2. reviews.run[k] # Nothing /\ reviews.run[l] # Nothing
    BY <1>6 DEF ReviewReady
  <2> QED
    BY <2>1, <2>2 DEF IInv, RoundOK, Active
<1> QED
  BY <1>1, <1>3, <1>4, <1>5, <1>6 DEF HumanDecides, ReviewsSound

-----------------------------------------------------------------------------
(* Steps that leave the reviews alone.                                     *)

(* The fields of the Work's record.                                        *)
ConsentFields == {"route", "routes", "approval", "baseline", "requests", "anchor", "prepared", "built"}

(* What steps of the coordinator need of the invariant.                    *)
LEMMA InvariantFacts ==
    ASSUME IInv
    PROVE  /\ ProductOK(product, limits) /\ ConsentOK(consent, limits) /\ TalkOK(talk) /\ DOMAIN consent = ConsentFields
           /\ limits \in Limits /\ product.code \in Nat /\ product.intent \in Nat /\ product.policy \in Nat
           /\ consent.requests \in Nat /\ limits.layers \in Nat \ {0} /\ 1 \in Active
           /\ DOMAIN talk = {"open", "agreed", "vetted", "conflicts", "retired", "call"}
           /\ product \in [code : 0..limits.codes, intent : 0..limits.intents, policy : 0..limits.policies]
<1>1. limits \in Limits
  BY DEF IInv, ProductOK
<1>2. /\ limits.layers \in Nat \ {0} /\ 1 \in Active
      /\ limits.codes \in Nat /\ limits.intents \in Nat /\ limits.policies \in Nat /\ limits.requests \in Nat
  BY <1>1, LimitsTyped DEF Active
<1>3. product \in [code : 0..limits.codes, intent : 0..limits.intents, policy : 0..limits.policies]
  BY DEF IInv, ProductOK
<1>4. product.code \in Nat /\ product.intent \in Nat /\ product.policy \in Nat
  BY <1>2, <1>3
<1>5. ConsentOK(consent, limits) /\ DOMAIN consent = ConsentFields
  BY DEF IInv, ConsentOK, ConsentFields
<1>6. consent.requests \in Nat
  BY <1>2, <1>5 DEF ConsentOK
<1> QED
  BY <1>1, <1>2, <1>3, <1>4, <1>5, <1>6 DEF IInv, TalkOK

(* A step that leaves the reviews alone keeps the invariant when the       *)
(* consent is still the human's, no conflict is new, and none is left      *)
(* without its approval having been taken back.                            *)
LEMMA ConsentStep ==
    ASSUME IInv, UNCHANGED <<limits, reviews, session>>, ProductOK(product', limits), ConsentOK(consent', limits), TalkOK(talk'),
           AgreedOK(talk', consent'), AskedOK(consent'.approval, talk'.call, "spec"),
           AskedOK(consent'.baseline, talk'.call, "baseline"), talk'.conflicts \ talk'.retired \subseteq talk.conflicts \ talk.retired,
           talk'.conflicts \ talk'.retired # {} /\ (consent.approval # Nothing => consent.approval.status = "pending")
             => (consent'.approval # Nothing => consent'.approval.status = "pending")
    PROVE  IInv'
<1>1. ConflictOK(reviews, talk', consent', limits)
  <2>1. ASSUME limits.build = "dispatch", NEW i \in talk'.conflicts \ talk'.retired PROVE Contested(reviews, consent', limits, i)
    <3>1. Contested(reviews, consent, limits, i)
      BY <2>1 DEF IInv, ConflictOK
    <3> QED
      BY <2>1, <3>1 DEF Contested
  <2> QED
    BY <2>1 DEF ConflictOK
<1>2. RoundOK(reviews', session', limits') /\ SessionsOK(session')
  BY DEF IInv
<1> QED
  BY <1>1, <1>2 DEF IInv

(* A step that touches no request and nothing that was said keeps the      *)
(* invariant.                                                              *)
LEMMA OtherFields ==
    ASSUME IInv, UNCHANGED <<limits, talk, reviews, session>>, ProductOK(product', limits), ConsentOK(consent', limits),
           consent'.approval = consent.approval, consent'.baseline = consent.baseline, consent'.anchor = consent.anchor
    PROVE  IInv'
<1>1. AgreedOK(talk', consent') /\ TalkOK(talk') /\ AskedOK(consent'.approval, talk'.call, "spec")
      /\ AskedOK(consent'.baseline, talk'.call, "baseline")
  BY DEF IInv, AgreedOK
<1> QED
  BY <1>1, ConsentStep

(* What a request for the SPEC is about is a route and an intent.          *)
LEMMA NowTyped == ASSUME IInv, consent.route # Nothing PROVE Now \in Intents
  BY InvariantFacts DEF ConsentOK, Routes, Now, Intents

(* A new request follows every other, waits for the human and is bound to  *)
(* no call.                                                                *)
LEMMA Fresh ==
    ASSUME IInv, NEW abouts, NEW about \in abouts, Nothing \notin Requests(abouts)
    PROVE  LET r == Requested(about)
           IN /\ r # Nothing /\ RequestOK(r, consent.requests + 1, abouts) /\ r.status = "pending" /\ r.about = about /\ r.stop = FALSE
              /\ \A call, topic : AskedOK(r, call, topic)
<1> DEFINE r == Requested(about)
<1>1. consent.requests \in Nat /\ talk.open \subseteq Primary
  BY InvariantFacts DEF TalkOK
<1>2. r.id = consent.requests + 1 /\ r.status = "pending" /\ r.about = about /\ r.asked = {} /\ r.seen = talk.open /\ r.stop = FALSE
  BY DEF Requested
<1>3. r \in Requests(abouts)
  BY <1>1 DEF Requested, Requests
<1> HIDE DEF r
<1>4. RequestOK(r, consent.requests + 1, abouts)
  BY <1>1, <1>2, <1>3 DEF RequestOK
<1> QED
  BY <1>2, <1>3, <1>4 DEF AskedOK, r

(* A request is still one of those made when there is another.             *)
LEMMA LaterRequest ==
    ASSUME NEW r, NEW n \in Nat, NEW abouts, RequestOK(r, n, abouts)
    PROVE  RequestOK(r, n + 1, abouts)
  BY DEF RequestOK

(* Another route (cmd_sdd_route) takes the approval back.                  *)
LEMMA ProposeRouteStep == ASSUME IInv, NEW rules \in 0..limits.rules, ProposeRoute(rules), UNCHANGED <<reviews, session>> PROVE IInv'
<1> DEFINE route == [id |-> consent.routes + 1, intent |-> product.intent, rules |-> rules]
           c == [consent EXCEPT !.routes = @ + 1, !.approval = Nothing, !.route = route]
<1>1. consent' = c /\ UNCHANGED <<product, talk, limits>> /\ consent.routes < limits.routes
  BY DEF ProposeRoute
<1>2. limits.routes \in Nat /\ limits.rules \in Nat /\ consent.routes \in 0..limits.routes
  BY InvariantFacts, LimitsTyped DEF ConsentOK
<1>3. route \in Routes /\ route.id \in 1..limits.routes /\ route.rules \in 0..limits.rules
  BY <1>1, <1>2, InvariantFacts DEF Routes
<1> HIDE DEF route
<1>4. /\ DOMAIN c = ConsentFields /\ c.routes = consent.routes + 1 /\ c.approval = Nothing /\ c.route = route
      /\ c.baseline = consent.baseline /\ c.requests = consent.requests /\ c.anchor = consent.anchor
      /\ c.prepared = consent.prepared /\ c.built = consent.built
  BY InvariantFacts DEF ConsentFields
<1> HIDE DEF c
<1>5. ConsentOK(c, limits)
  BY <1>1, <1>2, <1>3, <1>4, InvariantFacts DEF ConsentOK, ConsentFields, RequestOK
<1>6. AgreedOK(talk, c) /\ AskedOK(c.approval, talk.call, "spec") /\ AskedOK(c.baseline, talk.call, "baseline")
  BY <1>4 DEF IInv, AgreedOK, AskedOK
<1> QED
  BY <1>1, <1>4, <1>5, <1>6, InvariantFacts, ConsentStep

(* A request for the SPEC (cmd_sdd_approval).                              *)
LEMMA RequestStep == ASSUME IInv, Request, UNCHANGED <<reviews, session>> PROVE IInv'
<1> DEFINE r == Requested(Now)
           c == [consent EXCEPT !.approval = r, !.requests = @ + 1]
<1>1. consent' = c /\ UNCHANGED <<product, talk, limits>> /\ consent.requests < limits.requests /\ consent.route # Nothing
  BY DEF Request, RouteCurrent
<1>2. /\ RequestOK(r, consent.requests + 1, Intents) /\ r.status = "pending" /\ r # Nothing
      /\ AskedOK(r, talk.call, "spec")
  BY <1>1, NowTyped, Fresh, ApprovalAssumption
<1>3. limits.requests \in Nat /\ consent.requests \in 0..limits.requests
  BY InvariantFacts, LimitsTyped DEF ConsentOK
<1> HIDE DEF r
<1>4. /\ DOMAIN c = ConsentFields /\ c.routes = consent.routes /\ c.approval = r /\ c.route = consent.route
      /\ c.baseline = consent.baseline /\ c.requests = consent.requests + 1 /\ c.anchor = consent.anchor
      /\ c.prepared = consent.prepared /\ c.built = consent.built
  BY InvariantFacts DEF ConsentFields
<1> HIDE DEF c
<1>5. RequestOK(c.baseline, consent.requests + 1, Nat)
  BY <1>4, InvariantFacts, LaterRequest DEF ConsentOK
<1>6. ConsentOK(c, limits)
  BY <1>1, <1>2, <1>3, <1>4, <1>5, InvariantFacts DEF ConsentOK, ConsentFields
<1>7. AgreedOK(talk, c) /\ AskedOK(c.approval, talk.call, "spec") /\ AskedOK(c.baseline, talk.call, "baseline")
  BY <1>2, <1>4 DEF IInv, AgreedOK
<1> QED
  BY <1>1, <1>2, <1>4, <1>6, <1>7, InvariantFacts, ConsentStep

(* ensure_verification_review leaves a request about the policy: the one   *)
(* that was there, or a new one that waits.                                *)
LEMMA EnsuredOK ==
    ASSUME IInv, NEW policy \in 0..limits.policies, consent.requests < limits.requests
    PROVE  LET c == Ensured(policy)
           IN /\ ConsentOK(c, limits) /\ c.approval = consent.approval /\ c.anchor = consent.anchor /\ DOMAIN c = ConsentFields
              /\ AskedOK(c.baseline, talk.call, "baseline") /\ c.route = consent.route
              /\ c.baseline # Nothing /\ c.baseline.about = policy
              /\ c.baseline = consent.baseline \/ (c.baseline.status = "pending" /\ c.baseline.id = consent.requests + 1)
<1> DEFINE r == Requested(policy)
           c == [consent EXCEPT !.baseline = r, !.requests = @ + 1]
<1>1. limits.requests \in Nat /\ consent.requests \in 0..limits.requests /\ policy \in Nat
  BY InvariantFacts, LimitsTyped DEF ConsentOK
<1>2. /\ RequestOK(r, consent.requests + 1, Nat) /\ r.status = "pending" /\ r # Nothing /\ r.about = policy
      /\ AskedOK(r, talk.call, "baseline")
  BY <1>1, Fresh, ApprovalAssumption
<1>3. r.id = consent.requests + 1
  BY DEF Requested
<1> HIDE DEF r
<1>4. /\ DOMAIN c = ConsentFields /\ c.routes = consent.routes /\ c.baseline = r /\ c.route = consent.route
      /\ c.approval = consent.approval /\ c.requests = consent.requests + 1 /\ c.anchor = consent.anchor
      /\ c.prepared = consent.prepared /\ c.built = consent.built
  BY InvariantFacts DEF ConsentFields
<1>5. Ensured(policy) = c \/ (Ensured(policy) = consent /\ consent.baseline # Nothing /\ consent.baseline.about = policy)
  BY DEF Ensured, r
<1> HIDE DEF c
<1>6. RequestOK(c.approval, consent.requests + 1, Intents)
  BY <1>1, <1>4, InvariantFacts, LaterRequest DEF ConsentOK
<1>7. ConsentOK(c, limits)
  BY <1>1, <1>2, <1>4, <1>6, InvariantFacts DEF ConsentOK, ConsentFields
<1>8. CASE Ensured(policy) = c
  BY <1>2, <1>3, <1>4, <1>7, <1>8
<1>9. CASE Ensured(policy) = consent /\ consent.baseline # Nothing /\ consent.baseline.about = policy
  BY <1>9, InvariantFacts DEF IInv
<1> QED
  BY <1>5, <1>8, <1>9

(* verification configure: the anchor stays, another policy has to be      *)
(* reviewed.                                                               *)
LEMMA ConfigureStep == ASSUME IInv, NEW policy \in 0..limits.policies, Configure(policy), UNCHANGED <<reviews, session>> PROVE IInv'
<1> DEFINE c == Ensured(policy)
           p == [product EXCEPT !.policy = policy]
<1>1. product' = p /\ UNCHANGED <<talk, limits>> /\ consent.requests < limits.requests /\ consent' \in {consent, c}
  BY DEF Configure
<1>2. p \in [code : 0..limits.codes, intent : 0..limits.intents, policy : 0..limits.policies]
  BY InvariantFacts
<1>3. /\ ConsentOK(c, limits) /\ c.approval = consent.approval /\ c.anchor = consent.anchor
      /\ AskedOK(c.baseline, talk.call, "baseline")
      /\ c.baseline = consent.baseline \/ c.baseline.status = "pending"
  BY <1>1, EnsuredOK
<1> HIDE DEF c, p
<1>4. ProductOK(p, limits)
  BY <1>2, InvariantFacts DEF ProductOK
<1>5. CASE consent' = consent
  BY <1>1, <1>4, <1>5, InvariantFacts, OtherFields
<1>6. CASE consent' = c
  <2>1. AgreedOK(talk, c)
    BY <1>3 DEF IInv, AgreedOK
  <2>2. AskedOK(c.approval, talk.call, "spec")
    BY <1>3 DEF IInv
  <2> QED
    BY <1>1, <1>3, <1>4, <1>6, <2>1, <2>2, InvariantFacts, ConsentStep
<1> QED
  BY <1>1, <1>5, <1>6

(* reopen --reanchor: the anchor moves only to a policy that was approved. *)
LEMMA ReanchorStep == ASSUME IInv, Reanchor, UNCHANGED <<reviews, session>> PROVE IInv'
<1> DEFINE c == Ensured(product.policy)
           d == [consent EXCEPT !.anchor = product.policy]
<1>1. /\ UNCHANGED <<product, talk, limits>> /\ consent.requests < limits.requests
      /\ consent' = c \/ (consent' = d /\ c.baseline.status = "approved")
  BY DEF Reanchor
<1>2. product.policy \in 0..limits.policies
  BY InvariantFacts
<1>3. /\ ConsentOK(c, limits) /\ c.approval = consent.approval /\ c.anchor = consent.anchor
      /\ AskedOK(c.baseline, talk.call, "baseline") /\ c.baseline # Nothing /\ c.baseline.about = product.policy
      /\ c.baseline = consent.baseline \/ c.baseline.status = "pending"
  BY <1>1, <1>2, EnsuredOK
<1>4. /\ DOMAIN d = ConsentFields /\ d.routes = consent.routes /\ d.baseline = consent.baseline /\ d.route = consent.route
      /\ d.approval = consent.approval /\ d.requests = consent.requests /\ d.anchor = product.policy
      /\ d.prepared = consent.prepared /\ d.built = consent.built
  BY InvariantFacts DEF ConsentFields
<1> HIDE DEF c, d
<1>5. CASE consent' = c
  <2>1. AgreedOK(talk, c)
    BY <1>3 DEF IInv, AgreedOK
  <2>2. AskedOK(c.approval, talk.call, "spec")
    BY <1>3 DEF IInv
  <2> QED
    BY <1>1, <1>3, <1>5, <2>1, <2>2, InvariantFacts, ConsentStep
<1>6. CASE consent' = d /\ c.baseline.status = "approved"
  <2>1. ConsentOK(d, limits)
    BY <1>2, <1>4, InvariantFacts DEF ConsentOK, ConsentFields
  <2>2. product.policy \in talk.vetted
    BY <1>3, <1>6 DEF IInv, AgreedOK
  <2>3. AgreedOK(talk, d)
    BY <1>4, <2>2 DEF IInv, AgreedOK
  <2>4. AskedOK(d.approval, talk.call, "spec") /\ AskedOK(d.baseline, talk.call, "baseline")
    BY <1>4 DEF IInv
  <2> QED
    BY <1>1, <1>4, <1>6, <2>1, <2>3, <2>4, InvariantFacts, ConsentStep
<1> QED
  BY <1>1, <1>5, <1>6

-----------------------------------------------------------------------------
(* Replies.                                                                *)

(* q says the same as r, whoever has seen it.                              *)
Unmoved(r, q) ==
    /\ q = Nothing <=> r = Nothing
    /\ r # Nothing => q.id = r.id /\ q.status = r.status /\ q.stop = r.stop /\ q.about = r.about /\ q.asked = r.asked

(* q is r, decided.                                                        *)
Moved(r, q) ==
    /\ r # Nothing /\ q # Nothing /\ q.id = r.id /\ q.about = r.about /\ q.asked = r.asked
    /\ q.status = "approved" /\ ~(r.status = "approved" /\ q.stop = r.stop)

(* To show a request (bind_request_context) decides nothing.               *)
LEMMA ShownUnmoved ==
    ASSUME NEW r, NEW s \in Primary, NEW n \in Nat, NEW abouts, RequestOK(r, n, abouts), Nothing \notin Requests(abouts)
    PROVE  RequestOK(ShownIn(s, r), n, abouts) /\ Unmoved(r, ShownIn(s, r))
<1>1. CASE Awaits(r)
  <2> DEFINE q == [r EXCEPT !.seen = @ \cup {s}]
  <2>1. r \in Requests(abouts) /\ r # Nothing /\ r.id \in 1..n /\ \A a \in r.asked : a.id \in 1..n
    BY <1>1 DEF Awaits, RequestOK
  <2>2. q \in Requests(abouts) /\ q.id = r.id /\ q.status = r.status /\ q.stop = r.stop /\ q.about = r.about /\ q.asked = r.asked
    BY <2>1 DEF Requests
  <2>3. ShownIn(s, r) = q
    BY <1>1 DEF ShownIn
  <2> HIDE DEF q
  <2> QED
    BY <2>1, <2>2, <2>3 DEF RequestOK, Unmoved
<1>2. CASE ~Awaits(r)
  BY <1>2 DEF ShownIn, Unmoved
<1> QED
  BY <1>1, <1>2

(* expose_approval_context decides nothing.                                *)
LEMMA ExposedOK ==
    ASSUME limits \in Limits, NEW c, ConsentOK(c, limits), NEW s \in Primary
    PROVE  LET d == Exposed(c, s)
           IN /\ ConsentOK(d, limits) /\ Unmoved(c.approval, d.approval) /\ Unmoved(c.baseline, d.baseline)
              /\ d.anchor = c.anchor /\ d.route = c.route
<1> DEFINE a == ShownIn(s, c.approval)
           b == ShownIn(s, c.baseline)
           d == [c EXCEPT !.approval = a, !.baseline = b]
<1>0. c.requests \in Nat
  BY LimitsTyped DEF ConsentOK
<1>1. /\ RequestOK(a, c.requests, Intents) /\ Unmoved(c.approval, a)
      /\ RequestOK(b, c.requests, Nat) /\ Unmoved(c.baseline, b)
  BY <1>0, ShownUnmoved, ApprovalAssumption DEF ConsentOK
<1>2. Exposed(c, s) = d
  BY DEF Exposed
<1> HIDE DEF a, b
<1>3. /\ DOMAIN d = ConsentFields /\ d.routes = c.routes /\ d.baseline = b /\ d.route = c.route
      /\ d.approval = a /\ d.requests = c.requests /\ d.anchor = c.anchor
      /\ d.prepared = c.prepared /\ d.built = c.built
  BY DEF ConsentFields, ConsentOK
<1> HIDE DEF d
<1>4. ConsentOK(d, limits)
  BY <1>1, <1>3 DEF ConsentOK, ConsentFields
<1> QED
  BY <1>1, <1>2, <1>3, <1>4

(* What a reply in session s, to the call c, makes of the consent: d       *)
(* decides the SPEC as it is, by a word that is the SPEC's, or the policy  *)
(* as it is, by a word that is the baseline's; and only what was heard     *)
(* there.                                                                  *)
ReplyMay(s, c, word, d) ==
    /\ ConsentOK(d, limits) /\ d.anchor = consent.anchor /\ d.route = consent.route
    /\ \/ Unmoved(consent.approval, d.approval)
       \/ /\ Moved(consent.approval, d.approval) /\ consent.approval.about = Now /\ Heard(consent.approval, s, c)
          /\ word # "baseline"
          /\ consent.approval.status = "approved" => word \in {"resume", "go"}
    /\ \/ Unmoved(consent.baseline, d.baseline)
       \/ /\ Moved(consent.baseline, d.baseline) /\ consent.baseline.about = product.policy /\ Heard(consent.baseline, s, c)
          /\ consent.baseline.status = "pending" /\ word \in BaselineWords(consent)

(* A reply (observed_replies) does no more than that.                      *)
LEMMA RepliedOK ==
    ASSUME IInv, NEW s, NEW c, NEW word
    PROVE  ReplyMay(s, c, word, Replied(s, c, word))
<1> DEFINE b == [consent.baseline EXCEPT !.status = "approved"]
           e == [consent EXCEPT !.baseline = b]
           f == WithBaseline(consent, s, c, word)
<1>1. \/ f = consent
      \/ /\ f = e /\ consent.baseline # Nothing /\ consent.baseline.status = "pending" /\ consent.baseline.about = product.policy
         /\ Heard(consent.baseline, s, c) /\ word \in BaselineWords(consent)
  BY DEF WithBaseline, Pending
<1>2. ASSUME consent.baseline # Nothing
      PROVE  /\ RequestOK(b, consent.requests, Nat) /\ b # Nothing
             /\ b.id = consent.baseline.id /\ b.about = consent.baseline.about /\ b.asked = consent.baseline.asked
             /\ b.status = "approved" /\ b.stop = consent.baseline.stop
  <2>1. consent.baseline \in Requests(Nat) /\ consent.baseline.id \in 1..consent.requests
        /\ \A a \in consent.baseline.asked : a.id \in 1..consent.requests
    BY <1>2, InvariantFacts DEF ConsentOK, RequestOK
  <2>2. /\ b \in Requests(Nat) /\ b.id = consent.baseline.id /\ b.about = consent.baseline.about /\ b.asked = consent.baseline.asked
        /\ b.status = "approved" /\ b.stop = consent.baseline.stop
    BY <2>1 DEF Requests
  <2>3. b # Nothing
    BY <2>2, ApprovalAssumption
  <2> HIDE DEF b
  <2> QED
    BY <2>1, <2>2, <2>3 DEF RequestOK
<1> HIDE DEF b
<1>3. /\ DOMAIN e = ConsentFields /\ e.routes = consent.routes /\ e.baseline = b /\ e.route = consent.route
      /\ e.approval = consent.approval /\ e.requests = consent.requests /\ e.anchor = consent.anchor
      /\ e.prepared = consent.prepared /\ e.built = consent.built
  BY InvariantFacts DEF ConsentFields
<1> HIDE DEF e
<1>4. /\ ConsentOK(f, limits) /\ f.anchor = consent.anchor /\ f.route = consent.route /\ f.approval = consent.approval
      /\ DOMAIN f = ConsentFields
  <2>1. CASE f = consent
    BY <2>1, InvariantFacts
  <2>2. CASE f = e /\ consent.baseline # Nothing
    <3>1. ConsentOK(e, limits)
      BY <1>2, <1>3, <2>2, InvariantFacts DEF ConsentOK, ConsentFields
    <3> QED
      BY <1>3, <2>2, <3>1
  <2> QED
    BY <1>1, <2>1, <2>2
<1>5. \/ Unmoved(consent.baseline, f.baseline)
      \/ /\ Moved(consent.baseline, f.baseline) /\ consent.baseline.about = product.policy /\ Heard(consent.baseline, s, c)
         /\ consent.baseline.status = "pending" /\ word \in BaselineWords(consent)
  BY <1>1, <1>2, <1>3 DEF Unmoved, Moved
<1> HIDE DEF f
<1> DEFINE a == [f.approval EXCEPT !.status = "approved", !.stop = (word = "stop")]
           g == [f EXCEPT !.approval = a]
           h == WithSpec(f, s, c, word)
<1>6. \/ h = f
      \/ h = g /\ f.approval # Nothing /\ Heard(f.approval, s, c) /\ word \in SpecWords(f, c) /\ f.approval.about = Now
  <2>1. [f EXCEPT !.approval.status = "approved", !.approval.stop = (word = "stop")] = g
    BY <1>4 DEF ConsentFields
  <2> QED
    BY <2>1 DEF WithSpec
<1>7. ASSUME f.approval # Nothing, word \in SpecWords(f, c)
      PROVE  RequestOK(a, f.requests, Intents) /\ Moved(f.approval, a) /\ word # "baseline" /\ (f.approval.status = "approved" => word \in {"resume", "go"})
  <2>1. f.approval \in Requests(Intents) /\ f.approval.id \in 1..f.requests /\ \A x \in f.approval.asked : x.id \in 1..f.requests
    BY <1>4, <1>7 DEF ConsentOK, RequestOK
  <2>2. PICK stop \in BOOLEAN : stop = (word = "stop")
    OBVIOUS
  <2>3. a = [f.approval EXCEPT !.status = "approved", !.stop = stop]
    BY <2>2
  <2>4. /\ a \in Requests(Intents) /\ a.id = f.approval.id /\ a.about = f.approval.about /\ a.asked = f.approval.asked
        /\ a.status = "approved" /\ a.stop = stop
    BY <2>1, <2>3 DEF Requests
  <2>5. a # Nothing
    BY <2>4, ApprovalAssumption
  <2> HIDE DEF a
  <2>6. f.approval.status = "approved" => f.approval.stop /\ word \in {"resume", "go"}
    BY <1>7 DEF SpecWords
  <2>7. f.approval.status = "approved" => ~(a.stop = f.approval.stop)
    <3>1. word \in {"resume", "go"} => ~stop
      BY <2>2
    <3> QED
      BY <2>4, <2>6, <3>1
  <2> QED
    BY <1>7, <2>1, <2>4, <2>5, <2>6, <2>7 DEF RequestOK, Moved, SpecWords
<1> HIDE DEF a
<1>8. /\ DOMAIN g = ConsentFields /\ g.routes = f.routes /\ g.baseline = f.baseline /\ g.route = f.route
      /\ g.approval = a /\ g.requests = f.requests /\ g.anchor = f.anchor
      /\ g.prepared = f.prepared /\ g.built = f.built
  BY <1>4 DEF ConsentFields
<1>9. Replied(s, c, word) = h
  BY DEF Replied, f
<1> HIDE DEF g, h
<1>10. CASE h = f
  BY <1>4, <1>5, <1>9, <1>10 DEF ReplyMay, Unmoved
<1>11. CASE h = g /\ f.approval # Nothing /\ Heard(f.approval, s, c) /\ word \in SpecWords(f, c) /\ f.approval.about = Now
  <2>1. RequestOK(a, f.requests, Intents) /\ Moved(f.approval, a) /\ word # "baseline" /\ (f.approval.status = "approved" => word \in {"resume", "go"})
    BY <1>7, <1>11
  <2>2. ConsentOK(g, limits)
    BY <1>4, <1>8, <2>1 DEF ConsentOK, ConsentFields
  <2> QED
    BY <1>4, <1>5, <1>8, <1>9, <1>11, <2>1, <2>2 DEF ReplyMay
<1> QED
  BY <1>6, <1>10, <1>11

(* Nor does a prompt, which also shows what waits afterwards.              *)
LEMMA ReplyThenShown ==
    ASSUME IInv, NEW s \in Primary, NEW c, NEW word
    PROVE  ReplyMay(s, c, word, Exposed(Replied(s, c, word), s))
<1> DEFINE d == Replied(s, c, word)
           e == Exposed(d, s)
<1>1. ReplyMay(s, c, word, d)
  BY RepliedOK
<1> HIDE DEF d
<1>2. /\ ConsentOK(e, limits) /\ Unmoved(d.approval, e.approval) /\ Unmoved(d.baseline, e.baseline)
      /\ e.anchor = d.anchor /\ e.route = d.route
  BY <1>1, InvariantFacts, ExposedOK DEF ReplyMay
<1> HIDE DEF e
<1>3. \A r, q, p : Unmoved(r, q) /\ Unmoved(q, p) => Unmoved(r, p)
  BY DEF Unmoved
<1>4. \A r, q, p : Moved(r, q) /\ Unmoved(q, p) => Moved(r, p)
  BY DEF Unmoved, Moved
<1>5. \/ Unmoved(consent.approval, e.approval)
      \/ /\ Moved(consent.approval, e.approval) /\ consent.approval.about = Now /\ Heard(consent.approval, s, c)
         /\ word # "baseline"
         /\ consent.approval.status = "approved" => word \in {"resume", "go"}
  BY <1>1, <1>2, <1>3, <1>4 DEF ReplyMay
<1>6. \/ Unmoved(consent.baseline, e.baseline)
      \/ /\ Moved(consent.baseline, e.baseline) /\ consent.baseline.about = product.policy /\ Heard(consent.baseline, s, c)
         /\ consent.baseline.status = "pending" /\ word \in BaselineWords(consent)
  BY <1>1, <1>2, <1>3, <1>4 DEF ReplyMay
<1> QED
  BY <1>1, <1>2, <1>5, <1>6 DEF ReplyMay, d, e

(* A request that was decided is seen as decided by the properties, one    *)
(* that was not is not.                                                    *)
LEMMA DecisionsSeen ==
    ASSUME IInv
    PROVE  /\ Unmoved(consent.approval, consent'.approval) => ~SpecDecided
           /\ Moved(consent.approval, consent'.approval) => SpecDecided
           /\ Unmoved(consent.baseline, consent'.baseline) => ~BaselineDecided
           /\ Moved(consent.baseline, consent'.baseline) => BaselineDecided
  BY DEF Unmoved, Moved, Decides, SpecDecided, BaselineDecided

(* The calls are still about what they were.                               *)
CallsKeep(call, call2) ==
    \A c \in Questions : /\ call2[c].topic = call[c].topic /\ call2[c].under = call[c].under
                         /\ call[c].state # "new" => call2[c].state # "new"

(* The request is bound to calls of ask_user_question only.                *)
FromQuestions(r) == r # Nothing => \A a \in r.asked : a.call \in Questions

(* What a call asked stays what it was about, when the request is decided  *)
(* too.                                                                    *)
LEMMA AskedStays ==
    ASSUME NEW r, NEW q, NEW call, NEW topic, NEW call2, AskedOK(r, call, topic), Unmoved(r, q) \/ Moved(r, q),
           CallsKeep(call, call2), FromQuestions(r)
    PROVE  AskedOK(q, call2, topic)
  BY DEF AskedOK, Unmoved, Moved, CallsKeep, FromQuestions

(* A reply keeps the invariant: what it approves, the human agreed to, and *)
(* a decision about the SPEC ends its conflicts.                           *)
LEMMA ReplyStep ==
    ASSUME IInv, NEW s, NEW c, NEW word, ReplyMay(s, c, word, consent'), NEW call, Remembers(call),
           UNCHANGED <<product, limits, reviews, session>>,
           call \in [Questions -> [state : {"new", "asked", "answered"}, by : Primary \cup {Nothing},
                                   topic : {"", "spec", "baseline"}, under : SUBSET Nat]],
           CallsKeep(talk.call, call)
    PROVE  IInv'
<1> DEFINE agreed == IF ~SpecDecided THEN talk.agreed ELSE IF consent'.approval.stop THEN Nothing ELSE Now
           conflicts == IF SpecDecided THEN {} ELSE talk.conflicts
           retired == IF SpecDecided THEN {} ELSE talk.retired
           vetted == IF BaselineDecided THEN talk.vetted \cup {product.policy} ELSE talk.vetted
           t == [talk EXCEPT !.call = call, !.agreed = agreed, !.conflicts = conflicts, !.retired = retired, !.vetted = vetted]
<1>1. talk' = t
  BY DEF Remembers
<1>2. /\ ~SpecDecided => agreed = talk.agreed /\ conflicts = talk.conflicts /\ retired = talk.retired
      /\ SpecDecided => conflicts = {} /\ (~consent'.approval.stop => agreed = Now)
      /\ conflicts \ retired \subseteq talk.conflicts \ talk.retired
      /\ talk.vetted \subseteq vetted /\ (BaselineDecided => product.policy \in vetted)
  OBVIOUS
<1> HIDE DEF agreed, conflicts, retired, vetted
<1>3. /\ DOMAIN t = DOMAIN talk /\ t.call = call /\ t.agreed = agreed /\ t.conflicts = conflicts /\ t.vetted = vetted
      /\ t.open = talk.open /\ t.retired = retired
  BY InvariantFacts
<1> HIDE DEF t
<1>4. TalkOK(t)
  BY <1>3, InvariantFacts DEF TalkOK
<1>5. /\ ConsentOK(consent', limits) /\ consent'.anchor = consent.anchor
      /\ \/ Unmoved(consent.approval, consent'.approval)
         \/ Moved(consent.approval, consent'.approval) /\ consent.approval.about = Now
      /\ \/ Unmoved(consent.baseline, consent'.baseline)
         \/ Moved(consent.baseline, consent'.baseline) /\ consent.baseline.about = product.policy
  BY DEF ReplyMay
<1>6. AgreedOK(t, consent')
  <2>1. consent'.approval # Nothing /\ consent'.approval.status = "approved" /\ ~consent'.approval.stop
          => t.agreed = consent'.approval.about
    <3>1. CASE Unmoved(consent.approval, consent'.approval)
      BY <1>2, <1>3, <3>1, DecisionsSeen DEF IInv, AgreedOK, Unmoved
    <3>2. CASE Moved(consent.approval, consent'.approval) /\ consent.approval.about = Now
      BY <1>2, <1>3, <3>2, DecisionsSeen DEF Moved
    <3> QED
      BY <1>5, <3>1, <3>2
  <2>2. consent'.anchor \in t.vetted
    BY <1>2, <1>3, <1>5 DEF IInv, AgreedOK
  <2>3. consent'.baseline # Nothing /\ consent'.baseline.status = "approved" => consent'.baseline.about \in t.vetted
    <3>1. CASE Unmoved(consent.baseline, consent'.baseline)
      BY <1>2, <1>3, <3>1 DEF IInv, AgreedOK, Unmoved
    <3>2. CASE Moved(consent.baseline, consent'.baseline) /\ consent.baseline.about = product.policy
      BY <1>2, <1>3, <3>2, DecisionsSeen DEF Moved
    <3> QED
      BY <1>5, <3>1, <3>2
  <2> QED
    BY <2>1, <2>2, <2>3 DEF AgreedOK
<1>7. AskedOK(consent'.approval, t.call, "spec") /\ AskedOK(consent'.baseline, t.call, "baseline")
  <2>1. FromQuestions(consent.approval) /\ FromQuestions(consent.baseline)
    BY InvariantFacts DEF ConsentOK, RequestOK, Requests, FromQuestions
  <2>2. AskedOK(consent.approval, talk.call, "spec") /\ AskedOK(consent.baseline, talk.call, "baseline")
    BY DEF IInv
  <2>3. AskedOK(consent'.approval, call, "spec")
    BY <1>5, <2>1, <2>2, AskedStays
  <2>4. AskedOK(consent'.baseline, call, "baseline")
    BY <1>5, <2>1, <2>2, AskedStays
  <2> QED
    BY <1>3, <2>3, <2>4
<1>8. t.conflicts \ t.retired # {} /\ (consent.approval # Nothing => consent.approval.status = "pending")
        => (consent'.approval # Nothing => consent'.approval.status = "pending")
  BY <1>2, <1>3, <1>5, DecisionsSeen DEF Unmoved
<1>9. ProductOK(product', limits)
  BY InvariantFacts
<1> QED
  BY <1>1, <1>2, <1>3, <1>4, <1>5, <1>6, <1>7, <1>8, <1>9, ConsentStep

(* A prompt in a session of the coordinator.                               *)
LEMMA SaysStep == ASSUME IInv, NEW s \in Primary, NEW word, Says(s, word), UNCHANGED <<reviews, session>> PROVE IInv'
<1>1. ReplyMay(s, Nothing, word, consent')
  BY ReplyThenShown DEF Says
<1>2. talk.call \in [Questions -> [state : {"new", "asked", "answered"}, by : Primary \cup {Nothing},
                                   topic : {"", "spec", "baseline"}, under : SUBSET Nat]]
  BY InvariantFacts DEF TalkOK
<1>3. Remembers(talk.call) /\ UNCHANGED <<product, limits>>
  BY DEF Says
<1> QED
  BY <1>1, <1>2, <1>3, ReplyStep DEF CallsKeep

(* The calls, with c answered.                                             *)
AnsweredCall(c) == [talk.call EXCEPT ![c].state = "answered"]

(* An answer changes its call's state and nothing else of the calls.       *)
LEMMA AnsweredCallFields ==
    ASSUME IInv, NEW c \in Questions
    PROVE  LET call == AnsweredCall(c)
           IN /\ call \in [Questions -> [state : {"new", "asked", "answered"}, by : Primary \cup {Nothing},
                                         topic : {"", "spec", "baseline"}, under : SUBSET Nat]]
              /\ CallsKeep(talk.call, call)
              /\ \A x \in Questions \ {c} : call[x] = talk.call[x]
<1> DEFINE Calls == [state : {"new", "asked", "answered"}, by : Primary \cup {Nothing},
                     topic : {"", "spec", "baseline"}, under : SUBSET Nat]
           new == [talk.call[c] EXCEPT !.state = "answered"]
<1>1. talk.call \in [Questions -> Calls]
  BY InvariantFacts DEF TalkOK
<1>2. new \in Calls /\ new.topic = talk.call[c].topic /\ new.under = talk.call[c].under /\ new.state = "answered"
  BY <1>1
<1>3. AnsweredCall(c) = [talk.call EXCEPT ![c] = new]
  BY DEF AnsweredCall
<1> HIDE DEF new, Calls
<1>4. /\ AnsweredCall(c) \in [Questions -> Calls] /\ AnsweredCall(c)[c] = new
      /\ \A x \in Questions \ {c} : AnsweredCall(c)[x] = talk.call[x]
  BY <1>1, <1>2, <1>3
<1>5. CallsKeep(talk.call, AnsweredCall(c))
  BY <1>2, <1>4 DEF CallsKeep
<1> QED
  BY <1>4, <1>5 DEF Calls

(* The answer to a question.                                               *)
LEMMA AnswersStep == ASSUME IInv, NEW c \in Questions, NEW word, Answers(c, word), UNCHANGED <<reviews, session>> PROVE IInv'
<1>1. ReplyMay(talk.call[c].by, c, word, consent')
  BY RepliedOK DEF Answers
<1>2. Remembers(AnsweredCall(c)) /\ UNCHANGED <<product, limits>>
  BY DEF Answers, AnsweredCall
<1> QED
  BY <1>1, <1>2, AnsweredCallFields, ReplyStep

(* A session of the coordinator begins, and is shown what waits.           *)
LEMMA OpensStep == ASSUME IInv, NEW s \in Primary, Opens(s), UNCHANGED <<reviews, session>> PROVE IInv'
<1> DEFINE t == [talk EXCEPT !.open = @ \cup {s}]
<1>1. talk' = t /\ UNCHANGED <<product, limits>> /\ consent' = Exposed(consent, s)
  BY DEF Opens
<1>2. /\ DOMAIN t = DOMAIN talk /\ t.open = talk.open \cup {s} /\ t.agreed = talk.agreed /\ t.vetted = talk.vetted
      /\ t.conflicts = talk.conflicts /\ t.retired = talk.retired /\ t.call = talk.call
  BY InvariantFacts
<1> HIDE DEF t
<1>3. /\ ConsentOK(consent', limits) /\ Unmoved(consent.approval, consent'.approval)
      /\ Unmoved(consent.baseline, consent'.baseline) /\ consent'.anchor = consent.anchor
  BY <1>1, InvariantFacts, ExposedOK
<1>4. TalkOK(t)
  BY <1>2, InvariantFacts DEF TalkOK
<1>5. AgreedOK(t, consent')
  BY <1>2, <1>3 DEF IInv, AgreedOK, Unmoved
<1>6. AskedOK(consent'.approval, t.call, "spec") /\ AskedOK(consent'.baseline, t.call, "baseline")
  BY <1>2, <1>3 DEF IInv, AskedOK, Unmoved
<1> QED
  BY <1>1, <1>2, <1>3, <1>4, <1>5, <1>6, InvariantFacts, ConsentStep DEF Unmoved

(* A session ends.                                                         *)
LEMMA ClosesStep == ASSUME IInv, NEW s \in Primary, Closes(s), UNCHANGED <<reviews, session>> PROVE IInv'
<1> DEFINE t == [talk EXCEPT !.open = @ \ {s}]
<1>1. talk' = t /\ UNCHANGED <<product, consent, limits>>
  BY DEF Closes
<1>2. /\ DOMAIN t = DOMAIN talk /\ t.open = talk.open \ {s} /\ t.agreed = talk.agreed /\ t.vetted = talk.vetted
      /\ t.conflicts = talk.conflicts /\ t.retired = talk.retired /\ t.call = talk.call
  BY InvariantFacts
<1> HIDE DEF t
<1>3. TalkOK(t)
  BY <1>2, InvariantFacts DEF TalkOK
<1>4. AgreedOK(t, consent) /\ AskedOK(consent.approval, t.call, "spec") /\ AskedOK(consent.baseline, t.call, "baseline")
  BY <1>2 DEF IInv, AgreedOK
<1> QED
  BY <1>1, <1>2, <1>3, <1>4, InvariantFacts, ConsentStep

(* bind_approval_question adds the call to the request, under the          *)
(* request's own id, and decides nothing.                                  *)
LEMMA BoundRequest ==
    ASSUME IInv, NEW r, NEW abouts, Nothing \notin Requests(abouts), RequestOK(r, consent.requests, abouts),
           NEW s, NEW c \in Questions
    PROVE  LET q == BoundTo(r, s, c)
           IN /\ RequestOK(q, consent.requests, abouts) /\ (q = Nothing <=> r = Nothing)
              /\ r # Nothing => /\ q.id = r.id /\ q.status = r.status /\ q.stop = r.stop /\ q.about = r.about
                                /\ q.asked \subseteq r.asked \cup {[call |-> c, id |-> r.id]}
<1>1. CASE Awaits(r) /\ s \in r.seen
  <2> DEFINE x == [call |-> c, id |-> r.id]
             q == [r EXCEPT !.asked = @ \cup {x}]
  <2>1. r \in Requests(abouts) /\ r # Nothing /\ r.id \in 1..consent.requests /\ \A a \in r.asked : a.id \in 1..consent.requests
    BY <1>1 DEF Awaits, RequestOK
  <2>2. x \in [call : Questions, id : Nat \ {0}] /\ x.id = r.id
    BY <2>1 DEF Requests
  <2>3. BoundTo(r, s, c) = q
    BY <1>1 DEF BoundTo
  <2> HIDE DEF x
  <2>4. /\ q \in Requests(abouts) /\ q.id = r.id /\ q.status = r.status /\ q.stop = r.stop /\ q.about = r.about
        /\ q.asked = r.asked \cup {x}
    BY <2>1, <2>2 DEF Requests
  <2> HIDE DEF q
  <2>5. RequestOK(q, consent.requests, abouts)
    BY <2>1, <2>2, <2>4 DEF RequestOK
  <2> QED
    BY <2>1, <2>3, <2>4, <2>5 DEF x
<1>2. CASE ~(Awaits(r) /\ s \in r.seen)
  BY <1>2 DEF BoundTo
<1> QED
  BY <1>1, <1>2

(* A question is asked: it is bound to the request of its topic, which was *)
(* open then.                                                              *)
LEMMA AsksStep ==
    ASSUME IInv, NEW s \in Primary, NEW c \in Questions, NEW topic \in {"spec", "baseline"}, Asks(s, c, topic),
           UNCHANGED <<reviews, session>>
    PROVE  IInv'
<1> DEFINE under == {r.id : r \in {consent.approval, consent.baseline} \ {Nothing}}
           entry == [state |-> "asked", by |-> s, topic |-> topic, under |-> under]
           call == [talk.call EXCEPT ![c] = entry]
           t == [talk EXCEPT !.call = call]
           a == IF topic = "baseline" THEN consent.approval ELSE BoundTo(consent.approval, s, c)
           b == IF topic = "baseline" THEN BoundTo(consent.baseline, s, c) ELSE consent.baseline
           d == [consent EXCEPT !.approval = a, !.baseline = b]
           Calls == [state : {"new", "asked", "answered"}, by : Primary \cup {Nothing},
                     topic : {"", "spec", "baseline"}, under : SUBSET Nat]
<1>1. UNCHANGED <<product, limits>> /\ talk.call[c].state = "new"
  BY DEF Asks
<1>2. talk' = t
  BY InvariantFacts DEF Asks
<1>3. /\ RequestOK(consent.approval, consent.requests, Intents) /\ RequestOK(consent.baseline, consent.requests, Nat)
      /\ AskedOK(consent.approval, talk.call, "spec") /\ AskedOK(consent.baseline, talk.call, "baseline")
  BY InvariantFacts DEF ConsentOK, IInv
<1>4. /\ RequestOK(a, consent.requests, Intents) /\ (a = Nothing <=> consent.approval = Nothing)
      /\ consent.approval # Nothing =>
           /\ a.id = consent.approval.id /\ a.status = consent.approval.status /\ a.stop = consent.approval.stop
           /\ a.about = consent.approval.about
           /\ \/ a.asked \subseteq consent.approval.asked
              \/ topic = "spec" /\ a.asked \subseteq consent.approval.asked \cup {[call |-> c, id |-> consent.approval.id]}
  BY <1>3, BoundRequest, ApprovalAssumption
<1>5. /\ RequestOK(b, consent.requests, Nat) /\ (b = Nothing <=> consent.baseline = Nothing)
      /\ consent.baseline # Nothing =>
           /\ b.id = consent.baseline.id /\ b.status = consent.baseline.status /\ b.stop = consent.baseline.stop
           /\ b.about = consent.baseline.about
           /\ \/ b.asked \subseteq consent.baseline.asked
              \/ topic = "baseline" /\ b.asked \subseteq consent.baseline.asked \cup {[call |-> c, id |-> consent.baseline.id]}
  BY <1>3, BoundRequest, ApprovalAssumption
<1>6. /\ DOMAIN d = ConsentFields /\ d.routes = consent.routes /\ d.baseline = b /\ d.route = consent.route
      /\ d.approval = a /\ d.requests = consent.requests /\ d.anchor = consent.anchor
      /\ d.prepared = consent.prepared /\ d.built = consent.built
  BY InvariantFacts DEF ConsentFields
<1>7. consent' = d
  <2>1. CASE topic = "baseline"
    <3>1. consent' = [consent EXCEPT !.baseline = b]
      BY <2>1 DEF Asks
    <3>2. [consent EXCEPT !.baseline = b] = [consent EXCEPT !.approval = consent.approval, !.baseline = b]
      BY InvariantFacts DEF ConsentFields
    <3> QED
      BY <2>1, <3>1, <3>2
  <2>2. CASE topic = "spec"
    <3>1. consent' = [consent EXCEPT !.approval = a]
      BY <2>2 DEF Asks
    <3>2. [consent EXCEPT !.approval = a] = [consent EXCEPT !.approval = a, !.baseline = consent.baseline]
      BY InvariantFacts DEF ConsentFields
    <3> QED
      BY <2>2, <3>1, <3>2
  <2> QED
    BY <2>1, <2>2
<1>8. /\ consent.approval # Nothing => consent.approval.id \in under
      /\ consent.baseline # Nothing => consent.baseline.id \in under
  OBVIOUS
<1>9. under \subseteq Nat
  BY <1>3, InvariantFacts DEF RequestOK
<1> HIDE DEF under, a, b, d
<1>10. entry \in Calls /\ entry.state = "asked" /\ entry.topic = topic /\ entry.under = under
  BY <1>9
<1>11. talk.call \in [Questions -> Calls]
  BY InvariantFacts DEF TalkOK
<1> HIDE DEF entry, Calls
<1>12. call \in [Questions -> Calls] /\ call[c] = entry /\ \A x \in Questions \ {c} : call[x] = talk.call[x]
  BY <1>10, <1>11
<1> HIDE DEF call
<1>13. /\ DOMAIN t = DOMAIN talk /\ t.open = talk.open /\ t.agreed = talk.agreed /\ t.vetted = talk.vetted
       /\ t.conflicts = talk.conflicts /\ t.retired = talk.retired /\ t.call = call
  BY InvariantFacts
<1> HIDE DEF t
<1>14. TalkOK(t)
  BY <1>12, <1>13, InvariantFacts DEF TalkOK, Calls
<1>15. ConsentOK(d, limits)
  BY <1>4, <1>5, <1>6, InvariantFacts DEF ConsentOK, ConsentFields
<1>16. AgreedOK(t, d)
  BY <1>4, <1>5, <1>6, <1>13 DEF IInv, AgreedOK
<1>17. \A r, top : AskedOK(r, talk.call, top) /\ FromQuestions(r) => AskedOK(r, call, top)
  BY <1>1, <1>12 DEF AskedOK, FromQuestions
<1>18. FromQuestions(consent.approval) /\ FromQuestions(consent.baseline)
  BY <1>3 DEF RequestOK, Requests, FromQuestions
<1>19. AskedOK(a, call, "spec")
  <2>1. SUFFICES ASSUME consent.approval # Nothing, NEW x \in a.asked
                 PROVE call[x.call].state # "new" /\ call[x.call].topic = "spec" /\ x.id \in call[x.call].under
    BY <1>4 DEF AskedOK
  <2>2. CASE x \in consent.approval.asked
    BY <1>3, <1>17, <1>18, <2>1, <2>2 DEF AskedOK
  <2>3. CASE topic = "spec" /\ x = [call |-> c, id |-> consent.approval.id]
    BY <1>8, <1>10, <1>12, <2>1, <2>3
  <2> QED
    BY <1>4, <2>1, <2>2, <2>3
<1>20. AskedOK(b, call, "baseline")
  <2>1. SUFFICES ASSUME consent.baseline # Nothing, NEW x \in b.asked
                 PROVE call[x.call].state # "new" /\ call[x.call].topic = "baseline" /\ x.id \in call[x.call].under
    BY <1>5 DEF AskedOK
  <2>2. CASE x \in consent.baseline.asked
    BY <1>3, <1>17, <1>18, <2>1, <2>2 DEF AskedOK
  <2>3. CASE topic = "baseline" /\ x = [call |-> c, id |-> consent.baseline.id]
    BY <1>8, <1>10, <1>12, <2>1, <2>3
  <2> QED
    BY <1>5, <2>1, <2>2, <2>3
<1>21. (consent.approval # Nothing => consent.approval.status = "pending") => (d.approval # Nothing => d.approval.status = "pending")
  BY <1>4, <1>6
<1> QED
  BY <1>1, <1>2, <1>6, <1>7, <1>13, <1>14, <1>15, <1>16, <1>19, <1>20, <1>21, InvariantFacts, ConsentStep

(* The implementation step was read.                                       *)
LEMMA ReadStepStep == ASSUME IInv, ReadStep, UNCHANGED <<reviews, session>> PROVE IInv'
<1> DEFINE c == [consent EXCEPT !.prepared = consent.route.id]
<1>1. consent' = c /\ UNCHANGED <<product, talk, limits>> /\ consent.route # Nothing
  BY DEF ReadStep
<1>2. /\ DOMAIN c = ConsentFields /\ c.routes = consent.routes /\ c.baseline = consent.baseline /\ c.route = consent.route
      /\ c.approval = consent.approval /\ c.requests = consent.requests /\ c.anchor = consent.anchor
      /\ c.prepared = consent.route.id /\ c.built = consent.built
  BY InvariantFacts DEF ConsentFields
<1> HIDE DEF c
<1>3. ConsentOK(c, limits)
  BY <1>1, <1>2, InvariantFacts DEF ConsentOK, ConsentFields
<1> QED
  BY <1>1, <1>2, <1>3, InvariantFacts, OtherFields

(* The SPEC's intent is edited: what was agreed to is about another one    *)
(* now.                                                                    *)
LEMMA EditIntentStep == ASSUME IInv, NEW intent \in 0..limits.intents, EditIntent(intent), UNCHANGED <<reviews, session>> PROVE IInv'
<1> DEFINE p == [product EXCEPT !.intent = intent]
<1>1. product' = p /\ UNCHANGED <<consent, talk, limits>>
  BY DEF EditIntent
<1>2. p \in [code : 0..limits.codes, intent : 0..limits.intents, policy : 0..limits.policies]
  BY InvariantFacts
<1> HIDE DEF p
<1> QED
  BY <1>1, <1>2, InvariantFacts, OtherFields DEF ProductOK

(* Every step of the coordinator and of the human keeps the invariant.     *)
LEMMA ApprovalStepKeeps == ASSUME IInv, ApprovalStep, UNCHANGED <<reviews, session>> PROVE IInv'
  BY ProposeRouteStep, RequestStep, ConfigureStep, ReanchorStep, OpensStep, ClosesStep, SaysStep, AsksStep, AnswersStep,
     ReadStepStep, EditIntentStep DEF ApprovalStep

-----------------------------------------------------------------------------
(* The reviewers' sessions and the tickets they are bound to.              *)

(* What steps of the reviews need of the invariant.                        *)
LEMMA ReviewFacts ==
    ASSUME IInv
    PROVE  /\ RoundOK(reviews, session, limits) /\ SessionsOK(session) /\ ConflictOK(reviews, talk, consent, limits)
           /\ DOMAIN reviews = {"run", "contract", "loop", "tickets"} /\ reviews.tickets \in Nat
           /\ reviews.run = [l \in Active |-> reviews.run[l]]
           /\ \A l \in Active : reviews.run[l] # Nothing =>
                 /\ reviews.run[l] \in RunType /\ RunOK(reviews.run[l], session)
                 /\ reviews.contract \in Nat /\ reviews.loop # "reimplementing"
           /\ session = [s \in Reviewers |-> session[s]]
           /\ \A s \in Reviewers : session[s] # Nothing => SessionOK(session[s])
<1>1. limits.tickets \in Nat /\ limits.rules \in Nat
  BY InvariantFacts, LimitsTyped
<1>2. RoundOK(reviews, session, limits) /\ SessionsOK(session) /\ ConflictOK(reviews, talk, consent, limits)
  BY DEF IInv
<1>3. /\ DOMAIN reviews = {"run", "contract", "loop", "tickets"} /\ reviews.tickets \in Nat
      /\ reviews.run = [l \in Active |-> reviews.run[l]]
  BY <1>1, <1>2 DEF RoundOK, Active
<1>4. \A l \in Active : reviews.run[l] # Nothing =>
                 /\ reviews.run[l] \in RunType /\ RunOK(reviews.run[l], session)
                 /\ reviews.contract \in Nat /\ reviews.loop # "reimplementing"
  BY <1>1, <1>2 DEF RoundOK, Active
<1> QED
  BY <1>2, <1>3, <1>4 DEF SessionsOK

(* t is the talk, but for its conflicts.                                   *)
OnlyConflicts(t) ==
    /\ DOMAIN t = DOMAIN talk /\ t.open = talk.open /\ t.agreed = talk.agreed /\ t.vetted = talk.vetted /\ t.call = talk.call

(* A step that leaves the product and the consent alone keeps the          *)
(* invariant when the round, the sessions and the conflicts are still      *)
(* sound.                                                                  *)
LEMMA ReviewStep ==
    ASSUME IInv, UNCHANGED <<product, consent, limits>>, OnlyConflicts(talk'),
           RoundOK(reviews', session', limits), SessionsOK(session'), ConflictOK(reviews', talk', consent, limits)
    PROVE  IInv'
<1>1. /\ DOMAIN talk' = DOMAIN talk /\ talk'.open = talk.open /\ talk'.agreed = talk.agreed /\ talk'.vetted = talk.vetted
      /\ talk'.call = talk.call
  BY DEF OnlyConflicts
<1>2. TalkOK(talk')
  BY <1>1, InvariantFacts DEF TalkOK
<1>3. AgreedOK(talk', consent) /\ AskedOK(consent.approval, talk'.call, "spec") /\ AskedOK(consent.baseline, talk'.call, "baseline")
  BY <1>1 DEF IInv, AgreedOK
<1> QED
  BY <1>2, <1>3, InvariantFacts DEF IInv

(* A step that leaves the talk alone leaves all but its conflicts alone.   *)
LEMMA SameTalk == ASSUME UNCHANGED talk PROVE OnlyConflicts(talk')
  BY DEF OnlyConflicts

(* Sessions keep their ticket, their birth and what they said; a new one   *)
(* is of after n tickets.                                                  *)
SessionsGrow(ses, next, n) ==
    \A s \in Reviewers :
        /\ ses[s] # Nothing => /\ next[s] # Nothing /\ next[s].born = ses[s].born /\ ses[s].said \subseteq next[s].said
                               /\ ses[s].ticket # 0 => next[s].ticket = ses[s].ticket
        /\ ses[s] = Nothing /\ next[s] # Nothing => next[s].born = n

(* A run stays sound when the sessions grow.                               *)
LEMMA RunGrows ==
    ASSUME NEW ses, NEW next, NEW n \in Nat, SessionsGrow(ses, next, n), NEW r \in RunType, RunOK(r, ses), r.id <= n
    PROVE  RunOK(r, next)
<1>1. r.by \in Reviewers \cup {Nothing} /\ r.id \in Nat \ {0}
  BY DEF RunType
<1> QED
  BY <1>1 DEF RunOK, SessionsGrow

(* A round stays sound when the sessions grow.                             *)
LEMMA RoundGrows ==
    ASSUME NEW rs, NEW ses, NEW next, NEW lim \in Limits, RoundOK(rs, ses, lim), SessionsGrow(ses, next, rs.tickets)
    PROVE  RoundOK(rs, next, lim)
<1>1. rs.tickets \in Nat
  BY LimitsTyped DEF RoundOK
<1>2. \A l \in 1..lim.layers : rs.run[l] # Nothing => RunOK(rs.run[l], next)
  BY <1>1, RunGrows DEF RoundOK
<1> QED
  BY <1>2 DEF RoundOK

(* R has a run where rs has one, of the same ticket.                       *)
RunsKeep(rs, R, ses, lim) ==
    /\ R = [l \in 1..lim.layers |-> R[l]]
    /\ \A l \in 1..lim.layers : rs.run[l] = Nothing => R[l] = Nothing
    /\ \A l \in 1..lim.layers : rs.run[l] # Nothing => R[l] \in RunType /\ RunOK(R[l], ses) /\ R[l].id = rs.run[l].id

(* A round stays sound when its runs become others of the same tickets.    *)
LEMMA RunsChange ==
    ASSUME NEW rs, NEW ses, NEW lim, RoundOK(rs, ses, lim), NEW R, RunsKeep(rs, R, ses, lim)
    PROVE  LET q == [rs EXCEPT !.run = R]
           IN RoundOK(q, ses, lim) /\ q.run = R /\ q.loop = rs.loop /\ q.tickets = rs.tickets
<1> DEFINE q == [rs EXCEPT !.run = R]
<1> USE DEF RunsKeep
<1>1. /\ DOMAIN q = {"run", "contract", "loop", "tickets"} /\ q.run = R /\ q.loop = rs.loop /\ q.tickets = rs.tickets
      /\ q.contract = rs.contract
  BY DEF RoundOK
<1> HIDE DEF q
<1>2. \A l \in 1..lim.layers : q.run[l] # Nothing =>
          /\ q.run[l] \in RunType /\ RunOK(q.run[l], ses) /\ q.run[l].id <= q.tickets
          /\ q.contract \in 0..lim.rules /\ q.loop # "reimplementing"
  BY <1>1 DEF RoundOK
<1>3. \A k, l \in 1..lim.layers : q.run[k] # Nothing /\ q.run[l] # Nothing /\ q.run[k].id = q.run[l].id => k = l
  <2>1. SUFFICES ASSUME NEW k \in 1..lim.layers, NEW l \in 1..lim.layers, R[k] # Nothing, R[l] # Nothing, R[k].id = R[l].id
                 PROVE k = l
    BY <1>1
  <2>2. /\ rs.run[k] # Nothing /\ rs.run[l] # Nothing
        /\ rs.run[k].id = rs.run[l].id
    BY <2>1
  <2> QED
    BY <2>2 DEF RoundOK
<1>4. DOMAIN q.run = 1..lim.layers /\ q.run = [l \in 1..lim.layers |-> q.run[l]]
  BY <1>1
<1> QED
  BY <1>1, <1>2, <1>3, <1>4 DEF RoundOK, q

(* A run bound to a session that holds its ticket and is younger than it   *)
(* is sound.                                                               *)
LEMMA BoundRun ==
    ASSUME NEW ses, NEW r \in RunType, RunOK(r, ses), NEW s \in Reviewers, ses[s] # Nothing, ses[s].ticket = r.id,
           s \notin r.known, r.status = "running"
    PROVE  LET q == [r EXCEPT !.by = s]
           IN q \in RunType /\ RunOK(q, ses) /\ q.id = r.id /\ q.found = r.found /\ q.on = r.on
<1> DEFINE q == [r EXCEPT !.by = s]
<1>1. /\ q \in RunType /\ q.by = s /\ q.id = r.id /\ q.found = r.found /\ q.on = r.on /\ q.status = r.status
      /\ q.known = r.known /\ q.text = r.text /\ q.from = r.from
  BY DEF RunType
<1> HIDE DEF q
<1>2. RunOK(q, ses)
  BY <1>1 DEF RunOK
<1> QED
  BY <1>1, <1>2 DEF q

(* auto_bind keeps the round sound and the conflicts on record.            *)
LEMMA AutoBoundOK ==
    ASSUME IInv, NEW ses, RoundOK(reviews, ses, limits), NEW s \in Reviewers, NEW ss, NEW observed,
           ses[s] # Nothing, ses[s].ticket = ss.ticket
    PROVE  LET rs == AutoBound(ss, s, observed)
           IN RoundOK(rs, ses, limits) /\ \A i : Contested(reviews, consent, limits, i) => Contested(rs, consent, limits, i)
<1> DEFINE R == [l \in Active |-> IF observed /\ Bindable(ss, s, l) THEN [reviews.run[l] EXCEPT !.by = s] ELSE reviews.run[l]]
           rs == [reviews EXCEPT !.run = R]
<1>1. AutoBound(ss, s, observed) = rs
  BY ReviewFacts DEF AutoBound
<1>2. ASSUME NEW l \in Active
      PROVE  /\ reviews.run[l] = Nothing => R[l] = Nothing
             /\ reviews.run[l] # Nothing => /\ R[l] \in RunType /\ RunOK(R[l], ses) /\ R[l].id = reviews.run[l].id
                                            /\ R[l].found = reviews.run[l].found /\ R[l].on = reviews.run[l].on
                                            /\ R[l] # Nothing
  <2>1. CASE observed /\ Bindable(ss, s, l)
    <3>1. /\ reviews.run[l] # Nothing /\ reviews.run[l].status = "running" /\ s \notin reviews.run[l].known
          /\ ss.ticket = reviews.run[l].id
      BY <2>1 DEF Bindable
    <3>2. reviews.run[l] \in RunType /\ RunOK(reviews.run[l], ses)
      BY <3>1 DEF RoundOK, Active
    <3>3. R[l] = [reviews.run[l] EXCEPT !.by = s]
      BY <2>1
    <3> HIDE DEF R
    <3> QED
      BY <3>1, <3>2, <3>3, BoundRun, ReviewsAssumption
  <2>2. CASE ~(observed /\ Bindable(ss, s, l))
    <3>1. R[l] = reviews.run[l]
      BY <2>2
    <3> HIDE DEF R
    <3> QED
      BY <3>1 DEF RoundOK, Active
  <2> QED
    BY <2>1, <2>2
<1>3. R = [l \in Active |-> R[l]]
  OBVIOUS
<1> HIDE DEF R
<1>4. RoundOK(rs, ses, limits) /\ rs.run = R /\ rs.loop = reviews.loop
  <2>1. RunsKeep(reviews, R, ses, limits)
    BY <1>2, <1>3 DEF Active, RunsKeep
  <2> QED
    BY <2>1, RunsChange
<1> HIDE DEF rs
<1>5. \A i : Contested(reviews, consent, limits, i) => Contested(rs, consent, limits, i)
  BY <1>2, <1>4 DEF Contested, Active
<1> QED
  BY <1>1, <1>4, <1>5

(* A session is registered or comes again (observe): it gets the ticket of *)
(* its marker, once, and never one it is older than.                       *)
LEMMA StartsStep ==
    ASSUME IInv, NEW s \in Reviewers, NEW l \in 0..limits.layers, NEW observed \in BOOLEAN, Starts(s, l, observed)
    PROVE  IInv'
<1> DEFINE old == IF session[s] # Nothing THEN session[s]
                  ELSE [ticket |-> 0, alive |-> TRUE, out |-> Nothing, message |-> Nothing, recovered |-> Nothing,
                        stored |-> {}, files |-> {}, said |-> {}, born |-> reviews.tickets]
           ticket == IF old.ticket = 0 /\ l \in Started(reviews) /\ s \notin reviews.run[l].known
                     THEN reviews.run[l].id ELSE old.ticket
           new == [old EXCEPT !.alive = TRUE, !.ticket = ticket]
           next == [session EXCEPT ![s] = new]
<1>1. session' = next /\ reviews' = AutoBound(new, s, observed) /\ UNCHANGED <<product, consent, talk, limits>>
  BY DEF Starts
<1>2. SessionOK(old) /\ (session[s] = Nothing => old.born = reviews.tickets) /\ (session[s] # Nothing => old = session[s])
  <2>1. CASE session[s] # Nothing
    BY <2>1, ReviewFacts
  <2>2. CASE session[s] = Nothing
    BY <2>2, ReviewFacts DEF SessionOK, SessionType
  <2> QED
    BY <2>1, <2>2
<1> HIDE DEF old
<1>3. ticket \in Nat /\ (old.ticket # 0 => ticket = old.ticket)
  BY <1>2, ReviewFacts DEF SessionOK, SessionType, Started, RunType
<1> HIDE DEF ticket
<1>4. /\ new \in SessionType /\ new.ticket = ticket /\ new.said = old.said /\ new.born = old.born /\ new.files = old.files
      /\ new.out = old.out /\ new.message = old.message
  BY <1>2, <1>3 DEF SessionOK, SessionType
<1> HIDE DEF new
<1>5. SessionOK(new) /\ new # Nothing
  BY <1>2, <1>4, ReviewsAssumption DEF SessionOK
<1>6. /\ next = [x \in Reviewers |-> next[x]] /\ next[s] = new /\ \A x \in Reviewers \ {s} : next[x] = session[x]
      /\ DOMAIN next = Reviewers
  BY ReviewFacts
<1> HIDE DEF next
<1>7. SessionsOK(next)
  BY <1>5, <1>6, ReviewFacts DEF SessionsOK
<1>8. SessionsGrow(session, next, reviews.tickets)
  BY <1>2, <1>3, <1>4, <1>5, <1>6 DEF SessionsGrow
<1>9. RoundOK(reviews, next, limits)
  BY <1>8, InvariantFacts, ReviewFacts, RoundGrows
<1>10. RoundOK(reviews', next, limits) /\ \A i : Contested(reviews, consent, limits, i) => Contested(reviews', consent, limits, i)
  BY <1>1, <1>5, <1>6, <1>9, AutoBoundOK
<1>11. ConflictOK(reviews', talk, consent, limits)
  BY <1>10, ReviewFacts DEF ConflictOK
<1> QED
  BY <1>1, <1>7, <1>10, <1>11, ReviewStep, SameTalk

(* cao sdd review attach (delegated_reviewer).                             *)
LEMMA AttachStep == ASSUME IInv, NEW s \in Reviewers, NEW l \in Active, Attach(s, l) PROVE IInv'
<1> DEFINE r == [reviews.run[l] EXCEPT !.by = s]
           R == [reviews.run EXCEPT ![l] = r]
           rs == [reviews EXCEPT !.run = R]
<1>1. /\ reviews.run[l] # Nothing /\ reviews.run[l].status = "running" /\ s \notin reviews.run[l].known
      /\ session[s] # Nothing /\ session[s].ticket = reviews.run[l].id /\ UNCHANGED <<product, consent, talk, limits, session>>
  BY DEF Attach, Bindable
<1>2. reviews' = rs
  BY ReviewFacts DEF Attach
<1>3. r \in RunType /\ RunOK(r, session) /\ r.id = reviews.run[l].id /\ r.found = reviews.run[l].found /\ r.on = reviews.run[l].on
  BY <1>1, ReviewFacts, BoundRun
<1>4. r # Nothing
  BY <1>3, ReviewsAssumption
<1> HIDE DEF r
<1>5. R = [k \in Active |-> R[k]] /\ R[l] = r /\ \A k \in Active \ {l} : R[k] = reviews.run[k]
  BY ReviewFacts
<1> HIDE DEF R
<1>6. RoundOK(rs, session, limits) /\ rs.run = R /\ rs.loop = reviews.loop
  <2>1. RunsKeep(reviews, R, session, limits)
    BY <1>1, <1>3, <1>5, ReviewFacts DEF Active, RunsKeep
  <2> QED
    BY <2>1, ReviewFacts, RunsChange
<1> HIDE DEF rs
<1>7. \A i : Contested(reviews, consent, limits, i) => Contested(rs, consent, limits, i)
  BY <1>3, <1>4, <1>5, <1>6 DEF Contested, Active
<1>8. ConflictOK(rs, talk, consent, limits)
  BY <1>7, ReviewFacts DEF ConflictOK
<1> QED
  BY <1>1, <1>2, <1>6, <1>8, ReviewFacts, ReviewStep, SameTalk

(* A session that keeps its ticket and its birth, and says more, keeps the *)
(* round sound.                                                            *)
LEMMA SessionChange ==
    ASSUME IInv, NEW s \in Reviewers, session[s] # Nothing, NEW new, SessionOK(new), new.born = session[s].born,
           new.ticket = session[s].ticket, session[s].said \subseteq new.said
    PROVE  LET next == [session EXCEPT ![s] = new]
           IN SessionsOK(next) /\ RoundOK(reviews, next, limits) /\ next[s] = new /\ new # Nothing
<1> DEFINE next == [session EXCEPT ![s] = new]
<1>1. new # Nothing
  BY ReviewsAssumption DEF SessionOK
<1>2. /\ next = [x \in Reviewers |-> next[x]] /\ next[s] = new /\ \A x \in Reviewers \ {s} : next[x] = session[x]
      /\ DOMAIN next = Reviewers
  BY ReviewFacts
<1> HIDE DEF next
<1>3. SessionsOK(next)
  BY <1>2, ReviewFacts DEF SessionsOK
<1>4. SessionsGrow(session, next, reviews.tickets)
  BY <1>1, <1>2 DEF SessionsGrow
<1>5. RoundOK(reviews, next, limits)
  BY <1>4, InvariantFacts, ReviewFacts, RoundGrows
<1> QED
  BY <1>1, <1>2, <1>3, <1>5 DEF next

(* A session's last message is kept, and filed the first time its ticket's *)
(* owner sends it.                                                         *)
LEMMA ReportsStep ==
    ASSUME IInv, NEW s \in Reviewers, NEW text \in Texts, NEW observed \in BOOLEAN, NEW ends \in BOOLEAN,
           Reports(s, text, observed, ends)
    PROVE  IInv'
<1> DEFINE rs == AutoBound(session[s], s, observed)
           sent == Message(rs, session[s], s, text)
           alive == ~ends
           new == [sent EXCEPT !.alive = alive]
           next == [session EXCEPT ![s] = new]
<1>1. session[s] # Nothing /\ reviews' = rs /\ session' = next /\ UNCHANGED <<product, consent, talk, limits>>
  BY DEF Reports
<1> HIDE DEF rs
<1>2. SessionOK(session[s])
  BY <1>1, ReviewFacts
<1>3. SessionOK(sent) /\ sent.born = session[s].born /\ sent.ticket = session[s].ticket /\ session[s].said \subseteq sent.said
  <2> DEFINE said == session[s].said \cup {text}
             stored == session[s].stored \cup {text}
  <2>1. \/ sent = [session[s] EXCEPT !.said = said]
        \/ sent = [session[s] EXCEPT !.said = said, !.out = text, !.message = text, !.stored = stored]
        \/ sent = [session[s] EXCEPT !.said = said, !.out = text]
    BY DEF Message
  <2>2. session[s] \in SessionType /\ said \in SUBSET Texts /\ stored \in SUBSET Texts /\ text \in said /\ session[s].said \subseteq said
    BY <1>2 DEF SessionOK, SessionType
  <2> HIDE DEF sent, said, stored
  <2>3. CASE sent = [session[s] EXCEPT !.said = said]
    BY <1>2, <2>2, <2>3 DEF SessionOK, SessionType
  <2>4. CASE sent = [session[s] EXCEPT !.said = said, !.out = text, !.message = text, !.stored = stored]
    BY <1>2, <2>2, <2>4 DEF SessionOK, SessionType
  <2>5. CASE sent = [session[s] EXCEPT !.said = said, !.out = text]
    BY <1>2, <2>2, <2>5 DEF SessionOK, SessionType
  <2> QED
    BY <2>1, <2>3, <2>4, <2>5
<1>4. alive \in BOOLEAN
  OBVIOUS
<1> HIDE DEF sent, alive
<1>5. SessionOK(new) /\ new.born = session[s].born /\ new.ticket = session[s].ticket /\ session[s].said \subseteq new.said
  BY <1>3, <1>4 DEF SessionOK, SessionType
<1> HIDE DEF new
<1>6. SessionsOK(next) /\ RoundOK(reviews, next, limits) /\ next[s] = new /\ new # Nothing
  BY <1>1, <1>5, SessionChange
<1> HIDE DEF next
<1>7. RoundOK(rs, next, limits) /\ \A i : Contested(reviews, consent, limits, i) => Contested(rs, consent, limits, i)
  BY <1>5, <1>6, AutoBoundOK DEF rs
<1>8. ConflictOK(rs, talk, consent, limits)
  BY <1>7, ReviewFacts DEF ConflictOK
<1> QED
  BY <1>1, <1>6, <1>7, <1>8, ReviewStep, SameTalk

(* collect_written_artifact: the file's bytes were written by the session. *)
LEMMA DeliversStep == ASSUME IInv, NEW s \in Reviewers, NEW text \in Texts, Delivers(s, text) PROVE IInv'
<1> DEFINE said == session[s].said \cup {text}
           files == session[s].files \cup {text}
           new == [session[s] EXCEPT !.files = files, !.said = said]
           next == [session EXCEPT ![s] = new]
<1>1. session[s] # Nothing /\ UNCHANGED <<product, consent, talk, limits, reviews>>
  BY DEF Delivers
<1>2. session' = next
  BY <1>1, ReviewFacts DEF Delivers, SessionOK, SessionType
<1>3. SessionOK(session[s])
  BY <1>1, ReviewFacts
<1>4. said \in SUBSET Texts /\ files \in SUBSET Texts /\ files \subseteq said /\ session[s].said \subseteq said
  BY <1>3 DEF SessionOK, SessionType
<1> HIDE DEF said, files
<1>5. SessionOK(new) /\ new.born = session[s].born /\ new.ticket = session[s].ticket /\ session[s].said \subseteq new.said
  BY <1>3, <1>4 DEF SessionOK, SessionType
<1> HIDE DEF new
<1>6. SessionsOK(next) /\ RoundOK(reviews, next, limits)
  BY <1>1, <1>5, SessionChange
<1> QED
  BY <1>1, <1>2, <1>6, ReviewFacts, ReviewStep, SameTalk

(* recover_message: what is filed again is the message that was observed.  *)
LEMMA RecoverStep == ASSUME IInv, NEW l \in Active, Recover(l) PROVE IInv'
<1> DEFINE s == reviews.run[l].by
           new == [session[s] EXCEPT !.message = session[s].out, !.recovered = session[s].out]
           next == [session EXCEPT ![s] = new]
<1>1. /\ session[s].out # Nothing /\ reviews.run[l] # Nothing /\ s # Nothing
      /\ UNCHANGED <<product, consent, talk, limits, reviews>>
  BY DEF Recover
<1>2. s \in Reviewers /\ session[s] # Nothing
  BY <1>1, ReviewFacts DEF RunType, RunOK
<1>3. SessionOK(session[s])
  BY <1>2, ReviewFacts
<1>4. session' = next
  BY <1>2, <1>3, ReviewFacts DEF Recover, SessionOK, SessionType
<1> HIDE DEF s
<1>5. SessionOK(new) /\ new.born = session[s].born /\ new.ticket = session[s].ticket /\ session[s].said \subseteq new.said
  BY <1>1, <1>3 DEF SessionOK, SessionType
<1> HIDE DEF new
<1>6. SessionsOK(next) /\ RoundOK(reviews, next, limits)
  BY <1>2, <1>5, SessionChange
<1> QED
  BY <1>1, <1>4, <1>6, ReviewFacts, ReviewStep, SameTalk

(* A round stays sound when one run becomes another of the same ticket.    *)
LEMMA RunChange ==
    ASSUME IInv, NEW l \in Active, reviews.run[l] # Nothing, NEW r \in RunType, RunOK(r, session), r.id = reviews.run[l].id
    PROVE  LET rs == [reviews EXCEPT !.run = [reviews.run EXCEPT ![l] = r]]
           IN /\ RoundOK(rs, session, limits) /\ rs.loop = reviews.loop /\ rs.run[l] = r /\ r # Nothing
              /\ \A k \in Active \ {l} : rs.run[k] = reviews.run[k]
<1> DEFINE R == [reviews.run EXCEPT ![l] = r]
           rs == [reviews EXCEPT !.run = R]
<1>1. R = [k \in Active |-> R[k]] /\ R[l] = r /\ \A k \in Active \ {l} : R[k] = reviews.run[k]
  BY ReviewFacts
<1> HIDE DEF R
<1>2. RunsKeep(reviews, R, session, limits)
  BY <1>1, ReviewFacts DEF Active, RunsKeep
<1>3. RoundOK(rs, session, limits) /\ rs.run = R /\ rs.loop = reviews.loop
  BY <1>2, ReviewFacts, RunsChange
<1> QED
  BY <1>1, <1>3, ReviewsAssumption DEF R

(* A file of a run's evidence is changed, or put back.                     *)
LEMMA DamageStep == ASSUME IInv, NEW l \in Active, Damage(l) PROVE IInv'
<1> DEFINE kept == ~reviews.run[l].kept
           r == [reviews.run[l] EXCEPT !.kept = kept]
           rs == [reviews EXCEPT !.run = [reviews.run EXCEPT ![l] = r]]
<1>1. reviews.run[l] # Nothing /\ UNCHANGED <<product, consent, talk, limits, session>>
  BY DEF Damage
<1>2. reviews.run[l] \in RunType /\ RunOK(reviews.run[l], session)
  BY <1>1, ReviewFacts
<1>3. reviews' = rs
  BY <1>1, <1>2, ReviewFacts DEF Damage, RunType
<1>4. kept \in BOOLEAN
  OBVIOUS
<1> HIDE DEF kept
<1>5. /\ r \in RunType /\ r.id = reviews.run[l].id /\ r.by = reviews.run[l].by /\ r.status = reviews.run[l].status
      /\ r.known = reviews.run[l].known /\ r.text = reviews.run[l].text /\ r.found = reviews.run[l].found
      /\ r.on = reviews.run[l].on /\ r.from = reviews.run[l].from
  BY <1>2, <1>4 DEF RunType
<1> HIDE DEF r
<1>6. RunOK(r, session)
  BY <1>2, <1>5 DEF RunOK
<1>7. /\ RoundOK(rs, session, limits) /\ rs.loop = reviews.loop /\ rs.run[l] = r /\ r # Nothing
      /\ \A k \in Active \ {l} : rs.run[k] = reviews.run[k]
  BY <1>1, <1>5, <1>6, RunChange
<1> HIDE DEF rs
<1>8. \A i : Contested(reviews, consent, limits, i) => Contested(rs, consent, limits, i)
  BY <1>5, <1>7 DEF Contested, Active
<1>9. ConflictOK(rs, talk, consent, limits)
  BY <1>8, ReviewFacts DEF ConflictOK
<1> QED
  BY <1>1, <1>3, <1>7, <1>9, ReviewFacts, ReviewStep, SameTalk

-----------------------------------------------------------------------------
(* Tickets.                                                                *)

(* The record rs is a round, and of the conflicts on record only those     *)
(* with another intent are gone.                                           *)
Good(rs) ==
    /\ RoundOK(rs, session, limits)
    /\ Holding(rs) \subseteq Holding(reviews)
    /\ limits.build = "dispatch" =>
          \A i \in talk.conflicts \ talk.retired :
             Contested(rs, consent, limits, i) \/ (i # product.intent /\ i \in Holding(reviews))

(* The record is good now.                                                 *)
LEMMA GoodNow == ASSUME IInv PROVE Good(reviews)
  BY ReviewFacts DEF Good, ConflictOK

(* To become a good record keeps the invariant: the conflicts that are put *)
(* away are retired.                                                       *)
LEMMA BecomesStep == ASSUME IInv, NEW rs, Good(rs), Becomes(rs) PROVE IInv'
<1> DEFINE retired == talk.retired \cup (Holding(reviews) \ (Holding(rs) \cup {product.intent}))
           t == [talk EXCEPT !.retired = retired]
<1>1. talk' = t /\ reviews' = rs /\ UNCHANGED <<product, consent, limits, session>>
  BY DEF Becomes
<1>2. \A i \in talk.conflicts \ retired :
         i \in talk.conflicts \ talk.retired /\ (i # product.intent /\ i \in Holding(reviews) => i \in Holding(rs))
  OBVIOUS
<1> HIDE DEF retired
<1>3. OnlyConflicts(t) /\ t.conflicts = talk.conflicts /\ t.retired = retired
  BY InvariantFacts DEF OnlyConflicts
<1> HIDE DEF t
<1>4. \A i \in Holding(rs) : Contested(rs, consent, limits, i)
  BY DEF Holding, Started, Active, Contested
<1>5. ConflictOK(rs, t, consent, limits)
  BY <1>2, <1>3, <1>4 DEF ConflictOK, Good
<1> QED
  BY <1>1, <1>3, <1>5, ReviewFacts, ReviewStep DEF Good

(* A new ticket is sound: every session there is, is older than it.        *)
LEMMA NewRunOK ==
    ASSUME IInv, NEW rs, rs.tickets \in Nat, consent.route # Nothing
    PROVE  LET r == NewRun(rs)
           IN r \in RunType /\ RunOK(r, session) /\ r # Nothing /\ r.id = rs.tickets + 1 /\ r.found = {}
<1> DEFINE on == Inputs(consent.route.rules)
           known == {s \in Reviewers : session[s] # Nothing}
           r == [id |-> rs.tickets + 1, status |-> "running", on |-> on, from |-> on, known |-> known, by |-> Nothing,
                 text |-> Nothing, found |-> {}, kept |-> TRUE]
<1>1. NewRun(rs) = r
  BY DEF NewRun
<1>2. on \in [code : Nat, intent : Nat, rules : Nat]
  BY InvariantFacts DEF Inputs, ConsentOK, Routes
<1>3. known \in SUBSET Reviewers /\ \A s \in Reviewers : session[s] # Nothing => s \in known
  OBVIOUS
<1> HIDE DEF on, known
<1>4. r \in RunType /\ r.id = rs.tickets + 1 /\ r.found = {} /\ r.status = "running" /\ r.by = Nothing /\ r.known = known
  BY <1>2, <1>3 DEF RunType
<1> HIDE DEF r
<1>5. RunOK(r, session)
  BY <1>3, <1>4 DEF RunOK
<1> QED
  BY <1>1, <1>4, <1>5, ReviewsAssumption

(* A ticket that is not refused keeps the record good: a restart is        *)
(* refused while a run is in conflict with the intent, and a round after a *)
(* loopback waits for the approval.                                        *)
LEMMA BegunOK ==
    ASSUME IInv, consent.route # Nothing, NEW rs, Good(rs), NEW l \in Active, NEW restart \in BOOLEAN, NEW reason \in BOOLEAN,
           ~Refusal(rs, l, restart, reason),
           ~(restart /\ \E k \in Started(rs) : "conflict" \in rs.run[k].found /\ rs.run[k].on.intent = product.intent)
    PROVE  Good(Begun(rs, l, restart))
<1> DEFINE stay == IF restart /\ Stale(rs) THEN [k \in Active |-> Nothing] ELSE rs.run
           loop == IF rs.loop = "reimplementing" THEN "reviewing" ELSE rs.loop
           runs == IF Reused(rs, l, restart) THEN stay ELSE [stay EXCEPT ![l] = NewRun(rs)]
           tickets == IF Reused(rs, l, restart) THEN rs.tickets ELSE rs.tickets + 1
           q == [run |-> runs, contract |-> consent.route.rules, loop |-> loop, tickets |-> tickets]
<1>1. Begun(rs, l, restart) = q
  BY DEF Begun
<1>2. /\ RoundOK(rs, session, limits) /\ limits.tickets \in Nat /\ rs.tickets \in Nat /\ rs.tickets \in 0..limits.tickets
      /\ consent.route.rules \in 0..limits.rules
  <2>1. limits.tickets \in Nat
    BY InvariantFacts, LimitsTyped
  <2>2. RoundOK(rs, session, limits) /\ rs.tickets \in 0..limits.tickets
    BY DEF Good, RoundOK
  <2>3. consent.route.rules \in 0..limits.rules
    BY InvariantFacts DEF ConsentOK
  <2> QED
    BY <2>1, <2>2, <2>3
<1>3. loop \in {"none", "reviewing"}
  BY <1>2 DEF RoundOK
<1>4. \A k \in Active : rs.run[k] # Nothing => /\ rs.run[k] \in RunType /\ RunOK(rs.run[k], session)
                                               /\ rs.run[k].id <= rs.tickets /\ rs.loop # "reimplementing"
  BY <1>2 DEF RoundOK, Active
<1>5. rs.run = [k \in Active |-> rs.run[k]]
  BY <1>2 DEF RoundOK, Active
<1>6. \A k, m \in Active : rs.run[k] # Nothing /\ rs.run[m] # Nothing /\ rs.run[k].id = rs.run[m].id => k = m
  BY <1>2 DEF RoundOK, Active
<1>7. \/ stay = rs.run
      \/ restart /\ stay = [k \in Active |-> Nothing]
  OBVIOUS
<1> HIDE DEF stay, loop
<1>8. stay = [k \in Active |-> stay[k]] /\ \A k \in Active : stay[k] = rs.run[k] \/ stay[k] = Nothing
  BY <1>5, <1>7
<1>9. CASE Reused(rs, l, restart)
  <2>1. /\ runs = rs.run /\ tickets = rs.tickets /\ rs.run[l] # Nothing
    BY <1>7, <1>9 DEF Reused
  <2>2. rs.loop # "reimplementing" /\ loop = rs.loop
    BY <1>4, <2>1 DEF loop
  <2> HIDE DEF runs, tickets
  <2>3. DOMAIN q = {"run", "contract", "loop", "tickets"} /\ q.run = rs.run /\ q.contract = consent.route.rules
        /\ q.loop = rs.loop /\ q.tickets = rs.tickets
    BY <2>1, <2>2
  <2> HIDE DEF q
  <2>4. RoundOK(q, session, limits)
    <3>1. \A k \in Active : q.run[k] # Nothing =>
             /\ q.run[k] \in RunType /\ RunOK(q.run[k], session) /\ q.run[k].id <= q.tickets
             /\ q.contract \in 0..limits.rules /\ q.loop # "reimplementing"
      BY <1>2, <1>4, <2>2, <2>3
    <3>2. q.tickets \in 0..limits.tickets /\ q.loop \in {"none", "reimplementing", "reviewing"}
      BY <1>2, <1>3, <2>2, <2>3
    <3>3. DOMAIN q.run = 1..limits.layers /\ q.run = [k \in 1..limits.layers |-> q.run[k]]
      BY <1>5, <2>3 DEF Active
    <3>4. \A k \in 1..limits.layers : q.run[k] # Nothing =>
             /\ q.run[k] \in RunType /\ RunOK(q.run[k], session) /\ q.run[k].id <= q.tickets
             /\ q.contract \in 0..limits.rules /\ q.loop # "reimplementing"
      BY <3>1 DEF Active
    <3>5. \A k, m \in 1..limits.layers : q.run[k] # Nothing /\ q.run[m] # Nothing /\ q.run[k].id = q.run[m].id => k = m
      BY <1>6, <2>3 DEF Active
    <3>6. q.contract \in {Nothing} \cup (0..limits.rules)
      BY <1>2, <2>3
    <3> QED
      BY <2>3, <3>2, <3>3, <3>4, <3>5, <3>6, Zenon DEF RoundOK
  <2>5. \A i : Contested(rs, consent, limits, i) => Contested(q, consent, limits, i)
    BY <2>3 DEF Contested
  <2>6. Holding(q) = Holding(rs)
    BY <2>3 DEF Holding, Started
  <2> QED
    BY <1>1, <2>4, <2>5, <2>6 DEF Good
<1>10. CASE ~Reused(rs, l, restart)
  <2> DEFINE r == NewRun(rs)
  <2>1. r \in RunType /\ RunOK(r, session) /\ r # Nothing /\ r.id = rs.tickets + 1 /\ r.found = {}
    BY <1>2, NewRunOK
  <2>2. runs = [stay EXCEPT ![l] = r] /\ tickets = rs.tickets + 1
    BY <1>10
  <2>3. rs.tickets # limits.tickets /\ tickets \in 0..limits.tickets
    BY <1>2, <1>10, <2>2 DEF Refusal
  <2>4. ~restart => rs.run[l] = Nothing
    BY <1>10 DEF Refusal
  <2> HIDE DEF runs, tickets, r
  <2>5. runs = [k \in Active |-> runs[k]] /\ runs[l] = r /\ \A k \in Active \ {l} : runs[k] = stay[k]
    BY <1>8, <2>2
  <2>6. DOMAIN q = {"run", "contract", "loop", "tickets"} /\ q.run = runs /\ q.contract = consent.route.rules
        /\ q.loop = loop /\ q.tickets = tickets
    OBVIOUS
  <2> HIDE DEF q
  <2>7. \A k \in Active : q.run[k] # Nothing => /\ q.run[k] \in RunType /\ RunOK(q.run[k], session) /\ q.run[k].id <= q.tickets
    <3>1. TAKE k \in Active
    <3>2. HAVE q.run[k] # Nothing
    <3>3. CASE k = l
      BY <1>2, <2>1, <2>2, <2>5, <2>6, <3>3
    <3>4. CASE k # l
      <4>1. q.run[k] = rs.run[k] /\ rs.run[k] # Nothing
        BY <1>8, <2>5, <2>6, <3>2, <3>4
      <4>2. rs.run[k].id \in Nat
        BY <1>4, <4>1 DEF RunType
      <4> QED
        BY <1>2, <1>4, <2>2, <2>6, <4>1, <4>2
    <3> QED
      BY <3>3, <3>4
  <2>8. \A k, m \in Active : q.run[k] # Nothing /\ q.run[m] # Nothing /\ q.run[k].id = q.run[m].id => k = m
    <3>1. TAKE k, m \in Active
    <3>2. HAVE q.run[k] # Nothing /\ q.run[m] # Nothing /\ q.run[k].id = q.run[m].id
    <3>3. \A x \in Active \ {l} : q.run[x] # Nothing =>
             q.run[x] = rs.run[x] /\ rs.run[x] # Nothing /\ rs.run[x].id \in Nat /\ rs.run[x].id <= rs.tickets
      BY <1>4, <1>8, <2>5, <2>6 DEF RunType
    <3>4. q.run[l].id = rs.tickets + 1
      BY <2>1, <2>5, <2>6
    <3>5. CASE k = l \/ m = l
      BY <1>2, <3>2, <3>3, <3>4, <3>5
    <3>6. CASE k # l /\ m # l
      BY <1>6, <3>2, <3>3, <3>6
    <3> QED
      BY <3>5, <3>6
  <2>9. RoundOK(q, session, limits)
    BY <1>2, <1>3, <2>2, <2>3, <2>5, <2>6, <2>7, <2>8 DEF RoundOK, Active
  <2>10. Holding(q) \subseteq Holding(rs)
    BY <1>8, <2>1, <2>5, <2>6 DEF Holding, Started
  <2>11. ASSUME limits.build = "dispatch", NEW i \in talk.conflicts \ talk.retired, ~(i # product.intent /\ i \in Holding(reviews))
         PROVE  Contested(q, consent, limits, i)
    <3>1. Contested(rs, consent, limits, i)
      BY <2>11 DEF Good
    <3>2. ~(rs.loop = "reimplementing" /\ (consent.approval # Nothing => consent.approval.status = "pending"))
      BY <2>11 DEF Refusal, RouteReady, Granted
    <3>3. PICK k \in Active : rs.run[k] # Nothing /\ "conflict" \in rs.run[k].found /\ rs.run[k].on.intent = i
      BY <3>1, <3>2 DEF Contested, Active
    <3>4. i \in Holding(reviews)
      BY <3>3 DEF Good, Holding, Started
    <3>5. ~restart /\ k # l
      BY <2>4, <2>11, <3>3, <3>4 DEF Started
    <3>6. q.run[k] = rs.run[k]
      BY <1>7, <2>5, <2>6, <3>5
    <3> QED
      BY <3>3, <3>6 DEF Contested, Active
  <2> QED
    BY <1>1, <2>9, <2>10, <2>11 DEF Good
<1> QED
  BY <1>9, <1>10

(* So does begin_review, refused or not.                                   *)
LEMMA BeginOK ==
    ASSUME IInv, consent.route # Nothing, NEW rs, rs = Nothing \/ Good(rs), NEW l \in Active, NEW restart \in BOOLEAN,
           NEW reason \in BOOLEAN
    PROVE  Begin(rs, l, restart, reason) = Nothing \/ Good(Begin(rs, l, restart, reason))
<1>1. \/ Begin(rs, l, restart, reason) = Nothing
      \/ /\ rs # Nothing /\ ~Refusal(rs, l, restart, reason)
         /\ ~(restart /\ \E k \in Started(rs) : "conflict" \in rs.run[k].found /\ rs.run[k].on.intent = product.intent)
         /\ Begin(rs, l, restart, reason) = Begun(rs, l, restart)
  BY DEF Begin
<1> QED
  BY <1>1, BegunOK

(* cao sdd review begin.                                                   *)
LEMMA BeginLayerStep ==
    ASSUME IInv, NEW l \in Active, NEW restart \in BOOLEAN, NEW reason \in BOOLEAN, BeginLayer(l, restart, reason)
    PROVE  IInv'
<1>1. Begin(reviews, l, restart, reason) = Nothing \/ Good(Begin(reviews, l, restart, reason))
  BY GoodNow, BeginOK DEF BeginLayer
<1>2. Begin(reviews, l, restart, reason) # Nothing
  BY DEF BeginLayer, Becomes
<1> QED
  BY <1>1, <1>2, BecomesStep DEF BeginLayer

(* The rounds of a preparation, layer by layer up to n.                    *)
Rounds(n, restart, reason, round) ==
    round = [l \in 0..n |-> IF l = 0 THEN reviews ELSE Begin(round[l - 1], l, restart, reason)]

(* There are such rounds, however many layers there are: what Prepare's    *)
(* recursive definition needs to define anything.                          *)
LEMMA RoundsExist == ASSUME NEW restart, NEW reason PROVE \A n \in Nat : \E round : Rounds(n, restart, reason, round)
<1> DEFINE S == {n \in Nat : \E round : Rounds(n, restart, reason, round)}
<1>1. 0 \in S
  <2> DEFINE round == [l \in 0..0 |-> reviews]
  <2>1. Rounds(0, restart, reason, round)
    BY DEF Rounds
  <2> QED
    BY <2>1
<1>2. \A n \in S : n + 1 \in S
  <2>1. TAKE n \in S
  <2>2. PICK round : Rounds(n, restart, reason, round)
    OBVIOUS
  <2> DEFINE last == Begin(round[n], n + 1, restart, reason)
             next == [l \in 0..(n + 1) |-> IF l = n + 1 THEN last ELSE round[l]]
  <2>3. n \in Nat /\ n + 1 \in 0..(n + 1) /\ n \in 0..(n + 1) /\ \A l \in 0..(n + 1) : l # n + 1 => l \in 0..n
    OBVIOUS
  <2>4. \A l \in 0..n : round[l] = IF l = 0 THEN reviews ELSE Begin(round[l - 1], l, restart, reason)
    BY <2>2 DEF Rounds
  <2>5. \A l \in 0..(n + 1) : next[l] = IF l = 0 THEN reviews ELSE Begin(next[l - 1], l, restart, reason)
    <3>1. TAKE l \in 0..(n + 1)
    <3>2. CASE l = n + 1
      <4>1. next[l] = last /\ next[l - 1] = round[n] /\ l # 0
        BY <2>3, <3>2
      <4> QED
        BY <3>2, <4>1
    <3>3. CASE l # n + 1 /\ l = 0
      BY <2>3, <2>4, <3>3
    <3>4. CASE l # n + 1 /\ l # 0
      <4>1. l \in 0..n /\ l - 1 \in 0..(n + 1) /\ l - 1 # n + 1
        BY <2>3, <3>4
      <4>2. next[l] = round[l] /\ next[l - 1] = round[l - 1]
        BY <3>4, <4>1
      <4> QED
        BY <2>4, <3>4, <4>1, <4>2
    <3> QED
      BY <3>2, <3>3, <3>4
  <2>6. next = [l \in 0..(n + 1) |-> next[l]]
    OBVIOUS
  <2> HIDE DEF next
  <2>7. Rounds(n + 1, restart, reason, next)
    BY <2>5, <2>6 DEF Rounds
  <2> QED
    BY <2>3, <2>7
<1>3. S \in SUBSET Nat
  OBVIOUS
<1>4. \A n \in S : \E round : Rounds(n, restart, reason, round)
  OBVIOUS
<1> HIDE DEF S
<1>5. \A n \in Nat : n \in S
  BY <1>1, <1>2, <1>3, SetInduction
<1> QED
  BY <1>4, <1>5

(* The last of them is refused or good, by induction over the layers.      *)
LEMMA RoundsGood ==
    ASSUME IInv, consent.route # Nothing, NEW restart \in BOOLEAN, NEW reason \in BOOLEAN, NEW round,
           Rounds(limits.layers, restart, reason, round)
    PROVE  round[limits.layers] = Nothing \/ Good(round[limits.layers])
<1> DEFINE S == {n \in Nat : n \in 0..limits.layers => round[n] = Nothing \/ Good(round[n])}
<1>1. limits.layers \in Nat
  BY InvariantFacts
<1>2. \A l \in 0..limits.layers : round[l] = IF l = 0 THEN reviews ELSE Begin(round[l - 1], l, restart, reason)
  BY DEF Rounds
<1>3. 0 \in S
  BY <1>1, <1>2, GoodNow
<1>4. \A n \in S : n + 1 \in S
  <2>1. TAKE n \in S
  <2>2. SUFFICES ASSUME n + 1 \in 0..limits.layers PROVE round[n + 1] = Nothing \/ Good(round[n + 1])
    OBVIOUS
  <2>3. n \in 0..limits.layers /\ n + 1 \in Active /\ n + 1 # 0 /\ (n + 1) - 1 = n
    BY <1>1, <2>2 DEF Active
  <2>4. round[n + 1] = Begin(round[n], n + 1, restart, reason)
    BY <1>2, <2>2, <2>3
  <2>5. round[n] = Nothing \/ Good(round[n])
    BY <2>3
  <2> QED
    BY <2>3, <2>4, <2>5, BeginOK
<1>5. limits.layers \in S
  BY <1>1, <1>3, <1>4, SetInduction
<1> QED
  BY <1>1, <1>5

(* prepare_batch: a ticket for each layer, or none.                        *)
LEMMA PrepareStep == ASSUME IInv, NEW restart \in BOOLEAN, NEW reason \in BOOLEAN, Prepare(restart, reason) PROVE IInv'
<1> DEFINE round[l \in 0..limits.layers] == IF l = 0 THEN reviews ELSE Begin(round[l - 1], l, restart, reason)
<1>1. consent.route # Nothing /\ Becomes(round[limits.layers])
  BY DEF Prepare
<1>2. \E g : Rounds(limits.layers, restart, reason, g)
  BY InvariantFacts, RoundsExist
<1>3. round = CHOOSE g : Rounds(limits.layers, restart, reason, g)
  BY DEF Rounds
<1> HIDE DEF round
<1>4. Rounds(limits.layers, restart, reason, round)
  BY <1>2, <1>3
<1>5. round[limits.layers] # Nothing
  BY <1>1 DEF Becomes
<1> QED
  BY <1>1, <1>4, <1>5, RoundsGood, BecomesStep

-----------------------------------------------------------------------------
(* Verdicts, and what becomes of the product.                              *)

(* A text that counts for a session (validate_source) is one it really     *)
(* gave.                                                                   *)
LEMMA SourcesSaid ==
    ASSUME IInv, NEW s \in Reviewers, session[s] # Nothing, NEW text \in Texts, text \in Sources(s)
    PROVE  text \in session[s].said
<1>1. SessionOK(session[s])
  BY ReviewFacts
<1> QED
  BY <1>1 DEF Sources, SessionOK

(* A verdict keeps the run sound.                                          *)
LEMMA JudgedRun ==
    ASSUME IInv, NEW l \in Active, NEW v \in Verdict, reviews.run[l] # Nothing, Judges(l, v)
    PROVE  LET r == [reviews.run[l] EXCEPT !.status = "classified", !.text = v.text, !.found = v.found]
           IN r \in RunType /\ RunOK(r, session) /\ r.id = reviews.run[l].id /\ r.found = v.found /\ r.on = reviews.run[l].on
<1> DEFINE run == reviews.run[l]
           text == v.text
           found == v.found
           r == [run EXCEPT !.status = "classified", !.text = text, !.found = found]
<1>1. run \in RunType /\ RunOK(run, session) /\ run.status = "running" /\ run.by # Nothing /\ text \in Sources(run.by)
  BY ReviewFacts DEF Judges
<1>2. text \in Texts /\ found \in SUBSET Flaws
  BY InvariantFacts, LimitsTyped DEF Verdict
<1>3. run.by \in Reviewers /\ session[run.by] # Nothing
  BY <1>1 DEF RunType, RunOK
<1>4. text \in session[run.by].said
  BY <1>1, <1>2, <1>3, SourcesSaid
<1> HIDE DEF run, text, found
<1>5. /\ r \in RunType /\ r.id = run.id /\ r.by = run.by /\ r.status = "classified" /\ r.known = run.known
      /\ r.text = text /\ r.found = found /\ r.on = run.on /\ r.from = run.from
  BY <1>1, <1>2 DEF RunType
<1> HIDE DEF r
<1>6. RunOK(r, session)
  BY <1>1, <1>4, <1>5 DEF RunOK
<1> QED
  BY <1>5, <1>6 DEF r, run, text, found

(* classify_review: a run in conflict is not classified again, so no       *)
(* conflict is lost, and a new one is on record.                           *)
LEMMA ClassifyStep ==
    ASSUME IInv, NEW verdicts, \A l \in DOMAIN verdicts : l \in Active /\ verdicts[l] \in Verdict, Classify(verdicts)
    PROVE  IInv'
<1> DEFINE J(l) == [reviews.run[l] EXCEPT !.status = "classified", !.text = verdicts[l].text, !.found = verdicts[l].found]
           R == [l \in Active |-> IF l \notin DOMAIN verdicts THEN reviews.run[l] ELSE J(l)]
           rs == [reviews EXCEPT !.run = R]
           conflict == \E l \in DOMAIN verdicts : "conflict" \in verdicts[l].found
           conflicts == talk.conflicts \cup {product.intent}
           retired == talk.retired \ {product.intent}
           t == [talk EXCEPT !.conflicts = conflicts, !.retired = retired]
<1>1. /\ \A l \in Active : reviews.run[l] # Nothing /\ reviews.run[l].on = Inputs(reviews.contract)
      /\ \A l \in DOMAIN verdicts : Judges(l, verdicts[l])
      /\ talk' = (IF conflict THEN t ELSE talk)
      /\ UNCHANGED <<product, consent, limits, session>>
  BY DEF Classify
<1>2. reviews' = rs
  BY ReviewFacts DEF Classify
<1>3. ASSUME NEW l \in DOMAIN verdicts
      PROVE  /\ J(l) \in RunType /\ RunOK(J(l), session) /\ J(l).id = reviews.run[l].id /\ J(l).found = verdicts[l].found
             /\ J(l).on = reviews.run[l].on /\ J(l) # Nothing /\ l \in Active
  <2>1. l \in Active /\ verdicts[l] \in Verdict /\ reviews.run[l] # Nothing /\ Judges(l, verdicts[l])
    BY <1>1
  <2>2. /\ J(l) \in RunType /\ RunOK(J(l), session) /\ J(l).id = reviews.run[l].id /\ J(l).found = verdicts[l].found
        /\ J(l).on = reviews.run[l].on
    BY <2>1, JudgedRun
  <2> QED
    BY <2>1, <2>2, ReviewsAssumption
<1>4. /\ \A l \in Active : l \in DOMAIN verdicts => R[l] = J(l)
      /\ \A l \in Active : l \notin DOMAIN verdicts => R[l] = reviews.run[l]
      /\ R = [l \in Active |-> R[l]]
  OBVIOUS
<1> HIDE DEF R, J
<1>5. RunsKeep(reviews, R, session, limits)
  BY <1>1, <1>3, <1>4, ReviewFacts DEF RunsKeep, Active
<1>6. RoundOK(rs, session, limits) /\ rs.run = R /\ rs.loop = reviews.loop
  BY <1>5, ReviewFacts, RunsChange
<1> HIDE DEF rs
<1>7. \A i : Contested(reviews, consent, limits, i) => Contested(rs, consent, limits, i)
  <2>1. SUFFICES ASSUME NEW i, Contested(reviews, consent, limits, i) PROVE Contested(rs, consent, limits, i)
    OBVIOUS
  <2>2. CASE reviews.loop = "reimplementing" /\ (consent.approval # Nothing => consent.approval.status = "pending")
    BY <1>6, <2>2 DEF Contested
  <2>3. ASSUME NEW l \in Active, reviews.run[l] # Nothing, "conflict" \in reviews.run[l].found, reviews.run[l].on.intent = i
        PROVE  Contested(rs, consent, limits, i)
    <3>1. reviews.run[l].status # "running"
      BY <2>3, ReviewFacts DEF RunOK
    <3>2. l \notin DOMAIN verdicts
      BY <1>1, <3>1 DEF Judges
    <3> QED
      BY <1>4, <1>6, <2>3, <3>2 DEF Contested, Active
  <2> QED
    BY <2>1, <2>2, <2>3 DEF Contested, Active
<1>8. ASSUME conflict PROVE Contested(rs, consent, limits, product.intent)
  <2>1. PICK l \in DOMAIN verdicts : "conflict" \in verdicts[l].found
    BY <1>8
  <2>2. l \in Active /\ rs.run[l] # Nothing /\ "conflict" \in rs.run[l].found /\ rs.run[l].on = Inputs(reviews.contract)
    BY <1>1, <1>3, <1>4, <1>6, <2>1
  <2>3. rs.run[l].on.intent = product.intent
    BY <2>2 DEF Inputs
  <2> QED
    BY <2>2, <2>3 DEF Contested, Active
<1> HIDE DEF conflict
<1>9. OnlyConflicts(t) /\ t.conflicts = conflicts /\ t.retired = retired
  BY InvariantFacts DEF OnlyConflicts
<1> HIDE DEF t
<1>10. CASE conflict
  <2>1. ConflictOK(rs, t, consent, limits)
    BY <1>7, <1>8, <1>9, <1>10, ReviewFacts DEF ConflictOK
  <2> QED
    BY <1>1, <1>2, <1>6, <1>9, <1>10, <2>1, ReviewFacts, ReviewStep
<1>11. CASE ~conflict
  <2>1. ConflictOK(rs, talk, consent, limits)
    BY <1>7, ReviewFacts DEF ConflictOK
  <2> QED
    BY <1>1, <1>2, <1>6, <1>11, <2>1, ReviewFacts, ReviewStep, SameTalk
<1> QED
  BY <1>10, <1>11

(* A run passes, of a round without conflicts or of a build that does not  *)
(* ask the human.                                                          *)
LEMMA PassesStep ==
    ASSUME IInv, NEW l \in Active, NEW text \in Texts, NEW found \in SUBSET Flaws, reviews.run[l] # Nothing,
           reviews.run[l].by # Nothing, text \in session[reviews.run[l].by].said, Patched(reviews.run[l], found),
           limits.build = "dispatch" => talk.conflicts \ talk.retired = {},
           Passes(l, text, found)
    PROVE  IInv'
<1> DEFINE run == reviews.run[l]
           on == Inputs(reviews.contract)
           r == [run EXCEPT !.status = "passed", !.on = on, !.text = text, !.found = found]
           rs == [reviews EXCEPT !.run = [reviews.run EXCEPT ![l] = r]]
<1>1. run \in RunType /\ RunOK(run, session)
  BY ReviewFacts
<1>2. reviews' = rs
  BY ReviewFacts DEF Passes
<1>3. on \in [code : Nat, intent : Nat, rules : Nat] /\ on.code = product.code
  BY ReviewFacts, InvariantFacts DEF Inputs
<1> HIDE DEF on
<1>4. /\ r \in RunType /\ r.id = run.id /\ r.by = run.by /\ r.status = "passed" /\ r.known = run.known
      /\ r.text = text /\ r.found = found /\ r.on = on /\ r.from = run.from
  BY <1>1, <1>3 DEF RunType
<1> HIDE DEF r
<1>5. RunOK(r, session)
  BY <1>1, <1>3, <1>4 DEF RunOK, Patched
<1>6. RoundOK(rs, session, limits)
  BY <1>4, <1>5, RunChange
<1> HIDE DEF rs
<1>7. ConflictOK(rs, talk, consent, limits)
  BY DEF ConflictOK
<1>8. UNCHANGED <<product, consent, talk, limits, session>>
  BY DEF Passes
<1> QED
  BY <1>2, <1>6, <1>7, <1>8, ReviewFacts, ReviewStep, SameTalk

(* resolve_review: without a loopback in any layer there is no conflict to *)
(* forget.                                                                 *)
LEMMA ResolveStep == ASSUME IInv, NEW l \in Active, Resolve(l) PROVE IInv'
<1> DEFINE run == reviews.run[l]
<1>1. /\ run # Nothing /\ run.status = "classified" /\ Patched(run, run.found) /\ PatchReady
      /\ Passes(l, run.text, run.found)
  BY DEF Resolve
<1>2. run \in RunType /\ RunOK(run, session) /\ reviews.loop # "reimplementing"
  BY <1>1, ReviewFacts
<1>3. run.by # Nothing /\ run.by \in Reviewers /\ run.text \in session[run.by].said /\ session[run.by] # Nothing
  BY <1>1, <1>2 DEF RunOK, RunType
<1>4. run.text \in Texts /\ run.found \in SUBSET Flaws
  BY <1>2, <1>3, ReviewFacts DEF SessionOK, SessionType, RunType
<1>5. \A k \in Active : reviews.run[k] # Nothing /\ "conflict" \notin reviews.run[k].found
  BY <1>1 DEF PatchReady, Started, Loopback
<1>6. limits.build = "dispatch" => talk.conflicts \ talk.retired = {}
  BY <1>2, <1>5, ReviewFacts DEF ConflictOK, Contested, Active
<1> HIDE DEF run
<1> QED
  BY <1>1, <1>3, <1>4, <1>6, PassesStep DEF run

(* submit_review, of a oneshot build.                                      *)
LEMMA SubmitStep == ASSUME IInv, NEW l \in Active, NEW found \in SUBSET (limits.flaws \cap {"patch"}), Submit(l, found) PROVE IInv'
<1> DEFINE run == reviews.run[l]
<1>1. /\ ~Dispatch /\ run # Nothing /\ run.by # Nothing /\ "findings" \in Sources(run.by)
      /\ Patched(run, found) /\ Passes(l, "findings", found)
  BY DEF Submit
<1>2. run.by \in Reviewers /\ session[run.by] # Nothing
  BY <1>1, ReviewFacts DEF RunOK, RunType
<1>3. "findings" \in session[run.by].said
  BY <1>1, <1>2, SourcesSaid DEF Texts
<1>4. "findings" \in Texts /\ found \in SUBSET Flaws
  BY DEF Texts, Flaws
<1>5. limits.build # "dispatch"
  BY <1>1 DEF Dispatch
<1> HIDE DEF run
<1> QED
  BY <1>1, <1>3, <1>4, <1>5, PassesStep DEF run

(* native_loopback: the round that said so is put away, and with a         *)
(* conflict the approval too, which keeps the conflict on record.          *)
LEMMA LoopBackStep == ASSUME IInv, LoopBack PROVE IInv'
<1> DEFINE conflict == \E l \in Active : "conflict" \in reviews.run[l].found
           runs == [l \in Active |-> Nothing]
           rs == [reviews EXCEPT !.run = runs, !.contract = Nothing, !.loop = "reimplementing"]
           approval == IF conflict THEN Nothing ELSE consent.approval
           c == [consent EXCEPT !.built = Nothing, !.prepared = Nothing, !.approval = approval]
           t == [talk EXCEPT !.agreed = Nothing]
<1>1. /\ reviews.loop # "reimplementing" /\ reviews' = rs /\ talk' = (IF conflict THEN t ELSE talk)
      /\ UNCHANGED <<product, limits, session>>
  BY DEF LoopBack
<1>2. consent' = c
  BY DEF LoopBack
<1>3. approval = consent.approval \/ approval = Nothing
  OBVIOUS
<1>4. conflict => approval = Nothing
  OBVIOUS
<1>5. \A i \in talk.conflicts \ talk.retired : limits.build = "dispatch" => conflict
  BY <1>1, ReviewFacts DEF ConflictOK, Contested, Active
<1> HIDE DEF conflict
<1>6. approval # Nothing => ~conflict
  BY <1>4
<1> HIDE DEF approval
<1>7. /\ DOMAIN c = ConsentFields /\ c.routes = consent.routes /\ c.baseline = consent.baseline /\ c.route = consent.route
      /\ c.approval = approval /\ c.requests = consent.requests /\ c.anchor = consent.anchor
      /\ c.prepared = Nothing /\ c.built = Nothing
  BY InvariantFacts DEF ConsentFields
<1> HIDE DEF c
<1>8. ConsentOK(c, limits)
  BY <1>3, <1>7, InvariantFacts DEF ConsentOK, ConsentFields, RequestOK
<1>9. /\ DOMAIN t = DOMAIN talk /\ t.open = talk.open /\ t.agreed = Nothing /\ t.vetted = talk.vetted /\ t.call = talk.call
      /\ t.conflicts = talk.conflicts /\ t.retired = talk.retired
  BY InvariantFacts
<1> HIDE DEF t
<1>10. TalkOK(talk') /\ talk'.vetted = talk.vetted /\ talk'.call = talk.call
       /\ talk'.conflicts = talk.conflicts /\ talk'.retired = talk.retired
       /\ (~conflict => talk'.agreed = talk.agreed)
  BY <1>1, <1>9, InvariantFacts DEF TalkOK
<1>11. AgreedOK(talk', c)
  BY <1>3, <1>6, <1>7, <1>10 DEF IInv, AgreedOK
<1>12. AskedOK(c.approval, talk'.call, "spec") /\ AskedOK(c.baseline, talk'.call, "baseline")
  BY <1>3, <1>7, <1>10 DEF IInv, AskedOK
<1>13. DOMAIN rs = {"run", "contract", "loop", "tickets"} /\ rs.run = runs /\ rs.contract = Nothing
       /\ rs.loop = "reimplementing" /\ rs.tickets = reviews.tickets
  BY ReviewFacts
<1> HIDE DEF rs
<1>14. RoundOK(rs, session, limits)
  BY <1>13, ReviewFacts DEF RoundOK, Active
<1>15. ConflictOK(rs, talk', c, limits)
  BY <1>4, <1>5, <1>7, <1>10, <1>13 DEF ConflictOK, Contested
<1>16. ProductOK(product', limits) /\ SessionsOK(session')
  BY <1>1, InvariantFacts, ReviewFacts
<1> QED
  BY <1>1, <1>2, <1>8, <1>10, <1>11, <1>12, <1>14, <1>15, <1>16 DEF IInv

(* A write changes the code within its bound.                              *)
LEMMA ProductCode ==
    ASSUME IInv, NEW code \in 0..limits.codes
    PROVE  ProductOK([product EXCEPT !.code = code], limits) /\ ProductOK(product, limits)
<1> DEFINE p == [product EXCEPT !.code = code]
<1>1. p \in [code : 0..limits.codes, intent : 0..limits.intents, policy : 0..limits.policies]
  BY InvariantFacts
<1> HIDE DEF p
<1>2. ProductOK(p, limits)
  BY <1>1, InvariantFacts DEF ProductOK
<1> QED
  BY <1>2, InvariantFacts DEF p

(* A write of the product through the hook.                                *)
LEMMA WriteProductStep == ASSUME IInv, NEW code \in 0..limits.codes, WriteProduct(code) PROVE IInv'
<1> DEFINE c == [consent EXCEPT !.built = consent.route.id]
           p == [product EXCEPT !.code = code]
<1>1. /\ consent.route # Nothing /\ consent' \in {consent, c} /\ product' \in {product, p}
      /\ UNCHANGED <<talk, limits, reviews, session>>
  BY DEF WriteProduct, HookOpen
<1>2. /\ DOMAIN c = ConsentFields /\ c.routes = consent.routes /\ c.baseline = consent.baseline /\ c.route = consent.route
      /\ c.approval = consent.approval /\ c.requests = consent.requests /\ c.anchor = consent.anchor
      /\ c.prepared = consent.prepared /\ c.built = consent.route.id
  BY InvariantFacts DEF ConsentFields
<1> HIDE DEF c
<1>3. ConsentOK(c, limits)
  BY <1>1, <1>2, InvariantFacts DEF ConsentOK, ConsentFields
<1>4. ProductOK(product', limits)
  BY <1>1, ProductCode
<1>5. ConsentOK(consent', limits) /\ consent'.approval = consent.approval /\ consent'.baseline = consent.baseline
      /\ consent'.anchor = consent.anchor
  BY <1>1, <1>2, <1>3, InvariantFacts
<1> QED
  BY <1>1, <1>4, <1>5, OtherFields

(* A write past the hook, or the way back.                                 *)
LEMMA CodeStep == ASSUME IInv, NEW code \in 0..limits.codes, RollBack \/ EditCode(code) PROVE IInv'
<1>1. PICK x \in 0..limits.codes : product' = [product EXCEPT !.code = x]
  <2>1. 0 \in 0..limits.codes
    BY InvariantFacts, LimitsTyped
  <2> QED
    BY <2>1 DEF RollBack, EditCode
<1>2. UNCHANGED <<consent, talk, limits, reviews, session>>
  BY DEF RollBack, EditCode
<1>3. ProductOK(product', limits)
  BY <1>1, ProductCode
<1> QED
  BY <1>2, <1>3, InvariantFacts, OtherFields

-----------------------------------------------------------------------------
(* The invariant holds.                                                    *)

(* The invariant holds in the beginning.                                   *)
LEMMA InitOK == ASSUME Init PROVE IInv
<1>1. limits \in Limits
  BY DEF Init, ApprovalInit
<1>2. /\ limits.codes \in Nat /\ limits.intents \in Nat /\ limits.policies \in Nat /\ limits.rules \in Nat
      /\ limits.routes \in Nat /\ limits.requests \in Nat /\ limits.layers \in Nat \ {0} /\ limits.tickets \in Nat
  BY <1>1, LimitsTyped
<1>3. ProductOK(product, limits)
  <2>1. product = [code |-> 0, intent |-> 0, policy |-> 0]
    BY DEF Init, ApprovalInit
  <2>2. 0 \in 0..limits.codes /\ 0 \in 0..limits.intents /\ 0 \in 0..limits.policies
    BY <1>2
  <2>3. product \in [code : 0..limits.codes, intent : 0..limits.intents, policy : 0..limits.policies]
    BY <2>1, <2>2
  <2> QED
    BY <1>1, <2>3 DEF ProductOK
<1>4. ConsentOK(consent, limits)
  <2>1. consent = [route |-> Nothing, routes |-> 0, approval |-> Nothing, baseline |-> Nothing, requests |-> 0,
                   anchor |-> 0, prepared |-> Nothing, built |-> Nothing]
    BY DEF Init, ApprovalInit
  <2>2. /\ DOMAIN consent = {"route", "routes", "approval", "baseline", "requests", "anchor", "prepared", "built"}
        /\ consent.route = Nothing /\ consent.approval = Nothing /\ consent.baseline = Nothing
        /\ consent.prepared = Nothing /\ consent.built = Nothing
        /\ consent.routes = 0 /\ consent.requests = 0 /\ consent.anchor = 0
    BY <2>1
  <2>3. 0 \in 0..limits.routes /\ 0 \in 0..limits.requests /\ 0 \in 0..limits.policies
    BY <1>2
  <2> QED
    BY <2>2, <2>3 DEF ConsentOK, RequestOK
<1>5. TalkOK(talk)
  <2> DEFINE entry == [state |-> "new", by |-> Nothing, topic |-> "", under |-> {}]
             Calls == [state : {"new", "asked", "answered"}, by : Primary \cup {Nothing},
                       topic : {"", "spec", "baseline"}, under : SUBSET Nat]
  <2>1. entry \in Calls
    OBVIOUS
  <2>2. talk.call = [c \in Questions |-> entry] /\ talk.open = {}
        /\ DOMAIN talk = {"open", "agreed", "vetted", "conflicts", "retired", "call"}
    BY DEF Init, ApprovalInit
  <2> HIDE DEF entry, Calls
  <2>3. talk.call \in [Questions -> Calls]
    BY <2>1, <2>2
  <2> QED
    BY <2>2, <2>3 DEF TalkOK, Calls
<1>6. AgreedOK(talk, consent) /\ AskedOK(consent.approval, talk.call, "spec") /\ AskedOK(consent.baseline, talk.call, "baseline")
  BY DEF Init, ApprovalInit, AgreedOK, AskedOK
<1>7. RoundOK(reviews, session, limits)
  BY <1>2 DEF Init, RoundOK, Active
<1>8. SessionsOK(session)
  BY DEF Init, SessionsOK
<1>9. ConflictOK(reviews, talk, consent, limits)
  BY DEF Init, ApprovalInit, ConflictOK
<1> QED
  BY <1>3, <1>4, <1>5, <1>6, <1>7, <1>8, <1>9 DEF IInv

(* Every step keeps it.                                                    *)
LEMMA NextKeeps == ASSUME IInv, Next PROVE IInv'
<1>1. CASE ApprovalStep /\ UNCHANGED <<reviews, session>>
  BY <1>1, ApprovalStepKeeps
<1>2. ASSUME NEW l \in Active, NEW restart \in BOOLEAN, NEW reason \in BOOLEAN, BeginLayer(l, restart, reason) PROVE IInv'
  BY <1>2, BeginLayerStep
<1>3. ASSUME NEW restart \in BOOLEAN, NEW reason \in BOOLEAN, Prepare(restart, reason) PROVE IInv'
  BY <1>3, PrepareStep
<1>4. ASSUME NEW s \in Reviewers, NEW l \in 0..limits.layers, NEW observed \in BOOLEAN, Starts(s, l, observed) PROVE IInv'
  BY <1>4, StartsStep
<1>5. ASSUME NEW s \in Reviewers, NEW l \in Active, Attach(s, l) PROVE IInv'
  BY <1>5, AttachStep
<1>6. ASSUME NEW s \in Reviewers, NEW text \in Texts, NEW observed \in BOOLEAN, NEW ends \in BOOLEAN,
             Reports(s, text, observed, ends)
      PROVE  IInv'
  BY <1>6, ReportsStep
<1>7. ASSUME NEW s \in Reviewers, NEW text \in Texts, Delivers(s, text) PROVE IInv'
  BY <1>7, DeliversStep
<1>8. ASSUME NEW l \in Active, Recover(l) PROVE IInv'
  BY <1>8, RecoverStep
<1>9. ASSUME NEW l \in Active, NEW v \in Verdict, Classify([k \in {l} |-> v]) PROVE IInv'
  <2> DEFINE verdicts == [k \in {l} |-> v]
  <2>1. \A k \in DOMAIN verdicts : k \in Active /\ verdicts[k] \in Verdict
    OBVIOUS
  <2> QED
    BY <1>9, <2>1, ClassifyStep
<1>10. ASSUME NEW verdicts \in [Active -> Verdict], Classify(verdicts) PROVE IInv'
  BY <1>10, ClassifyStep
<1>11. ASSUME NEW l \in Active, Resolve(l) PROVE IInv'
  BY <1>11, ResolveStep
<1>12. ASSUME NEW l \in Active, NEW found \in SUBSET (limits.flaws \cap {"patch"}), Submit(l, found) PROVE IInv'
  BY <1>12, SubmitStep
<1>13. CASE LoopBack
  BY <1>13, LoopBackStep
<1>14. ASSUME NEW code \in 0..limits.codes, WriteProduct(code) PROVE IInv'
  BY <1>14, WriteProductStep
<1>15. CASE RollBack
  <2>1. 0 \in 0..limits.codes
    BY InvariantFacts, LimitsTyped
  <2> QED
    BY <1>15, <2>1, CodeStep
<1>16. ASSUME NEW code \in 0..limits.codes, EditCode(code) PROVE IInv'
  BY <1>16, CodeStep
<1>17. ASSUME NEW l \in Active, Damage(l) PROVE IInv'
  BY <1>17, DamageStep
<1> QED
  BY <1>1, <1>2, <1>3, <1>4, <1>5, <1>6, <1>7, <1>8, <1>9, <1>10, <1>11, <1>12, <1>13, <1>14, <1>15, <1>16, <1>17 DEF Next

(* So does a step in which nothing happens.                                *)
LEMMA StutterKeeps == ASSUME IInv, UNCHANGED vars PROVE IInv'
  BY DEF vars, IInv

(* The inductive invariant holds of every behaviour, for any sessions,     *)
(* questions, reviewers, layers, tickets and routes.                       *)
THEOREM InvariantHolds == Spec => []IInv
<1>1. IInv /\ [Next]_vars => IInv'
  BY NextKeeps, StutterKeeps
<1> QED
  BY <1>1, InitOK, PTL DEF Spec

(* Whenever the hook would let the product of a dispatch build be written, *)
(* a human agreed to go on with this route, this intent and this policy    *)
(* (route_state, verification_baseline_state); and a conflict with the     *)
(* intent stands until a human decides again or a round is begun for       *)
(* another intent (begin_review, native_loopback), whatever is restarted,  *)
(* rerendered or looped back.                                              *)
THEOREM HumansDecide == Spec => []HumanDecides
<1>1. IInv => HumanDecides
  BY InvariantMeans
<1> QED
  BY <1>1, InvariantHolds, PTL

(* Reviews that are ready (review_state) were made by as many sessions,    *)
(* each begun after its ticket, of the code or of patches since, with      *)
(* findings its session really gave.                                       *)
THEOREM ReviewsAreSound == Spec => []ReviewsSound
<1>1. IInv => ReviewsSound
  BY InvariantMeans
<1> QED
  BY <1>1, InvariantHolds, PTL

-----------------------------------------------------------------------------
(* What a reply decides.                                                   *)

(* One step's replies decide what they were asked about: the action of     *)
(* RepliesApproveWhatWasAsked.                                             *)
HeardRight ==
    /\ ~(SpecDecided /\ BaselineDecided)
    /\ SpecDecided => consent.approval.about = Now
    /\ BaselineDecided => consent.baseline.about = product.policy
    /\ \A c \in Questions : talk'.call[c] # talk.call[c] /\ talk'.call[c].state = "answered" =>
          /\ SpecDecided => talk.call[c].topic = "spec" /\ consent.approval.id \in talk.call[c].under
          /\ BaselineDecided => talk.call[c].topic = "baseline" /\ consent.baseline.id \in talk.call[c].under

(* A reply decides one record at most, and of it what was heard: the       *)
(* baseline's words are not the SPEC's while the SPEC waits.               *)
LEMMA ReplyDecidesOne ==
    ASSUME IInv, NEW s, NEW c, NEW word, ReplyMay(s, c, word, consent')
    PROVE  /\ ~(SpecDecided /\ BaselineDecided)
           /\ SpecDecided => consent.approval # Nothing /\ consent.approval.about = Now /\ Heard(consent.approval, s, c)
           /\ BaselineDecided =>
                consent.baseline # Nothing /\ consent.baseline.about = product.policy /\ Heard(consent.baseline, s, c)
<1>1. SpecDecided =>
        /\ Moved(consent.approval, consent'.approval) /\ consent.approval.about = Now /\ Heard(consent.approval, s, c)
        /\ word # "baseline"
        /\ consent.approval.status = "approved" => word \in {"resume", "go"}
  BY DecisionsSeen DEF ReplyMay
<1>2. BaselineDecided =>
        /\ Moved(consent.baseline, consent'.baseline) /\ consent.baseline.about = product.policy
        /\ Heard(consent.baseline, s, c) /\ word \in BaselineWords(consent)
  BY DecisionsSeen DEF ReplyMay
<1>3. ~(SpecDecided /\ BaselineDecided)
  <2>1. SUFFICES ASSUME SpecDecided, BaselineDecided PROVE FALSE
    OBVIOUS
  <2>2. consent.approval # Nothing /\ consent.approval.status \in {"pending", "approved"}
    BY <1>1, <2>1, InvariantFacts DEF Moved, ConsentOK, RequestOK, Requests
  <2>3. word \in {"baseline", "plain"} /\ (Pending(consent.approval) => word = "baseline")
    BY <1>2, <2>1 DEF BaselineWords
  <2> QED
    BY <1>1, <2>1, <2>2, <2>3 DEF Pending
<1> QED
  BY <1>1, <1>2, <1>3 DEF Moved

(* A prompt decides rightly.                                               *)
LEMMA SaysHeard == ASSUME IInv, NEW s \in Primary, NEW word, Says(s, word) PROVE HeardRight
<1>1. ReplyMay(s, Nothing, word, consent')
  BY ReplyThenShown DEF Says
<1>2. talk'.call = talk.call
  BY InvariantFacts DEF Says, Remembers
<1> QED
  BY <1>1, <1>2, ReplyDecidesOne DEF HeardRight

(* An answer decides only what its question was about, and the request     *)
(* that was open when it was asked.                                        *)
LEMMA AnswersHeard == ASSUME IInv, NEW c \in Questions, NEW word, Answers(c, word) PROVE HeardRight
<1>1. ReplyMay(talk.call[c].by, c, word, consent')
  BY RepliedOK DEF Answers
<1>2. talk'.call = AnsweredCall(c)
  BY InvariantFacts DEF Answers, Remembers, AnsweredCall
<1>3. \A x \in Questions \ {c} : talk'.call[x] = talk.call[x]
  BY <1>2, AnsweredCallFields
<1>4. c # Nothing
  BY ApprovalAssumption
<1>5. SpecDecided => talk.call[c].topic = "spec" /\ consent.approval.id \in talk.call[c].under
  <2>1. SpecDecided => consent.approval # Nothing /\ [call |-> c, id |-> consent.approval.id] \in consent.approval.asked
    BY <1>1, <1>4, ReplyDecidesOne DEF Heard
  <2>2. AskedOK(consent.approval, talk.call, "spec")
    BY DEF IInv
  <2> QED
    BY <2>1, <2>2 DEF AskedOK
<1>6. BaselineDecided => talk.call[c].topic = "baseline" /\ consent.baseline.id \in talk.call[c].under
  <2>1. BaselineDecided => consent.baseline # Nothing /\ [call |-> c, id |-> consent.baseline.id] \in consent.baseline.asked
    BY <1>1, <1>4, ReplyDecidesOne DEF Heard
  <2>2. AskedOK(consent.baseline, talk.call, "baseline")
    BY DEF IInv
  <2> QED
    BY <2>1, <2>2 DEF AskedOK
<1> QED
  BY <1>1, <1>3, <1>5, <1>6, ReplyDecidesOne DEF HeardRight

(* A step that decides nothing decides rightly.                            *)
LEMMA QuietHeard == ASSUME ~SpecDecided, ~BaselineDecided PROVE HeardRight
  BY DEF HeardRight

(* A request that is gone, is another one or says the same is not decided. *)
Undecided(old, new) == new = Nothing \/ (old # Nothing => new.id # old.id \/ (new.status = old.status /\ new.stop = old.stop))

(* A step that leaves both requests undecided decides rightly.             *)
LEMMA UndecidedQuiet ==
    ASSUME Undecided(consent.approval, consent'.approval), Undecided(consent.baseline, consent'.baseline)
    PROVE  HeardRight
  BY QuietHeard DEF Undecided, SpecDecided, BaselineDecided, Decides

(* A new request is another one.                                           *)
LEMMA NewRequest == ASSUME IInv, NEW about PROVE /\ Undecided(consent.approval, Requested(about))
                                                 /\ Undecided(consent.baseline, Requested(about))
<1>1. Requested(about).id = consent.requests + 1
  BY DEF Requested
<1>2. /\ consent.requests \in Nat
      /\ consent.approval # Nothing => consent.approval.id \in 1..consent.requests
      /\ consent.baseline # Nothing => consent.baseline.id \in 1..consent.requests
  BY InvariantFacts DEF ConsentOK, RequestOK
<1> QED
  BY <1>1, <1>2 DEF Undecided

(* A step that leaves the requests alone, or takes the approval back,      *)
(* decides rightly.                                                        *)
LEMMA SameConsentHeard == ASSUME consent'.approval = consent.approval \/ consent'.approval = Nothing,
                                 consent'.baseline = consent.baseline
                          PROVE  HeardRight
  BY UndecidedQuiet DEF Undecided

(* ensure_verification_review decides nothing.                             *)
LEMMA EnsuredHeard ==
    ASSUME IInv, NEW policy \in 0..limits.policies, consent.requests < limits.requests, consent' = Ensured(policy)
    PROVE  HeardRight
<1>1. /\ consent'.approval = consent.approval
      /\ consent'.baseline = consent.baseline \/ consent'.baseline.id = consent.requests + 1
  BY EnsuredOK
<1>2. consent.requests \in Nat /\ (consent.baseline # Nothing => consent.baseline.id \in 1..consent.requests)
  BY InvariantFacts DEF ConsentOK, RequestOK
<1> QED
  BY <1>1, <1>2, UndecidedQuiet DEF Undecided

(* Every step of the coordinator and of the human decides rightly.         *)
LEMMA ApprovalStepHeard == ASSUME IInv, ApprovalStep PROVE HeardRight
<1>1. ASSUME NEW rules \in 0..limits.rules, ProposeRoute(rules) PROVE HeardRight
  BY <1>1, InvariantFacts, SameConsentHeard DEF ProposeRoute, ConsentFields
<1>2. CASE Request
  <2>1. consent'.approval = Requested(Now) /\ consent'.baseline = consent.baseline
    BY <1>2, InvariantFacts DEF Request, ConsentFields
  <2> QED
    BY <2>1, NewRequest, UndecidedQuiet DEF Undecided
<1>3. ASSUME NEW policy \in 0..limits.policies, Configure(policy) PROVE HeardRight
  <2>1. consent.requests < limits.requests /\ (consent' = consent \/ consent' = Ensured(policy))
    BY <1>3 DEF Configure
  <2> QED
    BY <2>1, EnsuredHeard, SameConsentHeard
<1>4. CASE Reanchor
  <2>1. /\ consent.requests < limits.requests /\ product.policy \in 0..limits.policies
        /\ consent' = [consent EXCEPT !.anchor = product.policy] \/ consent' = Ensured(product.policy)
    BY <1>4, InvariantFacts DEF Reanchor
  <2>2. CASE consent' = [consent EXCEPT !.anchor = product.policy]
    BY <2>2, InvariantFacts, SameConsentHeard DEF ConsentFields
  <2> QED
    BY <2>1, <2>2, EnsuredHeard
<1>5. ASSUME NEW s \in Primary, Opens(s) PROVE HeardRight
  <2>1. Unmoved(consent.approval, consent'.approval) /\ Unmoved(consent.baseline, consent'.baseline)
    BY <1>5, InvariantFacts, ExposedOK DEF Opens
  <2> QED
    BY <2>1, DecisionsSeen, QuietHeard
<1>6. ASSUME NEW s \in Primary, Closes(s) PROVE HeardRight
  BY <1>6, SameConsentHeard DEF Closes
<1>7. ASSUME NEW s \in Primary, NEW word \in Words, Says(s, word) PROVE HeardRight
  BY <1>7, SaysHeard
<1>8. ASSUME NEW s \in Primary, NEW c \in Questions, NEW topic \in {"spec", "baseline"}, Asks(s, c, topic) PROVE HeardRight
  <2>1. /\ consent'.approval = consent.approval \/ consent'.approval = BoundTo(consent.approval, s, c)
        /\ consent'.baseline = consent.baseline \/ consent'.baseline = BoundTo(consent.baseline, s, c)
    BY <1>8, InvariantFacts DEF Asks, ConsentFields
  <2>2. /\ Undecided(consent.approval, BoundTo(consent.approval, s, c))
        /\ Undecided(consent.baseline, BoundTo(consent.baseline, s, c))
    BY InvariantFacts, BoundRequest, ApprovalAssumption DEF ConsentOK, Undecided
  <2>3. Undecided(consent.approval, consent.approval) /\ Undecided(consent.baseline, consent.baseline)
    BY DEF Undecided
  <2> QED
    BY <2>1, <2>2, <2>3, UndecidedQuiet
<1>9. ASSUME NEW c \in Questions, NEW word \in Words, Answers(c, word) PROVE HeardRight
  BY <1>9, AnswersHeard
<1>10. CASE ReadStep
  BY <1>10, InvariantFacts, SameConsentHeard DEF ReadStep, ConsentFields
<1>11. ASSUME NEW intent \in 0..limits.intents, EditIntent(intent) PROVE HeardRight
  BY <1>11, SameConsentHeard DEF EditIntent
<1> QED
  BY <1>1, <1>2, <1>3, <1>4, <1>5, <1>6, <1>7, <1>8, <1>9, <1>10, <1>11 DEF ApprovalStep

(* So does every step.                                                     *)
LEMMA NextHeard == ASSUME IInv, Next PROVE HeardRight
<1>1. CASE ApprovalStep
  BY <1>1, ApprovalStepHeard
<1>2. CASE consent' = consent
  BY <1>2, SameConsentHeard
<1>3. CASE LoopBack
  BY <1>3, InvariantFacts, SameConsentHeard DEF LoopBack, ConsentFields
<1>4. ASSUME NEW code \in 0..limits.codes, WriteProduct(code) PROVE HeardRight
  BY <1>4, InvariantFacts, SameConsentHeard DEF WriteProduct, ConsentFields
<1>5. ASSUME NEW restart \in BOOLEAN, NEW reason \in BOOLEAN, Prepare(restart, reason) PROVE HeardRight
  BY <1>2, <1>5 DEF Prepare, Becomes
<1>6. ASSUME NEW verdicts, Classify(verdicts) PROVE HeardRight
  BY <1>2, <1>6 DEF Classify
<1>7. ASSUME NEW l \in Active, NEW restart \in BOOLEAN, NEW reason \in BOOLEAN, BeginLayer(l, restart, reason) PROVE HeardRight
  BY <1>2, <1>7 DEF BeginLayer, Becomes
<1>8. ASSUME NEW s \in Reviewers, NEW l, NEW observed, Starts(s, l, observed) \/ Attach(s, l) PROVE HeardRight
  BY <1>2, <1>8 DEF Starts, Attach
<1>9. ASSUME NEW s \in Reviewers, NEW text, NEW observed, NEW ends, Reports(s, text, observed, ends) \/ Delivers(s, text)
      PROVE  HeardRight
  BY <1>2, <1>9 DEF Reports, Delivers
<1>10. ASSUME NEW l \in Active, Recover(l) \/ Resolve(l) \/ Damage(l) PROVE HeardRight
  BY <1>2, <1>10 DEF Recover, Resolve, Passes, Damage
<1>11. ASSUME NEW l \in Active, NEW found, Submit(l, found) PROVE HeardRight
  BY <1>2, <1>11 DEF Submit, Passes
<1>12. ASSUME NEW code, RollBack \/ EditCode(code) PROVE HeardRight
  BY <1>2, <1>12 DEF RollBack, EditCode
<1> QED
  BY <1>1, <1>3, <1>4, <1>5, <1>6, <1>7, <1>8, <1>9, <1>10, <1>11, <1>12 DEF Next

(* A reply decides one record at most, the answer to a question only what  *)
(* the question was about and the request that was open when it was asked, *)
(* and what is decided is the route, the intent or the policy as it is     *)
(* (approve_observed_response, approve_baseline_response).                 *)
THEOREM RepliesAreHeardRight == Spec => RepliesApproveWhatWasAsked
<1>1. IInv /\ [Next]_vars => [HeardRight]_vars
  BY NextHeard
<1> QED
  BY <1>1, InvariantHolds, PTL DEF Spec, RepliesApproveWhatWasAsked, HeardRight

=============================================================================
