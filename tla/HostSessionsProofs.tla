------------------------- MODULE HostSessionsProofs --------------------------
(***************************************************************************)
(* Proofs about sessions, handoffs, calls and restarts, for any number of  *)
(* Works, sessions, calls and bounds: whatever handlers are cut short and  *)
(* whatever order the host's reports come in, handoffs are linked once     *)
(* they exist, calls are accounted for, and writes stay in bounds.         *)
(***************************************************************************)
EXTENDS HostSessions, TLAPS

-----------------------------------------------------------------------------
(* The inductive invariant.                                                *)

(* A handoff that a session names exists.                                  *)
Links(d) ==
    \A s \in Sessions, h \in Hosts :
        d.session[s][h] # Nothing /\ d.session[s][h].handoff # Nothing =>
            d.session[s][h].handoff[2] \in DOMAIN d.handoffs[d.session[s][h].handoff[1]]

(* Neighbouring handoffs of a Work differ.                                 *)
Apart(d) ==
    \A w \in Works : \A i \in 1..(Len(d.handoffs[w]) - 1) : d.handoffs[w][i] # d.handoffs[w][i + 1]

(* What is kept in files is sound; a handler needs this of the disk it     *)
(* starts from, and of each disk its writes leave.                         *)
DiskOk(d) == d \in DiskType /\ Links(d) /\ Apart(d)

(* No call, no owed restart and no journal has changed.                    *)
Steady(d, e) ==
    /\ e.route = d.route /\ e.began = d.began /\ e.done = d.done /\ e.settled = d.settled
    /\ e.restarts = d.restarts /\ e.journal = d.journal

(* Sessions are where they were, attached to what they were, and no Work   *)
(* names another agent.                                                    *)
Attached(d, e) ==
    /\ e.agent = d.agent
    /\ \A s \in Sessions, h \in Hosts :
          /\ e.session[s][h] = Nothing <=> d.session[s][h] = Nothing
          /\ d.session[s][h] # Nothing => e.session[s][h].work = d.session[s][h].work

(* Where a Work names another agent, a session of that agent is attached   *)
(* to it.                                                                  *)
Named(d, e) ==
    \A w \in Works : e.agent[w] # d.agent[w] =>
        /\ e.agent[w] \in Hosts
        /\ \E s \in Sessions : e.session[s][e.agent[w]] # Nothing /\ e.session[s][e.agent[w]].work = w

(* No session has moved to another Work as the host sees it.               *)
Unmoved(d, e) == \A s \in Sessions : Bound(e, s) = Bound(d, s)

(* What the files say of a call at stage st: nothing of a new one, no      *)
(* start of one that was denied or could not be observed, an open start at *)
(* the place of its route while it runs and until its end is seen, and no  *)
(* open start afterwards.                                                  *)
CallAt(st, route, began, done) ==
    /\ st = "new" => route = Nothing /\ began = {} /\ done = {}
    /\ st \in {"blocked", "unseen"} => began = {}
    /\ st \in {"running", "ended"} => route \in Places /\ began = {route} /\ done = {}
    /\ st = "over" => began \subseteq done

(* The files agree with the host on every call.                            *)
CallInv == \A c \in Calls : CallAt(stage[c], disk.route[c], disk.began[c], disk.done[c])

(* What the host has yet to load, the files ask it to restart for.         *)
OwedInv == owed => "host" \in disk.restarts

(* The inductive invariant. EffectsAccounted speaks of calls that have     *)
(* started only, and NoWriteBeforeRestart in WritesInBounds rests on the   *)
(* restart file, which no state property of the runs mentions: CallInv and *)
(* OwedInv say both of every state.                                        *)
IInv == TypeOK /\ DiskOk(disk) /\ CallInv /\ OwedInv

-----------------------------------------------------------------------------
(* Sessions: the disks each write leaves.                                  *)

(* load_session finds a record that is filed, the host's own where there   *)
(* is one.                                                                 *)
LEMMA KnownIs ==
    ASSUME NEW d \in DiskType, NEW s \in Sessions
    PROVE  /\ Filed(d, s) \subseteq Hosts
           /\ \A h \in Hosts : h \in Filed(d, s) <=> d.session[s][h] # Nothing
           /\ \A host \in Hosts : /\ Found(d, s, host) \subseteq Filed(d, s)
                                  /\ Known(d, s, host) \in SessionRecord \cup {Nothing}
                                  /\ Known(d, s, host) = Nothing <=> Found(d, s, host) = {}
           /\ Bound(d, s) \in Works \cup {Nothing}
           /\ d.session[s]["host"] # Nothing => Known(d, s, "host") = d.session[s]["host"]
           /\ d.session[s]["host"] = Nothing => Known(d, s, "host") = d.session[s]["unknown"]
<1> USE SessionsAssumption
<1>1. \A h \in Hosts : d.session[s][h] \in SessionRecord \cup {Nothing}
  BY DEF DiskType
<1>2. Filed(d, s) \subseteq Hosts /\ \A h \in Hosts : h \in Filed(d, s) <=> d.session[s][h] # Nothing
  BY DEF Filed
<1>3. ASSUME NEW host \in Hosts
      PROVE /\ Found(d, s, host) \subseteq Filed(d, s)
            /\ Known(d, s, host) \in SessionRecord \cup {Nothing}
            /\ Known(d, s, host) = Nothing <=> Found(d, s, host) = {}
  <2>1. Found(d, s, host) \subseteq Filed(d, s)
    BY <1>2 DEF Found
  <2>2. Found(d, s, host) # {} => (CHOOSE h \in Found(d, s, host) : TRUE) \in Found(d, s, host)
    OBVIOUS
  <2> QED
    BY <1>1, <1>2, <2>1, <2>2 DEF Known
<1>4. Bound(d, s) \in Works \cup {Nothing}
  BY <1>3 DEF Bound, WorkOf, SessionRecord, Hosts
<1>5. d.session[s]["host"] # Nothing => Known(d, s, "host") = d.session[s]["host"]
  <2> SUFFICES ASSUME d.session[s]["host"] # Nothing PROVE Known(d, s, "host") = d.session[s]["host"]
    OBVIOUS
  <2>1. Found(d, s, "host") = {"host"}
    BY <1>2 DEF Found, Hosts
  <2>2. \A h \in {"host"} : h = "host"
    OBVIOUS
  <2>3. (CHOOSE h \in {"host"} : TRUE) = "host"
    OBVIOUS
  <2> QED
    BY <2>1, <2>3 DEF Known
<1>6. d.session[s]["host"] = Nothing => Known(d, s, "host") = d.session[s]["unknown"]
  <2> SUFFICES ASSUME d.session[s]["host"] = Nothing PROVE Known(d, s, "host") = d.session[s]["unknown"]
    OBVIOUS
  <2>1. "host" \notin Filed(d, s) /\ Found(d, s, "host") = Filed(d, s)
    BY <1>2 DEF Found, Hosts
  <2>2. CASE d.session[s]["unknown"] = Nothing
    BY <1>2, <2>1, <2>2 DEF Known, Hosts
  <2>3. CASE d.session[s]["unknown"] # Nothing
    <3>1. Filed(d, s) = {"unknown"}
      BY <1>2, <2>1, <2>3 DEF Hosts
    <3>2. (CHOOSE h \in {"unknown"} : TRUE) = "unknown"
      OBVIOUS
    <3> QED
      BY <2>1, <3>1, <3>2 DEF Known
  <2> QED
    BY <2>2, <2>3
<1> QED
  BY <1>2, <1>3, <1>4, <1>5, <1>6

(* Saving a session record that links to a handoff on disk keeps the files *)
(* sound and every other record.                                           *)
LEMMA PutFine ==
    ASSUME NEW d, DiskOk(d), NEW s \in Sessions, NEW host \in Hosts, NEW r \in SessionRecord \cup {Nothing},
           r # Nothing /\ r.handoff # Nothing => r.handoff[2] \in DOMAIN d.handoffs[r.handoff[1]]
    PROVE  LET e == Put(d, s, host, r) IN
           /\ DiskOk(e) /\ Steady(d, e) /\ e.agent = d.agent /\ e.handoffs = d.handoffs /\ e.body = d.body
           /\ e.session[s][host] = r
           /\ \A t \in Sessions, h \in Hosts : <<t, h>> # <<s, host>> => e.session[t][h] = d.session[t][h]
<1> DEFINE e == Put(d, s, host, r)
<1>1. d \in DiskType
  BY DEF DiskOk
<1>2. e.session = [d.session EXCEPT ![s][host] = r]
  BY <1>1 DEF Put, DiskType
<1>3. e \in DiskType
  BY <1>1 DEF Put, DiskType
<1>4. Steady(d, e) /\ e.agent = d.agent /\ e.handoffs = d.handoffs /\ e.body = d.body
  BY <1>1 DEF Put, DiskType, Steady
<1>5. e.session[s][host] = r
      /\ \A t \in Sessions, h \in Hosts : <<t, h>> # <<s, host>> => e.session[t][h] = d.session[t][h]
  BY <1>1, <1>2 DEF DiskType
<1> HIDE DEF e
<1>6. Links(e)
  <2> SUFFICES ASSUME NEW t \in Sessions, NEW h \in Hosts,
                      e.session[t][h] # Nothing, e.session[t][h].handoff # Nothing
               PROVE  e.session[t][h].handoff[2] \in DOMAIN e.handoffs[e.session[t][h].handoff[1]]
    BY DEF Links
  <2>1. CASE t = s /\ h = host
    BY <2>1, <1>4, <1>5
  <2>2. CASE <<t, h>> # <<s, host>>
    BY <2>2, <1>4, <1>5 DEF DiskOk, Links
  <2> QED
    BY <2>1, <2>2
<1>7. Apart(e)
  BY <1>4 DEF DiskOk, Apart
<1> QED
  BY <1>3, <1>4, <1>5, <1>6, <1>7 DEF e, DiskOk

(* Naming the agent of a Work keeps the files sound.                       *)
LEMMA NamesFine ==
    ASSUME NEW d, DiskOk(d), NEW w \in Works \cup {Nothing}, NEW host \in Hosts
    PROVE  LET e == Names(d, w, host) IN
           /\ DiskOk(e) /\ Steady(d, e) /\ e.session = d.session /\ e.handoffs = d.handoffs /\ e.body = d.body
           /\ \A v \in Works : e.agent[v] = IF v = w THEN host ELSE d.agent[v]
<1> DEFINE e == Names(d, w, host)
<1>1. d \in DiskType
  BY DEF DiskOk
<1>2. e \in DiskType /\ Steady(d, e) /\ e.session = d.session /\ e.handoffs = d.handoffs /\ e.body = d.body
  BY <1>1, SessionsAssumption DEF Names, DiskType, Steady
<1>3. \A v \in Works : e.agent[v] = IF v = w THEN host ELSE d.agent[v]
  BY <1>1, SessionsAssumption DEF Names, DiskType, Places
<1> HIDE DEF e
<1>4. Links(e) /\ Apart(e)
  BY <1>2 DEF DiskOk, Links, Apart
<1> QED
  BY <1>2, <1>3, <1>4 DEF e, DiskOk

(* register_session leaves sound files after each of its writes, names the *)
(* agent of a Work only when the session is attached, and without a Work   *)
(* moves no session.                                                       *)
LEMMA RegisterFine ==
    ASSUME NEW d, DiskOk(d), NEW s \in Sessions, NEW host \in Hosts, NEW w \in Works \cup {Nothing}
    PROVE  LET r == Register(d, s, host, w) IN
           /\ r \in Seq(DiskType) /\ Len(r) = 4
           /\ \A i \in 1..4 : DiskOk(r[i]) /\ Steady(d, r[i]) /\ Named(d, r[i])
           /\ w = Nothing /\ host = "host" => \A i \in 1..4 : Unmoved(d, r[i])
           /\ host = "host" => r[4].session[s]["host"] # Nothing
<1> DEFINE known  == Known(d, s, host)
           rekeys == host = "host" /\ Found(d, s, host) = {"unknown"}
           filed  == IF known = Nothing \/ rekeys THEN host ELSE CHOOSE h \in Found(d, s, host) : TRUE
           rec    == [work    |-> IF w # Nothing \/ known = Nothing THEN w ELSE known.work,
                      status  |-> "active",
                      handoff |-> IF known = Nothing THEN Nothing ELSE known.handoff]
           saved  == Put(d, s, filed, rec)
           rekeyed == IF rekeys THEN Put(saved, s, "unknown", Nothing) ELSE saved
           named  == Names(rekeyed, w, filed)
<1>1. Register(d, s, host, w) = <<d, saved, rekeyed, named>>
  BY DEF Register
<1>2. d \in DiskType
  BY DEF DiskOk
<1>3. known \in SessionRecord \cup {Nothing} /\ (known = Nothing <=> Found(d, s, host) = {})
      /\ Found(d, s, host) \subseteq Hosts
  BY <1>2, KnownIs
<1>4. filed \in Hosts /\ (~(known = Nothing \/ rekeys) => filed \in Found(d, s, host))
  BY <1>3
<1>0. ASSUME host = "host" PROVE filed = "host"
  <2>1. CASE known = Nothing \/ rekeys
    BY <2>1, <1>0 DEF filed
  <2>2. CASE ~(known = Nothing \/ rekeys)
    <3>1. filed \in Found(d, s, "host")
      BY <1>4, <1>0, <2>2
    <3>2. Found(d, s, "host") # {"unknown"}
      BY <1>0, <2>2
    <3>3. \A h \in Hosts : h \in Found(d, s, "host") =>
             h \in Filed(d, s) /\ ("host" \in Filed(d, s) => h = "host")
      BY <1>2, KnownIs DEF Found, Hosts
    <3> QED
      BY <1>3, <1>4, <1>0, <3>1, <3>2, <3>3 DEF Hosts, Found
  <2> QED
    BY <2>1, <2>2
<1>5. rec \in SessionRecord /\ rec # Nothing
  BY <1>3, SessionsAssumption DEF SessionRecord
<1>6. rec.handoff # Nothing => rec.handoff[2] \in DOMAIN d.handoffs[rec.handoff[1]]
  <2> SUFFICES ASSUME known # Nothing, known.handoff # Nothing
               PROVE  known.handoff[2] \in DOMAIN d.handoffs[known.handoff[1]]
    OBVIOUS
  <2>1. PICK h \in Hosts : known = d.session[s][h]
    BY <1>3 DEF Known
  <2> QED
    BY <2>1 DEF DiskOk, Links
<1>7. rec.work = IF w # Nothing \/ known = Nothing THEN w ELSE known.work
  OBVIOUS
<1> HIDE DEF rec, known, filed
<1>8. /\ DiskOk(saved) /\ Steady(d, saved) /\ saved.agent = d.agent /\ saved.handoffs = d.handoffs
      /\ saved.session[s][filed] = rec
      /\ \A t \in Sessions, h \in Hosts : <<t, h>> # <<s, filed>> => saved.session[t][h] = d.session[t][h]
  BY <1>4, <1>5, <1>6, PutFine
<1> HIDE DEF saved
<1>9. /\ DiskOk(rekeyed) /\ Steady(d, rekeyed) /\ rekeyed.agent = d.agent
      /\ rekeyed.session[s][filed] = rec
      /\ \A t \in Sessions, h \in Hosts : <<t, h>> # <<s, filed>> =>
            rekeyed.session[t][h] = IF rekeys /\ t = s /\ h = "unknown" THEN Nothing ELSE d.session[t][h]
  <2>1. CASE ~rekeys
    BY <1>8, <2>1
  <2>2. CASE rekeys
    <3>1. filed = "host" /\ "unknown" \in Hosts
      BY <2>2 DEF filed, Hosts
    <3>2. /\ DiskOk(rekeyed) /\ Steady(saved, rekeyed) /\ rekeyed.agent = saved.agent
          /\ rekeyed.session[s]["unknown"] = Nothing
          /\ \A t \in Sessions, h \in Hosts : <<t, h>> # <<s, "unknown">> => rekeyed.session[t][h] = saved.session[t][h]
      BY <1>8, <2>2, <3>1, PutFine
    <3> HIDE DEF rekeyed
    <3>3. rekeyed.session[s][filed] = rec
      BY <1>4, <1>8, <3>1, <3>2
    <3>4. Steady(d, rekeyed)
      BY <1>8, <3>2 DEF Steady
    <3> QED
      BY <1>8, <2>2, <3>1, <3>2, <3>3, <3>4
  <2> QED
    BY <2>1, <2>2
<1> HIDE DEF rekeyed
<1>10. /\ DiskOk(named) /\ Steady(rekeyed, named) /\ named.session = rekeyed.session
       /\ \A v \in Works : named.agent[v] = IF v = w THEN filed ELSE rekeyed.agent[v]
  BY <1>4, <1>9, NamesFine, ZenonT(30)
<1> HIDE DEF named
<1>11. Steady(d, named)
  BY <1>9, <1>10 DEF Steady
<1>12. Named(d, named)
  <2> SUFFICES ASSUME NEW v \in Works, named.agent[v] # d.agent[v]
               PROVE  /\ named.agent[v] \in Hosts
                      /\ \E t \in Sessions : named.session[t][named.agent[v]] # Nothing
                                             /\ named.session[t][named.agent[v]].work = v
    BY DEF Named
  <2>1. v = w /\ named.agent[v] = filed
    BY <1>9, <1>10
  <2>2. rec.work = v
    BY <2>1, <1>7, SessionsAssumption DEF Places
  <2> QED
    BY <1>4, <1>5, <1>9, <1>10, <2>1, <2>2
<1>13. Named(d, d) /\ Named(d, saved) /\ Named(d, rekeyed) /\ Steady(d, d)
  BY <1>8, <1>9 DEF Named, Steady
<1>14. ASSUME w = Nothing, host = "host" PROVE Unmoved(d, saved) /\ Unmoved(d, rekeyed) /\ Unmoved(d, named)
  <2>1. /\ saved \in DiskType /\ rekeyed \in DiskType /\ named \in DiskType
    BY <1>8, <1>9, <1>10 DEF DiskOk
  <2>2. filed = "host"
    BY <1>0, <1>14
  <2>3. rec.work = Bound(d, s)
    BY <1>7, <1>14 DEF Bound, WorkOf, known
  <2>4. ASSUME NEW e \in {saved, rekeyed, named}, NEW t \in Sessions PROVE Bound(e, t) = Bound(d, t)
    <3>1. e \in DiskType
      BY <2>1
    <3>2. CASE t = s
      <4>1. e.session[s]["host"] = rec
        BY <1>8, <1>9, <1>10, <2>2
      <4>2. Known(e, s, "host") = rec
        BY <1>5, <3>1, <4>1, KnownIs
      <4> QED
        BY <1>5, <2>3, <3>2, <4>2 DEF Bound, WorkOf
    <3>3. CASE t # s
      <4>1. e.session[t]["host"] = d.session[t]["host"] /\ e.session[t]["unknown"] = d.session[t]["unknown"]
        BY <1>8, <1>9, <1>10, <3>3 DEF Hosts
      <4>2. Known(e, t, "host") = Known(d, t, "host")
        BY <1>2, <3>1, <4>1, KnownIs
      <4> QED
        BY <4>2 DEF Bound, WorkOf
    <3> QED
      BY <3>2, <3>3
  <2> QED
    BY <2>4 DEF Unmoved
<1>15. host = "host" => named.session[s]["host"] # Nothing
  BY <1>0, <1>4, <1>5, <1>9, <1>10
<1>16. saved \in DiskType /\ rekeyed \in DiskType /\ named \in DiskType
  BY <1>8, <1>9, <1>10 DEF DiskOk
<1> DEFINE r == Register(d, s, host, w)
<1>17. r \in Seq(DiskType) /\ Len(r) = 4 /\ r[1] = d /\ r[2] = saved /\ r[3] = rekeyed /\ r[4] = named
  BY <1>1, <1>2, <1>16
<1> HIDE DEF r
<1>18. \A i \in 1..4 : r[i] \in {d, saved, rekeyed, named}
  BY <1>17
<1>19. Unmoved(d, d)
  BY DEF Unmoved
<1>20. \A i \in 1..4 : DiskOk(r[i]) /\ Steady(d, r[i]) /\ Named(d, r[i])
  BY <1>8, <1>9, <1>10, <1>11, <1>12, <1>13, <1>18
<1>21. w = Nothing /\ host = "host" => \A i \in 1..4 : Unmoved(d, r[i])
  BY <1>14, <1>18, <1>19
<1> QED
  BY <1>15, <1>17, <1>20, <1>21 DEF r

-----------------------------------------------------------------------------
(* Sequences of writes, and the handlers made of them.                     *)

(* A disk a handler may leave after another one.                           *)
Follows(d, e) == DiskOk(e) /\ Steady(d, e) /\ Named(d, e)

(* The same, of writes that attach no session and name no agent.           *)
Stays(d, e) == DiskOk(e) /\ Steady(d, e) /\ Attached(d, e)

(* Writing nothing is allowed.                                             *)
LEMMA Itself == ASSUME NEW d, DiskOk(d) PROVE Follows(d, d) /\ Stays(d, d) /\ Unmoved(d, d)
BY DEF Follows, Stays, Steady, Named, Attached, Unmoved

(* Sessions that stay attached do not move.                                *)
LEMMA AttachedUnmoved ==
    ASSUME NEW d \in DiskType, NEW e \in DiskType, Attached(d, e)
    PROVE  Unmoved(d, e)
<1> SUFFICES ASSUME NEW s \in Sessions PROVE Bound(e, s) = Bound(d, s)
  BY DEF Unmoved
<1>1. /\ e.session[s]["host"] = Nothing <=> d.session[s]["host"] = Nothing
      /\ e.session[s]["unknown"] = Nothing <=> d.session[s]["unknown"] = Nothing
      /\ d.session[s]["host"] # Nothing => e.session[s]["host"].work = d.session[s]["host"].work
      /\ d.session[s]["unknown"] # Nothing => e.session[s]["unknown"].work = d.session[s]["unknown"].work
  BY DEF Attached, Hosts
<1> QED
  BY <1>1, KnownIs DEF Bound, WorkOf

(* Writes that attach no session move none.                                *)
LEMMA StaysUnmoved ==
    ASSUME NEW d, DiskOk(d), NEW e, Stays(d, e)
    PROVE  Unmoved(d, e)
BY AttachedUnmoved DEF DiskOk, Stays

(* Writes that attach no session keep the agents named.                    *)
LEMMA NamedOn ==
    ASSUME NEW d, NEW e, NEW f, Named(d, e), Attached(e, f)
    PROVE  Named(d, f)
<1> SUFFICES ASSUME NEW w \in Works, f.agent[w] # d.agent[w]
             PROVE  /\ f.agent[w] \in Hosts
                    /\ \E s \in Sessions : f.session[s][f.agent[w]] # Nothing /\ f.session[s][f.agent[w]].work = w
  BY DEF Named
<1>1. f.agent = e.agent
  BY DEF Attached
<1>2. e.agent[w] \in Hosts
  BY <1>1 DEF Named
<1>3. PICK s \in Sessions : e.session[s][e.agent[w]] # Nothing /\ e.session[s][e.agent[w]].work = w
  BY <1>1 DEF Named
<1> QED
  BY <1>1, <1>2, <1>3 DEF Attached

(* Such writes may come after any others.                                  *)
LEMMA FollowsOn ==
    ASSUME NEW d, NEW e, NEW f, Follows(d, e), Stays(e, f)
    PROVE  Follows(d, f)
<1>1. Steady(d, f)
  BY DEF Follows, Stays, Steady
<1>2. Named(d, f)
  BY NamedOn DEF Follows, Stays
<1> QED
  BY <1>1, <1>2 DEF Follows, Stays

(* And after one another.                                                  *)
LEMMA StaysOn ==
    ASSUME NEW d, NEW e, NEW f, Stays(d, e), Stays(e, f)
    PROVE  Stays(d, f)
<1>1. Steady(d, f)
  BY DEF Stays, Steady
<1>2. Attached(d, f)
  BY DEF Stays, Attached
<1> QED
  BY <1>1, <1>2 DEF Stays

(* update_session_event leaves sound files after each of its writes and    *)
(* the session on file; with a late event it moves no session.             *)
LEMMA UpdateFine ==
    ASSUME NEW d, DiskOk(d), NEW s \in Sessions, NEW event, NEW w \in Works \cup {Nothing}
    PROVE  LET u == Update(d, s, event, w) IN
           /\ u \in Seq(DiskType) /\ Len(u) > 0
           /\ \A i \in 1..Len(u) : Follows(d, u[i])
           /\ event \in Late => \A i \in 1..Len(u) : Unmoved(d, u[i])
           /\ Last(u).session[s]["host"] # Nothing
<1> DEFINE u == Update(d, s, event, w)
           meant == Meant(d, s, event, w)
           known == Known(d, s, "host")
           rec   == [known EXCEPT !.work = IF meant # Nothing THEN meant ELSE @,
                                  !.status = IF event = "session_end" THEN @
                                             ELSE IF @ = "ended" THEN @ ELSE "active"]
           saved == Put(d, s, "host", rec)
           named == IF w # Nothing /\ WorkOf(saved, s, "host") = w THEN Names(saved, w, "host") ELSE saved
<1>1. meant \in Works \cup {Nothing} /\ (event \in Late => meant = Nothing)
  BY DEF Meant
<1> HIDE DEF meant
<1>2. CASE Found(d, s, "host") # {"host"}
  <2>1. u = Register(d, s, "host", meant)
    BY <1>2 DEF Update, meant
  <2>2. "host" \in Hosts
    BY DEF Hosts
  <2> QED
    BY <1>1, <2>1, <2>2, RegisterFine, SMTT(30) DEF Follows, Last
<1>3. CASE Found(d, s, "host") = {"host"}
  <2>1. u = <<d, saved, named>>
    BY <1>3 DEF Update, meant
  <2>2. d \in DiskType /\ "host" \in Hosts
    BY DEF DiskOk, Hosts
  <2>3. d.session[s]["host"] # Nothing /\ known = d.session[s]["host"] /\ known \in SessionRecord
    <3>1. "host" \in Filed(d, s)
      BY <1>3, <2>2, KnownIs
    <3> QED
      BY <2>2, <3>1, KnownIs
  <2> HIDE DEF known
  <2>4. /\ rec \in SessionRecord /\ rec # Nothing /\ rec.handoff = known.handoff
        /\ rec.work = IF meant # Nothing THEN meant ELSE known.work
    BY <1>1, <2>3, SessionsAssumption, ZenonT(40) DEF SessionRecord
  <2> HIDE DEF rec
  <2>5. rec.handoff # Nothing => rec.handoff[2] \in DOMAIN d.handoffs[rec.handoff[1]]
    BY <2>2, <2>3, <2>4 DEF DiskOk, Links
  <2>6. /\ DiskOk(saved) /\ Steady(d, saved) /\ saved.agent = d.agent
        /\ saved.session[s]["host"] = rec
        /\ \A t \in Sessions, h \in Hosts : <<t, h>> # <<s, "host">> => saved.session[t][h] = d.session[t][h]
    BY <2>2, <2>4, <2>5, PutFine
  <2> HIDE DEF saved
  <2>7. saved \in DiskType
    BY <2>6 DEF DiskOk
  <2>8. WorkOf(saved, s, "host") = rec.work
    BY <2>4, <2>6, <2>7, KnownIs DEF WorkOf
  <2>9. Follows(d, saved)
    BY <2>6 DEF Follows, Named
  <2>10. /\ DiskOk(named) /\ Steady(saved, named) /\ named.session = saved.session
         /\ Follows(d, named)
    <3>1. CASE w # Nothing /\ WorkOf(saved, s, "host") = w
      <4>1. /\ DiskOk(named) /\ Steady(saved, named) /\ named.session = saved.session
            /\ \A v \in Works : named.agent[v] = IF v = w THEN "host" ELSE saved.agent[v]
        BY <2>2, <2>6, <3>1, NamesFine
      <4> HIDE DEF named
      <4>2. Named(d, named)
        <5> SUFFICES ASSUME NEW v \in Works, named.agent[v] # d.agent[v]
                     PROVE  /\ named.agent[v] \in Hosts
                            /\ named.session[s][named.agent[v]] # Nothing /\ named.session[s][named.agent[v]].work = v
          BY DEF Named
        <5> QED
          BY <2>2, <2>4, <2>6, <2>8, <3>1, <4>1
      <4>3. Steady(d, named)
        BY <2>6, <4>1 DEF Steady
      <4> QED
        BY <4>1, <4>2, <4>3 DEF Follows
    <3>2. CASE ~(w # Nothing /\ WorkOf(saved, s, "host") = w)
      BY <2>6, <2>9, <3>2 DEF Steady
    <3> QED
      BY <3>1, <3>2
  <2> HIDE DEF named
  <2>11. named \in DiskType
    BY <2>10 DEF DiskOk
  <2>12. ASSUME event \in Late PROVE Unmoved(d, saved) /\ Unmoved(d, named)
    <3>1. rec.work = known.work
      BY <1>1, <2>4, <2>12
    <3>2. Stays(d, saved)
      BY <2>2, <2>3, <2>4, <2>6, <3>1 DEF Stays, Attached
    <3>3. Unmoved(d, saved)
      BY <3>2, StaysUnmoved
    <3>4. \A t \in Sessions : Known(named, t, "host") = Known(saved, t, "host")
      BY <2>7, <2>10, <2>11, KnownIs
    <3>5. Unmoved(d, named)
      BY <3>3, <3>4 DEF Unmoved, Bound, WorkOf
    <3> QED
      BY <3>3, <3>5
  <2>13. u \in Seq(DiskType) /\ Len(u) = 3 /\ u[1] = d /\ u[2] = saved /\ u[3] = named
    BY <2>1, <2>2, <2>7, <2>11
  <2> HIDE DEF u
  <2>14. \A i \in 1..3 : u[i] \in {d, saved, named}
    BY <2>13
  <2> QED
    BY <2>4, <2>6, <2>9, <2>10, <2>12, <2>13, <2>14, Itself DEF u, Last
<1> QED
  BY <1>2, <1>3

(* Linking a session to a handoff on disk attaches no session.             *)
LEMMA LinkFine ==
    ASSUME NEW d, DiskOk(d), NEW s \in Sessions \cup {Nothing}, NEW w \in Works, NEW i \in DOMAIN d.handoffs[w]
    PROVE  Stays(d, LinkTo(d, s, w, i)) /\ LinkTo(d, s, w, i).handoffs = d.handoffs
<1>1. d \in DiskType /\ "host" \in Hosts
  BY DEF DiskOk, Hosts
<1>2. CASE s = Nothing \/ Found(d, s, "host") = {}
  BY <1>2, Itself DEF LinkTo
<1>3. CASE ~(s = Nothing \/ Found(d, s, "host") = {})
  <2>1. s \in Sessions
    BY <1>3
  <2>2. PICK h \in Hosts : h = (CHOOSE g \in Found(d, s, "host") : TRUE) /\ h \in Found(d, s, "host")
    BY <1>1, <1>3, <2>1, KnownIs
  <2>3. d.session[s][h] \in SessionRecord /\ d.session[s][h] # Nothing
    <3>1. d.session \in [Sessions -> [Hosts -> SessionRecord \cup {Nothing}]]
      BY <1>1 DEF DiskType
    <3>2. d.session[s] \in [Hosts -> SessionRecord \cup {Nothing}]
      BY <2>1, <3>1
    <3>3. d.session[s][h] \in SessionRecord \cup {Nothing}
      BY <3>2
    <3>4. h \in Filed(d, s)
      BY <1>1, <2>1, <2>2, KnownIs
    <3> QED
      BY <3>3, <3>4 DEF Filed
  <2> DEFINE r == [d.session[s][h] EXCEPT !.handoff = <<w, i>>]
  <2>4. LinkTo(d, s, w, i) = Put(d, s, h, r)
    BY <1>3, <2>2 DEF LinkTo, Put
  <2>5. i \in Nat \ {0} /\ r \in SessionRecord /\ r # Nothing /\ r.handoff = <<w, i>>
        /\ r.work = d.session[s][h].work
    <3>1. i \in Nat \ {0}
      BY <1>1 DEF DiskType
    <3> QED
      BY <2>3, <3>1, SessionsAssumption DEF SessionRecord
  <2> HIDE DEF r
  <2>6. r.handoff[2] \in DOMAIN d.handoffs[r.handoff[1]]
    BY <2>5
  <2> DEFINE e == Put(d, s, h, r)
  <2>7. /\ DiskOk(e) /\ Steady(d, e) /\ e.agent = d.agent /\ e.handoffs = d.handoffs /\ e.session[s][h] = r
        /\ \A t \in Sessions, g \in Hosts : <<t, g>> # <<s, h>> => e.session[t][g] = d.session[t][g]
    BY <2>1, <2>5, <2>6, PutFine
  <2> HIDE DEF e
  <2>8. Attached(d, e)
    BY <2>1, <2>3, <2>5, <2>7 DEF Attached
  <2> QED
    BY <2>4, <2>7, <2>8 DEF Stays, e
<1> QED
  BY <1>2, <1>3

(* create_handoff adds a record that differs from the last one, links it   *)
(* only when it is there, and attaches no session.                         *)
LEMMA HandOverFine ==
    ASSUME NEW d, DiskOk(d), NEW w \in Works, NEW s \in Sessions \cup {Nothing},
           NEW reason \in {"stop", "end", "switch", "suspend"}
    PROVE  LET q == HandOver(d, w, s, reason) IN
           q \in Seq(DiskType) /\ Len(q) > 0 /\ \A i \in 1..Len(q) : Stays(d, q[i])
<1> DEFINE h == Says(d, w, s, reason)
           n == Len(d.handoffs[w])
           recorded == [d EXCEPT !.handoffs[w] = Append(@, h)]
           q == HandOver(d, w, s, reason)
<1>1. d \in DiskType /\ d.handoffs[w] \in Seq(Handoff) /\ n \in Nat
  BY DEF DiskOk, DiskType
<1>2. h \in Handoff
  BY <1>1 DEF Says, Handoff, DiskType
<1> HIDE DEF h
<1>3. Stays(d, d)
  BY Itself
<1>4. CASE Full(d)
  <2>1. q = <<d>>
    BY <1>4 DEF HandOver
  <2> QED
    BY <1>1, <1>3, <2>1
<1>5. CASE ~Full(d) /\ Repeats(d, w, h)
  <2>1. q = <<d, LinkTo(d, s, w, n)>>
    BY <1>5 DEF HandOver, h
  <2>2. n \in DOMAIN d.handoffs[w]
    BY <1>1, <1>5 DEF Repeats
  <2>3. Stays(d, LinkTo(d, s, w, n))
    BY <2>2, LinkFine
  <2>4. LinkTo(d, s, w, n) \in DiskType
    BY <2>3 DEF Stays, DiskOk
  <2>5. q \in Seq(DiskType) /\ Len(q) = 2 /\ q[1] = d /\ q[2] = LinkTo(d, s, w, n)
    BY <1>1, <2>1, <2>4
  <2> HIDE DEF q, n
  <2> QED
    BY <1>3, <2>3, <2>5 DEF q
<1>6. CASE ~Full(d) /\ ~Repeats(d, w, h)
  <2>1. q = <<d, recorded, LinkTo(recorded, s, w, n + 1)>>
    BY <1>6 DEF HandOver, h
  <2>2. /\ recorded \in DiskType /\ Steady(d, recorded) /\ Attached(d, recorded) /\ recorded.session = d.session
        /\ recorded.handoffs = [d.handoffs EXCEPT ![w] = Append(@, h)]
    <3> DEFINE l == [d.handoffs EXCEPT ![w] = Append(@, h)]
    <3>1. l \in [Works -> Seq(Handoff)]
      BY <1>1, <1>2 DEF DiskType
    <3>2. recorded = [d EXCEPT !.handoffs = l]
      OBVIOUS
    <3> HIDE DEF recorded, l
    <3>3. recorded \in DiskType /\ recorded.handoffs = l /\ recorded.session = d.session
          /\ recorded.agent = d.agent
      BY <1>1, <3>1, <3>2 DEF DiskType
    <3>4. Steady(d, recorded)
      BY <1>1, <3>2 DEF DiskType, Steady
    <3> QED
      BY <3>3, <3>4 DEF Attached, l
  <2> HIDE DEF recorded
  <2>3. /\ recorded.handoffs[w] = Append(d.handoffs[w], h)
        /\ \A v \in Works : v # w => recorded.handoffs[v] = d.handoffs[v]
    BY <1>1, <2>2 DEF DiskType
  <2>4. \A v \in Works : DOMAIN d.handoffs[v] \subseteq DOMAIN recorded.handoffs[v]
    <3> SUFFICES ASSUME NEW v \in Works PROVE DOMAIN d.handoffs[v] \subseteq DOMAIN recorded.handoffs[v]
      OBVIOUS
    <3>1. CASE v = w
      BY <1>1, <1>2, <2>3, <3>1
    <3>2. CASE v # w
      BY <2>3, <3>2
    <3> QED
      BY <3>1, <3>2
  <2>5. Links(recorded)
    <3> SUFFICES ASSUME NEW t \in Sessions, NEW g \in Hosts,
                        d.session[t][g] # Nothing, d.session[t][g].handoff # Nothing
                 PROVE  d.session[t][g].handoff[2] \in DOMAIN recorded.handoffs[d.session[t][g].handoff[1]]
      BY <2>2 DEF Links
    <3>1. d.session[t][g] \in SessionRecord
      BY <1>1 DEF DiskType
    <3>2. d.session[t][g].handoff[1] \in Works
      BY <3>1 DEF SessionRecord
    <3> QED
      BY <2>4, <3>2 DEF DiskOk, Links
  <2>6. Apart(recorded)
    <3> SUFFICES ASSUME NEW v \in Works, NEW i \in 1..(Len(recorded.handoffs[v]) - 1)
                 PROVE  recorded.handoffs[v][i] # recorded.handoffs[v][i + 1]
      BY DEF Apart
    <3>1. CASE v # w
      BY <2>3, <3>1 DEF DiskOk, Apart
    <3>2. CASE v = w
      <4> DEFINE l == d.handoffs[w]
      <4>1. l \in Seq(Handoff) /\ Len(l) = n /\ recorded.handoffs[v] = Append(l, h)
        BY <1>1, <2>3, <3>2
      <4> HIDE DEF l, h
      <4>2. h \in Handoff
        BY <1>2
      <4>3. i \in 1..Len(l) /\ Append(l, h)[i] = l[i]
        BY <4>1, <4>2
      <4>4. CASE i < Len(l)
        <5>1. Append(l, h)[i + 1] = l[i + 1]
          BY <4>1, <4>2, <4>3, <4>4
        <5>2. l[i] # l[i + 1]
          BY <1>1, <3>2, <4>1, <4>3, <4>4 DEF DiskOk, Apart, l
        <5> QED
          BY <4>1, <4>3, <5>1, <5>2
      <4>5. CASE i = Len(l)
        <5>1. Append(l, h)[i + 1] = h
          BY <4>1, <4>2, <4>3, <4>5
        <5>2. l[i] # h
          BY <1>6, <3>2, <4>1, <4>3, <4>5 DEF Repeats, Last, l, h
        <5> QED
          BY <4>1, <4>3, <5>1, <5>2
      <4> QED
        BY <4>3, <4>4, <4>5
    <3> QED
      BY <3>1, <3>2
  <2>7. Stays(d, recorded)
    BY <2>2, <2>5, <2>6 DEF Stays, DiskOk
  <2>8. n + 1 \in DOMAIN recorded.handoffs[w]
    BY <1>1, <1>2, <2>3
  <2>9. Stays(recorded, LinkTo(recorded, s, w, n + 1))
    BY <2>7, <2>8, LinkFine DEF Stays
  <2>10. Stays(d, LinkTo(recorded, s, w, n + 1))
    BY <2>7, <2>9, StaysOn
  <2>11. LinkTo(recorded, s, w, n + 1) \in DiskType
    BY <2>10 DEF Stays, DiskOk
  <2>12. q \in Seq(DiskType) /\ Len(q) = 3 /\ q[1] = d /\ q[2] = recorded /\ q[3] = LinkTo(recorded, s, w, n + 1)
    BY <1>1, <2>1, <2>2, <2>11
  <2> HIDE DEF q, n
  <2> QED
    BY <1>3, <2>7, <2>10, <2>12 DEF q
<1> QED
  BY <1>4, <1>5, <1>6

-----------------------------------------------------------------------------
(* What a step keeps.                                                      *)

(* The bounds are kept by the step.                                        *)
UsedOk == used' \in [faults : 0..limits.faults, installs : 0..limits.installs]

(* The step begins a write only for the active Work or an unattached       *)
(* coordinator, outside a switch, and with nothing left to load.           *)
Begins ==
    \A c \in Writing : stage[c] = "new" /\ stage'[c] \in {"running", "unseen"} =>
        /\ Bound(disk, CallOf[c]) \in {Nothing, disk.active} \/ disk.active = Nothing
        /\ disk.journal = Nothing
        /\ ~owed

(* A step that prepares a switch leaves no call open in the Work it        *)
(* leaves.                                                                 *)
Leaves ==
    disk.journal = Nothing /\ disk'.journal # Nothing =>
       \A c \in Calls : stage[c] \in {"running", "ended"} /\ disk.route[c] = disk'.journal.source
                        => disk.route[c] \in disk.settled[c]

(* All a step keeps: the invariant, and what the action properties say of  *)
(* it.                                                                     *)
Kept ==
    /\ IInv'
    /\ disk.journal = Nothing => Named(disk, disk')
    /\ Begins /\ Leaves

(* The invariant gives the shape of the bounds and a sound disk.           *)
LEMMA LimitsAre ==
    ASSUME IInv
    PROVE  /\ limits \in [sessions : SUBSET Sessions, calls : SUBSET Calls, body : Nat, handoffs : Nat,
                          faults : Nat, installs : Nat, rekeys : BOOLEAN]
           /\ used.faults \in 0..limits.faults /\ used.installs \in 0..limits.installs
           /\ disk \in DiskType /\ DiskOk(disk)
BY SessionsAssumption DEF IInv, TypeOK

(* A handler that completes uses nothing up.                               *)
LEMMA UsedUnchanged == ASSUME IInv, UNCHANGED used PROVE UsedOk
BY DEF IInv, TypeOK, UsedOk

(* A handler cut short uses up one fault.                                  *)
LEMMA FailureCounted == ASSUME IInv, MayFail, Fails PROVE UsedOk
BY LimitsAre DEF IInv, TypeOK, UsedOk, MayFail, Fails

(* A handler leaves one of the disks of its sequence.                      *)
LEMMA WritesOne ==
    ASSUME IInv, NEW q \in Seq(DiskType), Len(q) > 0, Writes(q)
    PROVE  UsedOk /\ \E i \in 1..Len(q) : disk' = q[i]
<1>1. UsedOk
  BY UsedUnchanged, FailureCounted DEF Writes
<1>2. \E i \in 1..Len(q) : disk' = q[i]
  BY DEF Writes, Last
<1> QED
  BY <1>1, <1>2

(* The elements of a concatenation come from its parts.                    *)
LEMMA Concatenated ==
    ASSUME NEW a \in Seq(DiskType), NEW b \in Seq(DiskType)
    PROVE  /\ a \o b \in Seq(DiskType) /\ Len(a \o b) = Len(a) + Len(b)
           /\ \A i \in 1..Len(a \o b) : \/ \E n \in 1..Len(a) : (a \o b)[i] = a[n]
                                        \/ \E n \in 1..Len(b) : (a \o b)[i] = b[n]
<1>1. a \o b \in Seq(DiskType) /\ Len(a \o b) = Len(a) + Len(b)
  OBVIOUS
<1>2. ASSUME NEW i \in 1..Len(a \o b), i > Len(a) PROVE (i - Len(a)) \in 1..Len(b) /\ (a \o b)[i] = b[i - Len(a)]
  BY <1>1, <1>2
<1>3. ASSUME NEW i \in 1..Len(a \o b), ~(i > Len(a)) PROVE i \in 1..Len(a) /\ (a \o b)[i] = a[i]
  BY <1>1, <1>3
<1> QED
  BY <1>1, <1>2, <1>3

(* A handler of two parts leaves a disk of one of them.                    *)
LEMMA WritesJoined ==
    ASSUME IInv, NEW a \in Seq(DiskType), NEW b \in Seq(DiskType), Len(a) > 0, Writes(a \o b)
    PROVE  UsedOk /\ ((\E i \in 1..Len(a) : disk' = a[i]) \/ (\E i \in 1..Len(b) : disk' = b[i]))
<1>1. a \o b \in Seq(DiskType) /\ Len(a \o b) > 0
  OBVIOUS
<1>2. UsedOk /\ \E i \in 1..Len(a \o b) : disk' = (a \o b)[i]
  BY <1>1, WritesOne, Zenon
<1>3. PICK i \in 1..Len(a \o b) : disk' = (a \o b)[i]
  BY <1>2
<1>4. (\E n \in 1..Len(a) : (a \o b)[i] = a[n]) \/ (\E n \in 1..Len(b) : (a \o b)[i] = b[n])
  BY Concatenated
<1>5. ASSUME NEW n \in 1..Len(a), (a \o b)[i] = a[n] PROVE \E m \in 1..Len(a) : disk' = a[m]
  BY <1>3, <1>5
<1>6. ASSUME NEW n \in 1..Len(b), (a \o b)[i] = b[n] PROVE \E m \in 1..Len(b) : disk' = b[m]
  BY <1>3, <1>6
<1> QED
  BY <1>2, <1>4, <1>5, <1>6

(* Writes that attach no session, appended to a handler, leave a handler.  *)
LEMMA JoinFollows ==
    ASSUME NEW d, NEW a \in Seq(DiskType), NEW b \in Seq(DiskType), Len(a) > 0, Len(b) > 0,
           \A i \in 1..Len(a) : Follows(d, a[i]), \A i \in 1..Len(b) : Stays(Last(a), b[i])
    PROVE  /\ a \o b \in Seq(DiskType) /\ Len(a \o b) > 0 /\ Last(a \o b) = Last(b)
           /\ \A i \in 1..Len(a \o b) : Follows(d, (a \o b)[i])
           /\ (\A i \in 1..Len(a) : Unmoved(d, a[i])) => \A i \in 1..Len(a \o b) : Unmoved(d, (a \o b)[i])
<1>1. a \o b \in Seq(DiskType) /\ Len(a \o b) > 0 /\ Len(a \o b) = Len(a) + Len(b)
  OBVIOUS
<1>2. Last(a \o b) = Last(b)
  BY <1>1 DEF Last
<1>3. Follows(d, Last(a))
  BY DEF Last
<1>4. ASSUME NEW i \in 1..Len(a \o b) PROVE Follows(d, (a \o b)[i])
  <2>1. CASE i <= Len(a)
    BY <1>1, <1>4, <2>1
  <2>2. CASE i > Len(a)
    <3>1. (i - Len(a)) \in 1..Len(b) /\ (a \o b)[i] = b[i - Len(a)]
      BY <1>1, <1>4, <2>2
    <3>2. Stays(Last(a), (a \o b)[i])
      BY <3>1
    <3> QED
      BY <1>3, <3>2, FollowsOn
  <2> QED
    BY <1>1, <2>1, <2>2
<1>5. ASSUME \A i \in 1..Len(a) : Unmoved(d, a[i]), NEW i \in 1..Len(a \o b) PROVE Unmoved(d, (a \o b)[i])
  <2>1. CASE i <= Len(a)
    BY <1>1, <1>5, <2>1
  <2>2. CASE i > Len(a)
    <3>1. (i - Len(a)) \in 1..Len(b) /\ (a \o b)[i] = b[i - Len(a)]
      BY <1>1, <1>5, <2>2
    <3>2. Stays(Last(a), (a \o b)[i]) /\ Unmoved(d, Last(a)) /\ DiskOk(Last(a))
      BY <1>3, <1>5, <3>1 DEF Last, Follows
    <3>3. Unmoved(Last(a), (a \o b)[i])
      BY <3>2, StaysUnmoved
    <3> QED
      BY <3>2, <3>3 DEF Unmoved
  <2> QED
    BY <1>1, <1>5, <2>1, <2>2
<1> QED
  BY <1>1, <1>2, <1>4, <1>5

(* Sessions and handoffs decide whether a disk of the right shape is       *)
(* sound.                                                                  *)
LEMMA SameHistory ==
    ASSUME NEW d, DiskOk(d), NEW e \in DiskType, e.session = d.session, e.handoffs = d.handoffs
    PROVE  DiskOk(e)
BY DEF DiskOk, Links, Apart

(* An event is about a Work or about none.                                 *)
LEMMA AboutType ==
    ASSUME NEW d \in DiskType, NEW s \in Sessions
    PROVE  /\ About(d, s) \in Works \cup {Nothing} /\ ObservedFor(d, s) \in Works \cup {Nothing}
<1>1. s \in Primary \/ (s \in Children /\ Parent[s] \in Sessions)
  BY SessionsAssumption DEF Sessions
<1>2. \A t \in Sessions : WorkOf(d, t, "host") \in Works \cup {Nothing}
  BY KnownIs DEF Bound
<1>3. d.active \in Works \cup {Nothing}
  BY DEF DiskType
<1> QED
  BY <1>1, <1>2, <1>3 DEF About, ObservedFor

(* A step that leaves sound files, starts and ends no call and forgets no  *)
(* owed restart keeps everything.                                          *)
LEMMA QuietKeeps ==
    ASSUME IInv, UsedOk, UNCHANGED <<stage, limits>>, DiskOk(disk'),
           disk'.route = disk.route, disk'.began = disk.began, disk'.done = disk.done,
           owed' \in BOOLEAN, owed' => "host" \in disk'.restarts,
           disk.journal = Nothing => disk'.journal = Nothing /\ Named(disk, disk')
    PROVE  Kept
<1>1. TypeOK'
  BY DEF IInv, TypeOK, UsedOk, DiskOk
<1>2. CallInv'
  BY DEF IInv, CallInv
<1>3. Begins
  BY SessionsAssumption DEF Begins
<1>4. Leaves
  BY DEF Leaves
<1> QED
  BY <1>1, <1>2, <1>3, <1>4 DEF Kept, IInv, OwedInv

(* A handler that only follows the disk it found keeps everything.         *)
LEMMA FollowsKeeps ==
    ASSUME IInv, UsedOk, UNCHANGED <<stage, limits>>, Follows(disk, disk'),
           owed' \in BOOLEAN, owed' => owed
    PROVE  Kept
<1>1. DiskOk(disk') /\ Named(disk, disk')
      /\ disk'.route = disk.route /\ disk'.began = disk.began /\ disk'.done = disk.done
      /\ disk'.restarts = disk.restarts /\ disk'.journal = disk.journal
  BY DEF Follows, Steady
<1>2. owed' => "host" \in disk'.restarts
  BY <1>1 DEF IInv, OwedInv
<1> QED
  BY <1>1, <1>2, QuietKeeps

-----------------------------------------------------------------------------
(* The events and commands that start and end no call.                     *)

(* The start of a session: the restart file is cleared before the session  *)
(* is registered, and only for a coordinator that loads.                   *)
LEMMA SessionStartKeeps ==
    ASSUME IInv, NEW s \in limits.sessions, NEW loads \in BOOLEAN, SessionStart(s, loads) PROVE Kept
<1> DEFINE d == Acknowledge(disk, s, loads)
           r == Register(d, s, "host", About(disk, s))
<1>1. s \in Sessions /\ disk \in DiskType /\ DiskOk(disk) /\ "host" \in Hosts
  BY LimitsAre DEF Hosts
<1>2. /\ d \in DiskType /\ DiskOk(d) /\ d.session = disk.session /\ d.agent = disk.agent /\ d.route = disk.route
      /\ d.began = disk.began /\ d.done = disk.done /\ d.journal = disk.journal
      /\ ~(s \in Primary /\ loads) => d = disk
  <2>1. /\ d \in DiskType /\ d.session = disk.session /\ d.agent = disk.agent /\ d.route = disk.route
        /\ d.began = disk.began /\ d.done = disk.done /\ d.journal = disk.journal /\ d.handoffs = disk.handoffs
        /\ ~(s \in Primary /\ loads) => d = disk
    BY <1>1 DEF Acknowledge, DiskType
  <2> QED
    BY <1>1, <2>1, SameHistory
<1> HIDE DEF d
<1>3. About(disk, s) \in Works \cup {Nothing}
  BY <1>1, AboutType
<1>4. r \in Seq(DiskType) /\ Len(r) = 4 /\ \A i \in 1..4 : DiskOk(r[i]) /\ Steady(d, r[i]) /\ Named(d, r[i])
  BY <1>1, <1>2, <1>3, RegisterFine
<1> HIDE DEF r
<1>5. Writes(<<disk, d>> \o r) /\ disk.journal = Nothing
      /\ owed' = (owed /\ ~(s \in Primary /\ loads)) /\ UNCHANGED <<stage, limits>>
  BY DEF SessionStart, d, r
<1>6. <<disk, d>> \in Seq(DiskType)
  BY <1>1, <1>2
<1>7. UsedOk /\ (disk' = disk \/ disk' = d \/ \E i \in 1..4 : disk' = r[i])
  <2> DEFINE k == <<disk, d>>
  <2>1. k \in Seq(DiskType) /\ Len(k) = 2 /\ k[1] = disk /\ k[2] = d
    BY <1>6
  <2>2. Writes(k \o r)
    BY <1>5
  <2> HIDE DEF k
  <2>3. UsedOk /\ ((\E i \in 1..Len(k) : disk' = k[i]) \/ (\E i \in 1..Len(r) : disk' = r[i]))
    <3>1. Len(k) > 0 /\ k \in Seq(DiskType) /\ r \in Seq(DiskType)
      BY <1>4, <2>1
    <3> QED
      BY <2>2, <3>1, WritesJoined, Zenon
  <2> QED
    BY <1>4, <2>1, <2>3
<1>8. /\ DiskOk(disk') /\ disk'.route = disk.route /\ disk'.began = disk.began /\ disk'.done = disk.done
      /\ disk'.journal = disk.journal /\ Named(disk, disk')
      /\ disk'.restarts \in {disk.restarts, d.restarts}
  <2> DEFINE Fine(e) == /\ DiskOk(e) /\ e.route = disk.route /\ e.began = disk.began /\ e.done = disk.done
                        /\ e.journal = disk.journal /\ Named(disk, e) /\ e.restarts \in {disk.restarts, d.restarts}
  <2>1. Fine(disk)
    BY <1>1 DEF Named
  <2>2. Fine(d)
    BY <1>2 DEF Named
  <2>3. ASSUME NEW i \in 1..4 PROVE Fine(r[i])
    BY <1>2, <1>4, ZenonT(40) DEF Steady, Named
  <2> HIDE DEF Fine
  <2>4. Fine(disk')
    BY <1>7, <2>1, <2>2, <2>3
  <2> QED
    BY <2>4 DEF Fine
<1>9. owed' => "host" \in disk'.restarts
  BY <1>2, <1>5, <1>8 DEF IInv, OwedInv
<1>10. owed' \in BOOLEAN
  BY <1>5
<1> QED
  BY <1>5, <1>7, <1>8, <1>9, <1>10, QuietKeeps

(* A prompt keeps everything.                                              *)
LEMMA PromptKeeps == ASSUME IInv, NEW s \in limits.sessions, Prompt(s) PROVE Kept
<1> DEFINE u == Update(disk, s, "prompt_submit", About(disk, s))
<1>1. s \in Sessions /\ DiskOk(disk) /\ About(disk, s) \in Works \cup {Nothing}
  BY LimitsAre, AboutType
<1>2. u \in Seq(DiskType) /\ Len(u) > 0 /\ \A i \in 1..Len(u) : Follows(disk, u[i])
  BY <1>1, UpdateFine
<1>3. Writes(u) /\ UNCHANGED <<stage, owed, limits>>
  BY DEF Prompt
<1> HIDE DEF u
<1>4. UsedOk /\ Follows(disk, disk')
  BY <1>2, <1>3, WritesOne
<1> QED
  BY <1>3, <1>4, FollowsKeeps DEF IInv, TypeOK

(* The end of a session keeps everything and moves no session.             *)
LEMMA SessionEndKeeps ==
    ASSUME IInv, NEW s \in Sessions, SessionEnd(s)
    PROVE  Kept /\ Unmoved(disk, disk')
<1> DEFINE w == About(disk, s)
           u == Update(disk, s, "session_end", w)
           d == Last(u)
           handed == IF w # Nothing /\ s \in Primary THEN HandOver(d, w, s, "end") ELSE <<d>>
           final == Ends(Last(handed), s)
<1>1. s \in Sessions /\ DiskOk(disk) /\ w \in Works \cup {Nothing} /\ "session_end" \in Late
  BY LimitsAre, AboutType DEF Late
<1>2. /\ u \in Seq(DiskType) /\ Len(u) > 0
      /\ \A i \in 1..Len(u) : Follows(disk, u[i]) /\ Unmoved(disk, u[i])
      /\ d.session[s]["host"] # Nothing
  BY <1>1, UpdateFine
<1>3. \/ Writes(u)
      \/ Writes(u \o handed \o <<final>>)
  BY DEF SessionEnd
<1>4. UNCHANGED <<stage, owed, limits>>
  BY DEF SessionEnd
<1> HIDE DEF w, u
<1>5. DiskOk(d) /\ Follows(disk, d) /\ Unmoved(disk, d)
  BY <1>2 DEF Follows, Last
<1>6. handed \in Seq(DiskType) /\ Len(handed) > 0 /\ \A i \in 1..Len(handed) : Stays(d, handed[i])
  <2>1. CASE w # Nothing /\ s \in Primary
    BY <1>1, <1>5, <2>1, HandOverFine
  <2>2. CASE ~(w # Nothing /\ s \in Primary)
    BY <1>5, <2>2, Itself DEF DiskOk
  <2> QED
    BY <2>1, <2>2
<1> HIDE DEF handed
<1>7. Stays(d, Last(handed))
  BY <1>6 DEF Last
<1>8. Stays(Last(handed), final)
  <2> DEFINE e == Last(handed)
  <2>1. DiskOk(e) /\ e \in DiskType /\ "host" \in Hosts
    BY <1>7 DEF Stays, DiskOk, Hosts
  <2>2. final = Ends(e, s)
    OBVIOUS
  <2> HIDE DEF final, e
  <2>3. e.session[s]["host"] # Nothing
    BY <1>1, <1>2, <1>7, <2>1 DEF Stays, Attached, e
  <2>4. e.session[s]["host"] \in SessionRecord
    BY <1>1, <2>1, <2>3 DEF DiskType
  <2>5. CASE final = e
    BY <2>1, <2>5, Itself DEF e
  <2>6. CASE final # e
    <3> DEFINE r == [e.session[s]["host"] EXCEPT !.status = "ended"]
    <3>1. final = Put(e, s, "host", r)
      BY <2>2, <2>6 DEF Ends, Put
    <3>2. r \in SessionRecord /\ r # Nothing /\ r.work = e.session[s]["host"].work
          /\ r.handoff = e.session[s]["host"].handoff
      BY <2>4, SessionsAssumption DEF SessionRecord
    <3> HIDE DEF r
    <3>3. r.handoff # Nothing => r.handoff[2] \in DOMAIN e.handoffs[r.handoff[1]]
      BY <1>1, <2>1, <2>3, <3>2 DEF DiskOk, Links
    <3>4. /\ DiskOk(final) /\ Steady(e, final) /\ final.agent = e.agent /\ final.session[s]["host"] = r
          /\ \A t \in Sessions, h \in Hosts : <<t, h>> # <<s, "host">> => final.session[t][h] = e.session[t][h]
      BY <1>1, <2>1, <3>1, <3>2, <3>3, PutFine, SMTT(30)
    <3> QED
      BY <2>1, <2>3, <3>2, <3>4 DEF Stays, Attached, e
  <2> QED
    BY <2>5, <2>6
<1>9. CASE Writes(u)
  <2>1. UsedOk /\ Follows(disk, disk') /\ Unmoved(disk, disk')
    BY <1>2, <1>9, WritesOne
  <2> QED
    BY <1>4, <2>1, FollowsKeeps DEF IInv, TypeOK
<1>10. CASE Writes(u \o handed \o <<final>>)
  <2> DEFINE a == u \o handed
             b == <<final>>
  <2>1. /\ a \in Seq(DiskType) /\ Len(a) > 0 /\ Last(a) = Last(handed)
        /\ \A i \in 1..Len(a) : Follows(disk, a[i])
        /\ \A i \in 1..Len(a) : Unmoved(disk, a[i])
    BY <1>2, <1>6, JoinFollows
  <2>2. b \in Seq(DiskType) /\ Len(b) = 1 /\ b[1] = final
    BY <1>8 DEF Stays, DiskOk
  <2>3. Writes(a \o b)
    BY <1>10
  <2> HIDE DEF a, b, final
  <2>4. UsedOk /\ ((\E i \in 1..Len(a) : disk' = a[i]) \/ (\E i \in 1..Len(b) : disk' = b[i]))
    BY <2>1, <2>2, <2>3, WritesJoined, Zenon
  <2>5. Follows(disk, final)
    BY <1>5, <1>7, <1>8, FollowsOn
  <2>6. Follows(disk, disk')
    BY <2>1, <2>2, <2>4, <2>5
  <2>7. UNCHANGED <<stage, limits>> /\ owed' \in BOOLEAN /\ (owed' => owed)
    BY <1>4 DEF IInv, TypeOK
  <2>8. Kept
    BY <2>4, <2>6, <2>7, FollowsKeeps
  <2>9. Unmoved(disk, final)
    <3>1. Unmoved(d, final)
      BY <1>5, <1>7, <1>8, StaysOn, StaysUnmoved
    <3> QED
      BY <1>5, <3>1 DEF Unmoved
  <2>10. Unmoved(disk, disk')
    BY <2>1, <2>2, <2>4, <2>9
  <2> QED
    BY <2>8, <2>10
<1> QED
  BY <1>3, <1>9, <1>10

(* A stop keeps everything.                                                *)
LEMMA StopKeeps == ASSUME IInv, NEW s \in limits.sessions, Stop(s) PROVE Kept
<1> DEFINE w == About(disk, s)
           u == Update(disk, s, "stop", w)
           handed == HandOver(Last(u), w, s, "stop")
<1>1. s \in Sessions /\ DiskOk(disk) /\ w \in Works \cup {Nothing}
  BY LimitsAre, AboutType
<1>2. u \in Seq(DiskType) /\ Len(u) > 0 /\ \A i \in 1..Len(u) : Follows(disk, u[i])
  BY <1>1, UpdateFine
<1>3. Writes(u) \/ (w # Nothing /\ Writes(u \o handed))
  BY DEF Stop
<1>4. UNCHANGED <<stage, limits>> /\ owed' \in BOOLEAN /\ (owed' => owed)
  BY DEF Stop, IInv, TypeOK
<1> HIDE DEF w, u
<1>5. CASE Writes(u)
  BY <1>2, <1>4, <1>5, WritesOne, FollowsKeeps
<1>6. CASE w # Nothing /\ Writes(u \o handed)
  <2>1. DiskOk(Last(u))
    BY <1>2 DEF Follows, Last
  <2>2. handed \in Seq(DiskType) /\ Len(handed) > 0 /\ \A i \in 1..Len(handed) : Stays(Last(u), handed[i])
    BY <1>1, <1>6, <2>1, HandOverFine
  <2> HIDE DEF handed
  <2> DEFINE a == u \o handed
  <2>3. a \in Seq(DiskType) /\ Len(a) > 0 /\ \A i \in 1..Len(a) : Follows(disk, a[i])
    BY <1>2, <2>2, JoinFollows
  <2>4. Writes(a)
    BY <1>6
  <2> HIDE DEF a
  <2> QED
    BY <1>4, <2>3, <2>4, WritesOne, FollowsKeeps
<1> QED
  BY <1>3, <1>5, <1>6

(* Starting a Work keeps everything.                                       *)
LEMMA StartKeeps == ASSUME IInv, NEW w \in Works, NEW s \in Primary \cup {Nothing}, Start(w, s) PROVE Kept
<1> DEFINE d == [disk EXCEPT !.active = w]
           k == <<disk, d>>
           r == IF s = Nothing THEN <<>> ELSE Register(d, s, "host", w)
<1>1. disk \in DiskType /\ DiskOk(disk) /\ "host" \in Hosts
  BY LimitsAre DEF Hosts
<1>2. Follows(disk, d)
  <2>1. d \in DiskType /\ d.session = disk.session /\ d.handoffs = disk.handoffs
    BY <1>1 DEF DiskType
  <2>2. Steady(disk, d) /\ Named(disk, d)
    BY <1>1 DEF DiskType, Steady, Named
  <2> QED
    BY <1>1, <2>1, <2>2, SameHistory DEF Follows
<1>3. Writes(k \o r) /\ UNCHANGED <<stage, limits>> /\ owed' \in BOOLEAN /\ (owed' => owed)
  BY DEF Start, Quiet, IInv, TypeOK
<1>4. disk.agent = d.agent
  BY <1>1 DEF DiskType
<1> HIDE DEF d
<1>5. k \in Seq(DiskType) /\ Len(k) = 2 /\ k[1] = disk /\ k[2] = d
  BY <1>1, <1>2 DEF Follows, DiskOk
<1>6. r \in Seq(DiskType) /\ \A i \in 1..Len(r) : Follows(disk, r[i])
  <2>1. CASE s = Nothing
    BY <2>1
  <2>2. CASE s # Nothing
    <3>1. s \in Sessions /\ DiskOk(d)
      BY <1>2, <2>2 DEF Sessions, Follows
    <3>2. r \in Seq(DiskType) /\ Len(r) = 4 /\ \A i \in 1..4 : DiskOk(r[i]) /\ Steady(d, r[i]) /\ Named(d, r[i])
      BY <1>1, <2>2, <3>1, RegisterFine
    <3> HIDE DEF r
    <3>3. ASSUME NEW i \in 1..4 PROVE Named(disk, r[i]) /\ Steady(disk, r[i])
      <4>1. Steady(d, r[i]) /\ Named(d, r[i]) /\ Steady(disk, d)
        BY <1>2, <3>2 DEF Follows
      <4>2. Steady(disk, r[i])
        BY <4>1 DEF Steady
      <4> QED
        BY <1>4, <4>1, <4>2 DEF Named
    <3> QED
      BY <3>2, <3>3 DEF Follows
  <2> QED
    BY <2>1, <2>2
<1> HIDE DEF r, k
<1>7. Len(k) > 0 /\ k \in Seq(DiskType)
  BY <1>5
<1>8. UsedOk /\ ((\E i \in 1..Len(k) : disk' = k[i]) \/ (\E i \in 1..Len(r) : disk' = r[i]))
  BY <1>3, <1>6, <1>7, WritesJoined, Zenon
<1>9. Follows(disk, disk')
  BY <1>1, <1>2, <1>5, <1>6, <1>8, Itself
<1> QED
  BY <1>3, <1>8, <1>9, FollowsKeeps

(* resume keeps everything, also where the save of the Work is refused.    *)
LEMMA AttachKeeps ==
    ASSUME IInv, NEW w \in Works, NEW s \in Primary, NEW host \in Hosts, Attach(w, s, host) PROVE Kept
<1> DEFINE r == Register(disk, s, host, w)
<1>1. s \in Sessions /\ DiskOk(disk)
  BY LimitsAre DEF Sessions
<1>2. r \in Seq(DiskType) /\ Len(r) = 4 /\ \A i \in 1..4 : Follows(disk, r[i])
  BY <1>1, RegisterFine DEF Follows
<1>3. Writes(r) \/ Writes(Front(r))
  BY DEF Attach
<1>4. UNCHANGED <<stage, limits>> /\ owed' \in BOOLEAN /\ (owed' => owed)
  BY DEF Attach, Quiet, IInv, TypeOK
<1> HIDE DEF r
<1>5. Front(r) \in Seq(DiskType) /\ Len(Front(r)) = 3 /\ \A i \in 1..3 : Front(r)[i] = r[i]
  BY <1>2 DEF Front
<1>6. CASE Writes(r)
  BY <1>2, <1>4, <1>6, WritesOne, FollowsKeeps
<1>7. CASE Writes(Front(r))
  <2>1. UsedOk /\ \E i \in 1..Len(Front(r)) : disk' = Front(r)[i]
    BY <1>5, <1>7, WritesOne
  <2>2. Follows(disk, disk')
    BY <1>2, <1>5, <2>1
  <2> QED
    BY <1>4, <2>1, <2>2, FollowsKeeps
<1> QED
  BY <1>3, <1>6, <1>7

(* Suspending a Work keeps everything.                                     *)
LEMMA SuspendKeeps == ASSUME IInv, NEW w \in Works, Suspend(w) PROVE Kept
<1> DEFINE d == [disk EXCEPT !.active = Nothing]
           k == <<disk, d>>
           q == HandOver(d, w, Nothing, "suspend")
<1>1. disk \in DiskType /\ DiskOk(disk)
  BY LimitsAre
<1>2. Follows(disk, d)
  <2>1. d \in DiskType /\ d.session = disk.session /\ d.handoffs = disk.handoffs
    BY <1>1 DEF DiskType
  <2>2. Steady(disk, d) /\ Named(disk, d)
    BY <1>1 DEF DiskType, Steady, Named
  <2> QED
    BY <1>1, <2>1, <2>2, SameHistory DEF Follows
<1>3. Writes(k \o q) /\ UNCHANGED <<stage, limits>> /\ owed' \in BOOLEAN /\ (owed' => owed)
  BY DEF Suspend, Quiet, IInv, TypeOK
<1> HIDE DEF d
<1>4. k \in Seq(DiskType) /\ Len(k) = 2 /\ k[1] = disk /\ k[2] = d /\ Last(k) = d
  BY <1>1, <1>2 DEF Follows, DiskOk, Last
<1>5. q \in Seq(DiskType) /\ Len(q) > 0 /\ \A i \in 1..Len(q) : Stays(d, q[i])
  BY <1>2, HandOverFine DEF Follows
<1> HIDE DEF k, q
<1>6. \A i \in 1..Len(k) : Follows(disk, k[i])
  BY <1>1, <1>2, <1>4, Itself
<1> DEFINE a == k \o q
<1>7. Len(k) > 0 /\ \A i \in 1..Len(q) : Stays(Last(k), q[i])
  BY <1>4, <1>5
<1>8. a \in Seq(DiskType) /\ Len(a) > 0 /\ \A i \in 1..Len(a) : Follows(disk, a[i])
  BY <1>4, <1>5, <1>6, <1>7, JoinFollows
<1>9. Writes(a)
  BY <1>3
<1> HIDE DEF a
<1> QED
  BY <1>3, <1>8, <1>9, WritesOne, FollowsKeeps

(* A new content of a Work changes its body only.                          *)
LEMMA Counted ==
    ASSUME NEW d \in DiskType, NEW w \in Works
    PROVE  LET e == [d EXCEPT !.body[w] = @ + 1] IN
           /\ e \in DiskType /\ e.agent = d.agent /\ e.session = d.session /\ e.handoffs = d.handoffs
           /\ Steady(d, e)
<1> DEFINE l == [d.body EXCEPT ![w] = @ + 1]
           e == [d EXCEPT !.body[w] = @ + 1]
<1>1. l \in [Works -> Nat]
  BY DEF DiskType
<1>2. e = [d EXCEPT !.body = l]
  OBVIOUS
<1> HIDE DEF l, e
<1>3. e \in DiskType /\ e.agent = d.agent /\ e.session = d.session /\ e.handoffs = d.handoffs
  BY <1>1, <1>2 DEF DiskType
<1>4. Steady(d, e)
  BY <1>2 DEF DiskType, Steady
<1> QED
  BY <1>3, <1>4 DEF e

(* checkpoint keeps everything.                                            *)
LEMMA CheckpointKeeps ==
    ASSUME IInv, NEW w \in Works, NEW s \in Primary \cup {Nothing}, Checkpoint(w, s) PROVE Kept
<1> DEFINE d == [disk EXCEPT !.body[w] = @ + 1]
           h == CHOOSE g \in Found(d, s, "host") : TRUE
           e == [d EXCEPT !.session[s][h].work = w]
           k == <<disk, d>>
           r == IF s = Nothing \/ WorkOf(d, s, "host") = Nothing THEN <<>> ELSE <<e>>
<1>1. disk \in DiskType /\ DiskOk(disk) /\ "host" \in Hosts
  BY LimitsAre DEF Hosts
<1>2. Follows(disk, d)
  <2>1. d \in DiskType /\ d.session = disk.session /\ d.handoffs = disk.handoffs
        /\ d.agent = disk.agent /\ Steady(disk, d)
    BY <1>1, Counted
  <2>2. Steady(disk, d) /\ Named(disk, d)
    BY <2>1 DEF Named
  <2> QED
    BY <1>1, <2>1, <2>2, SameHistory DEF Follows
<1>3. Writes(k \o r) /\ UNCHANGED <<stage, limits>> /\ owed' \in BOOLEAN /\ (owed' => owed)
  BY DEF Checkpoint, Quiet, IInv, TypeOK
<1>4. disk.agent = d.agent
  BY <1>1, Counted
<1>5. k \in Seq(DiskType) /\ Len(k) = 2 /\ k[1] = disk /\ k[2] = d
  BY <1>1, <1>2 DEF Follows, DiskOk
<1> HIDE DEF d
<1>6. ASSUME ~(s = Nothing \/ WorkOf(d, s, "host") = Nothing) PROVE Follows(disk, e)
  <2>1. s \in Sessions /\ d \in DiskType
    BY <1>2, <1>6 DEF Sessions, Follows, DiskOk
  <2>2. Known(d, s, "host") # Nothing
    BY <1>6 DEF WorkOf
  <2>3. h \in Found(d, s, "host")
    BY <1>1, <2>1, <2>2, KnownIs
  <2>4. h \in Hosts /\ d.session[s][h] # Nothing
    BY <1>1, <2>1, <2>3, KnownIs
  <2> HIDE DEF h
  <2>5. d.session[s][h] \in SessionRecord
    BY <2>1, <2>4 DEF DiskType
  <2> DEFINE rec == [d.session[s][h] EXCEPT !.work = w]
  <2>6. e = Put(d, s, h, rec)
    BY DEF Put
  <2>7. rec \in SessionRecord /\ rec # Nothing /\ rec.handoff = d.session[s][h].handoff
    BY <2>5, SessionsAssumption DEF SessionRecord
  <2> HIDE DEF rec, e
  <2>8. rec.handoff # Nothing => rec.handoff[2] \in DOMAIN d.handoffs[rec.handoff[1]]
    BY <1>2, <2>1, <2>4, <2>7 DEF Follows, DiskOk, Links
  <2>9. DiskOk(e) /\ Steady(d, e) /\ e.agent = d.agent
    BY <1>2, <2>1, <2>4, <2>6, <2>7, <2>8, PutFine DEF Follows
  <2>10. Steady(disk, e)
    BY <1>2, <2>9 DEF Follows, Steady
  <2>11. Named(disk, e)
    BY <1>4, <2>9 DEF Named
  <2> QED
    BY <2>9, <2>10, <2>11 DEF Follows
<1> HIDE DEF e
<1>7. r \in Seq(DiskType) /\ \A i \in 1..Len(r) : Follows(disk, r[i])
  <2>1. CASE s = Nothing \/ WorkOf(d, s, "host") = Nothing
    BY <2>1
  <2>2. CASE ~(s = Nothing \/ WorkOf(d, s, "host") = Nothing)
    <3>1. e \in DiskType /\ r = <<e>>
      BY <1>6, <2>2 DEF Follows, DiskOk
    <3> QED
      BY <1>6, <2>2, <3>1
  <2> QED
    BY <2>1, <2>2
<1> HIDE DEF r, k
<1>8. Len(k) > 0 /\ k \in Seq(DiskType)
  BY <1>5
<1>9. UsedOk /\ ((\E i \in 1..Len(k) : disk' = k[i]) \/ (\E i \in 1..Len(r) : disk' = r[i]))
  BY <1>3, <1>7, <1>8, WritesJoined, Zenon
<1>10. Follows(disk, disk')
  BY <1>1, <1>2, <1>5, <1>7, <1>9, Itself
<1> QED
  BY <1>3, <1>9, <1>10, FollowsKeeps

(* Preparing a switch keeps everything: Switchable refuses a source with   *)
(* an open call, and CallInv makes every running call of it an open one.   *)
LEMMA SwitchKeeps ==
    ASSUME IInv, NEW t \in Works, NEW s \in Primary \cup {Nothing}, Switch(t, s) PROVE Kept
<1> DEFINE source == disk.active
           a == <<disk>>
           q == IF source = Nothing THEN <<disk>> ELSE HandOver(disk, source, s, "switch")
           j == [source |-> source, target |-> t, session |-> s]
           f == [Last(q) EXCEPT !.journal = j]
           b == a \o q
           k == <<f>>
<1>1. disk \in DiskType /\ DiskOk(disk) /\ source \in Works \cup {Nothing} /\ s \in Sessions \cup {Nothing}
  BY LimitsAre DEF DiskType, Sessions
<1>2. Writes(b \o k) /\ UNCHANGED <<stage, limits>> /\ owed' \in BOOLEAN /\ (owed' => owed)
      /\ disk.journal = Nothing /\ Switchable(t)
  BY DEF Switch, Quiet, IInv, TypeOK
<1>3. q \in Seq(DiskType) /\ Len(q) > 0 /\ \A i \in 1..Len(q) : Stays(disk, q[i])
  <2>1. CASE source = Nothing
    BY <1>1, <2>1, Itself
  <2>2. CASE source # Nothing
    BY <1>1, <2>2, HandOverFine
  <2> QED
    BY <2>1, <2>2
<1> HIDE DEF q
<1>4. a \in Seq(DiskType) /\ Len(a) > 0 /\ Last(a) = disk /\ \A i \in 1..Len(a) : Follows(disk, a[i])
  BY <1>1, Itself DEF Last
<1> HIDE DEF a
<1>5. b \in Seq(DiskType) /\ Len(b) > 0 /\ Last(b) = Last(q) /\ \A i \in 1..Len(b) : Follows(disk, b[i])
  BY <1>3, <1>4, JoinFollows
<1> HIDE DEF b
<1>6. Stays(disk, Last(q)) /\ Last(q) \in DiskType
  BY <1>3 DEF Last
<1>7. /\ f \in DiskType /\ DiskOk(f) /\ f.agent = disk.agent /\ f.journal = j /\ j # Nothing
      /\ f.route = disk.route /\ f.began = disk.began /\ f.done = disk.done /\ f.settled = disk.settled
      /\ f.restarts = disk.restarts
  <2> DEFINE g == Last(q)
  <2>1. j \in Journals /\ j # Nothing
    BY <1>1, SessionsAssumption DEF Journals
  <2>2. /\ g \in DiskType /\ DiskOk(g) /\ g.agent = disk.agent
        /\ g.route = disk.route /\ g.began = disk.began /\ g.done = disk.done /\ g.settled = disk.settled
        /\ g.restarts = disk.restarts
    BY <1>6 DEF Stays, Steady, Attached
  <2>3. f = [g EXCEPT !.journal = j]
    OBVIOUS
  <2> HIDE DEF g, j, f
  <2>4. /\ f \in DiskType /\ f.agent = g.agent /\ f.journal = j /\ f.session = g.session /\ f.handoffs = g.handoffs
        /\ f.route = g.route /\ f.began = g.began /\ f.done = g.done /\ f.settled = g.settled
        /\ f.restarts = g.restarts
    BY <2>1, <2>2, <2>3 DEF DiskType
  <2> QED
    BY <2>1, <2>2, <2>4, SameHistory
<1>8. k \in Seq(DiskType) /\ Len(k) = 1 /\ k[1] = f
  BY <1>7
<1> HIDE DEF f, k
<1>9. UsedOk /\ ((\E i \in 1..Len(b) : disk' = b[i]) \/ (\E i \in 1..Len(k) : disk' = k[i]))
  BY <1>2, <1>5, <1>8, WritesJoined, Zenon
<1>10. CASE \E i \in 1..Len(b) : disk' = b[i]
  BY <1>2, <1>5, <1>9, <1>10, FollowsKeeps
<1>11. CASE disk' = f
  <2>1. TypeOK'
    BY <1>2, <1>7, <1>9, <1>11 DEF IInv, TypeOK, UsedOk
  <2>2. CallInv' /\ OwedInv'
    BY <1>2, <1>7, <1>11 DEF IInv, CallInv, OwedInv
  <2>3. Begins
    BY <1>2, SessionsAssumption DEF Begins
  <2>4. Named(disk, disk')
    BY <1>7, <1>11 DEF Named
  <2>5. Leaves
    <3> SUFFICES ASSUME NEW c \in Calls, stage[c] \in {"running", "ended"}, disk.route[c] = source
                 PROVE  disk.route[c] \in disk.settled[c]
      BY <1>7, <1>11 DEF Leaves
    <3>1. disk.route[c] \in Places /\ disk.began[c] = {disk.route[c]} /\ disk.done[c] = {}
      BY DEF IInv, CallInv, CallAt
    <3>2. source # Nothing
      BY <3>1, SessionsAssumption
    <3>3. c \notin Pending(disk, source)
      BY <1>2, <3>2 DEF Switchable
    <3> QED
      BY <3>1, <3>3 DEF Pending
  <2> QED
    BY <1>7, <1>11, <2>1, <2>2, <2>3, <2>4, <2>5 DEF Kept, IInv
<1> QED
  BY <1>8, <1>9, <1>10, <1>11

(* Carrying out a journal keeps everything.                                *)
LEMMA CarryOutKeeps == ASSUME IInv, CarryOut PROVE Kept
<1> DEFINE j == disk.journal
           left == IF j.source = Nothing \/ disk.active # j.source \/ disk.body[j.source] = limits.body THEN disk
                   ELSE [disk EXCEPT !.body[j.source] = @ + 1]
           moved == [left EXCEPT !.active = j.target,
                                 !.agent[j.target] = IF j.session = Nothing THEN @ ELSE "host"]
           bound == IF j.session = Nothing THEN <<moved>> ELSE Register(moved, j.session, "host", j.target)
           f == [Last(bound) EXCEPT !.journal = Nothing]
           a == <<disk, moved>> \o bound
           k == <<f>>
           Same(e) == /\ DiskOk(e) /\ e.route = disk.route /\ e.began = disk.began /\ e.done = disk.done
                      /\ e.restarts = disk.restarts
<1>1. disk \in DiskType /\ DiskOk(disk) /\ Same(disk) /\ "host" \in Hosts
  BY LimitsAre DEF Hosts
<1>2. Writes(a \o k) /\ UNCHANGED <<stage, limits>> /\ owed' \in BOOLEAN /\ (owed' => owed)
      /\ j # Nothing
  BY DEF CarryOut, Quiet, IInv, TypeOK
<1>3. j.target \in Works /\ j.source \in Works \cup {Nothing} /\ j.session \in Sessions \cup {Nothing}
  BY <1>1, <1>2 DEF DiskType, Journals, Sessions
<1>4. /\ left \in DiskType /\ left.session = disk.session /\ left.handoffs = disk.handoffs
      /\ left.route = disk.route /\ left.began = disk.began /\ left.done = disk.done /\ left.restarts = disk.restarts
  <2>1. CASE left = disk
    BY <1>1, <2>1
  <2>2. CASE left # disk
    <3>1. j.source \in Works /\ left = [disk EXCEPT !.body[j.source] = @ + 1]
      BY <1>3, <2>2
    <3> HIDE DEF left, j
    <3> QED
      BY <1>1, <3>1, Counted DEF Steady
  <2> QED
    BY <2>1, <2>2
<1> HIDE DEF left, j
<1>5. Same(moved) /\ moved \in DiskType
  <2>1. /\ moved \in DiskType /\ moved.session = left.session /\ moved.handoffs = left.handoffs
        /\ moved.route = left.route /\ moved.began = left.began /\ moved.done = left.done
        /\ moved.restarts = left.restarts
    BY <1>1, <1>3, <1>4 DEF DiskType
  <2> HIDE DEF moved
  <2> QED
    BY <1>1, <1>4, <2>1, SameHistory
<1> HIDE DEF moved
<1>6. bound \in Seq(DiskType) /\ Len(bound) > 0 /\ \A i \in 1..Len(bound) : Same(bound[i])
  <2>1. CASE j.session = Nothing
    BY <1>5, <2>1
  <2>2. CASE j.session # Nothing
    <3>1. /\ bound \in Seq(DiskType) /\ Len(bound) = 4
          /\ \A i \in 1..4 : DiskOk(bound[i]) /\ Steady(moved, bound[i])
      BY <1>1, <1>3, <1>5, <2>2, RegisterFine
    <3> HIDE DEF bound
    <3> QED
      BY <1>5, <3>1 DEF Steady
  <2> QED
    BY <2>1, <2>2
<1> HIDE DEF bound
<1>7. Same(Last(bound)) /\ Last(bound) \in DiskType
  BY <1>6 DEF Last
<1>8. Same(f) /\ f \in DiskType
  <2> DEFINE g == Last(bound)
  <2>1. f = [g EXCEPT !.journal = Nothing]
    OBVIOUS
  <2> HIDE DEF g, f
  <2>2. /\ f \in DiskType /\ f.session = g.session /\ f.handoffs = g.handoffs
        /\ f.route = g.route /\ f.began = g.began /\ f.done = g.done /\ f.restarts = g.restarts
    BY <1>7, <2>1 DEF DiskType, g
  <2> QED
    BY <1>7, <2>2, SameHistory DEF g
<1> HIDE DEF f
<1>9. a \in Seq(DiskType) /\ Len(a) > 0 /\ \A i \in 1..Len(a) : Same(a[i])
  <2> DEFINE b == <<disk, moved>>
  <2>1. b \in Seq(DiskType) /\ Len(b) = 2 /\ b[1] = disk /\ b[2] = moved
    BY <1>1, <1>5
  <2>2. a = b \o bound
    OBVIOUS
  <2>3. \A i \in 1..Len(b) : Same(b[i])
    <3> HIDE DEF b
    <3> QED
      BY <1>1, <1>5, <2>1
  <2> HIDE DEF b, a
  <2>4. bound \in Seq(DiskType) /\ \A i \in 1..Len(bound) : Same(bound[i])
    BY <1>6
  <2> HIDE DEF Same
  <2>5. /\ a \in Seq(DiskType) /\ Len(a) = Len(b) + Len(bound)
        /\ \A i \in 1..Len(a) : (\E n \in 1..Len(b) : a[i] = b[n]) \/ (\E n \in 1..Len(bound) : a[i] = bound[n])
    BY <2>1, <2>2, <2>4, Concatenated, Zenon
  <2>6. \A i \in 1..Len(a) : Same(a[i])
    BY <2>3, <2>4, <2>5, Zenon
  <2>7. Len(a) > 0
    BY <1>6, <2>1, <2>5
  <2> QED
    BY <2>5, <2>6, <2>7
<1>10. k \in Seq(DiskType) /\ Len(k) = 1 /\ k[1] = f
  BY <1>8
<1> HIDE DEF a, k
<1>11. UsedOk /\ ((\E i \in 1..Len(a) : disk' = a[i]) \/ (\E i \in 1..Len(k) : disk' = k[i]))
  BY <1>2, <1>9, <1>10, WritesJoined, Zenon
<1>12. Same(disk')
  BY <1>8, <1>9, <1>10, <1>11
<1>13. owed' => "host" \in disk'.restarts
  BY <1>2, <1>12 DEF IInv, OwedInv
<1> QED
  BY <1>2, <1>11, <1>12, <1>13, QuietKeeps DEF j

(* Settling a call keeps everything.                                       *)
LEMMA SettleKeeps == ASSUME IInv, NEW c \in Calls, NEW w \in Works, Settle(c, w) PROVE Kept
<1> DEFINE d == [disk EXCEPT !.settled[c] = @ \cup {w}]
           q == <<disk, d>>
<1>1. disk \in DiskType /\ DiskOk(disk) /\ w \in Places
  BY LimitsAre DEF Places
<1>2. /\ d \in DiskType /\ d.session = disk.session /\ d.handoffs = disk.handoffs /\ d.agent = disk.agent
      /\ d.route = disk.route /\ d.began = disk.began /\ d.done = disk.done
      /\ d.restarts = disk.restarts /\ d.journal = disk.journal
  <2> DEFINE l == [disk.settled EXCEPT ![c] = @ \cup {w}]
  <2>1. l \in [Calls -> SUBSET Places]
    BY <1>1 DEF DiskType
  <2>2. d = [disk EXCEPT !.settled = l]
    OBVIOUS
  <2> HIDE DEF l, d
  <2> QED
    BY <1>1, <2>1, <2>2 DEF DiskType
<1>3. Writes(q) /\ UNCHANGED <<stage, owed, limits>>
  BY DEF Settle, Quiet
<1> HIDE DEF d
<1>4. q \in Seq(DiskType) /\ Len(q) = 2 /\ q[1] = disk /\ q[2] = d
  BY <1>1, <1>2, SMTT(30)
<1> HIDE DEF q
<1>5. UsedOk /\ (disk' = disk \/ disk' = d)
  BY <1>3, <1>4, WritesOne, SMTT(30)
<1>6. DiskOk(d)
  BY <1>1, <1>2, SameHistory
<1>7. owed' \in BOOLEAN /\ (owed' => "host" \in disk'.restarts)
  BY <1>2, <1>3, <1>5 DEF IInv, TypeOK, OwedInv
<1> QED
  BY <1>1, <1>2, <1>3, <1>5, <1>6, <1>7, QuietKeeps DEF Named

(* Installations, and starts of another host, keep everything: only a      *)
(* start of this host takes its own entry away.                            *)
LEMMA RestartsKeep ==
    ASSUME IInv, (\E host \in {"host", "any"} : RequireRestart(host)) \/ OtherStarts PROVE Kept
<1> DEFINE more == disk.restarts \cup {"host"}
           other == disk.restarts \cup {"any"}
           fewer == disk.restarts \ {"any"}
<1>1. disk \in DiskType /\ DiskOk(disk)
  BY LimitsAre
<1>2. PICK r \in SUBSET {"host", "any"} :
         /\ disk' = [disk EXCEPT !.restarts = r] /\ UNCHANGED <<stage, limits>> /\ owed' \in BOOLEAN
         /\ owed' => "host" \in r
         /\ UsedOk
  <2>1. CASE OtherStarts
    <3>1. disk' = [disk EXCEPT !.restarts = fewer] /\ UNCHANGED <<stage, owed, limits, used>>
      BY <2>1 DEF OtherStarts
    <3>2. fewer \in SUBSET {"host", "any"} /\ (owed => "host" \in fewer) /\ owed \in BOOLEAN
      BY <1>1 DEF DiskType, IInv, OwedInv, TypeOK
    <3>3. UsedOk
      BY <3>1, UsedUnchanged
    <3> QED
      BY <3>1, <3>2, <3>3
  <2>2. CASE \E host \in {"host", "any"} : RequireRestart(host)
    <3>1. PICK host \in {"host", "any"} : RequireRestart(host)
      BY <2>2
    <3> DEFINE r == disk.restarts \cup {host}
    <3>2. disk' = [disk EXCEPT !.restarts = r] /\ UNCHANGED <<stage, limits>>
          /\ owed' = (owed \/ host = "host") /\ used.installs < limits.installs
          /\ used' = [used EXCEPT !.installs = @ + 1]
      BY <3>1 DEF RequireRestart
    <3>3. r \in SUBSET {"host", "any"} /\ (owed \/ host = "host" => "host" \in r)
      BY <1>1 DEF DiskType, IInv, OwedInv
    <3>4. UsedOk
      BY <3>2, LimitsAre DEF IInv, TypeOK, UsedOk
    <3>5. owed' \in BOOLEAN
      BY <3>2
    <3> HIDE DEF r
    <3> QED
      BY <3>2, <3>3, <3>4, <3>5
  <2> QED
    BY <2>1, <2>2
<1> DEFINE e == [disk EXCEPT !.restarts = r]
<1>3. /\ e \in DiskType /\ e.session = disk.session /\ e.handoffs = disk.handoffs /\ e.agent = disk.agent
      /\ e.route = disk.route /\ e.began = disk.began /\ e.done = disk.done
      /\ e.restarts = r /\ e.journal = disk.journal
  BY <1>1 DEF DiskType
<1>4. disk' = e
  BY <1>2
<1> HIDE DEF e
<1>5. DiskOk(e)
  BY <1>1, <1>3, SameHistory
<1> QED
  BY <1>2, <1>3, <1>4, <1>5, QuietKeeps DEF Named

-----------------------------------------------------------------------------
(* Tool calls.                                                             *)

(* A step about one call keeps everything when the files agree with the    *)
(* host on that call afterwards.                                           *)
LEMMA OneCallKeeps ==
    ASSUME IInv, UsedOk, UNCHANGED <<owed, limits>>, DiskOk(disk'), NEW c \in Calls,
           stage' \in [Calls -> {"new", "blocked", "running", "unseen", "ended", "over"}],
           \A b \in Calls : b # c =>
               /\ stage'[b] = stage[b] /\ disk'.route[b] = disk.route[b]
               /\ disk'.began[b] = disk.began[b] /\ disk'.done[b] = disk.done[b],
           CallAt(stage'[c], disk'.route[c], disk'.began[c], disk'.done[c]),
           disk'.restarts = disk.restarts, disk'.journal = disk.journal,
           disk.journal = Nothing => Named(disk, disk'),
           c \in Writing /\ stage[c] = "new" /\ stage'[c] \in {"running", "unseen"} =>
               /\ Bound(disk, CallOf[c]) \in {Nothing, disk.active} \/ disk.active = Nothing
               /\ disk.journal = Nothing
               /\ ~owed
    PROVE  Kept
<1>1. TypeOK'
  BY DEF IInv, TypeOK, UsedOk, DiskOk
<1>2. CallInv'
  BY DEF IInv, CallInv
<1>3. Begins
  BY SessionsAssumption DEF Begins
<1>4. Leaves
  BY DEF Leaves
<1> QED
  BY <1>1, <1>2, <1>3, <1>4 DEF Kept, IInv, OwedInv

(* A write denied at once keeps everything.                                *)
LEMMA DenyKeeps == ASSUME IInv, NEW c \in Calls, Deny(c) PROVE Kept
<1>1. /\ stage[c] = "new" /\ stage' = [stage EXCEPT ![c] = "blocked"]
      /\ UNCHANGED <<disk, owed, limits, used>>
  BY DEF Deny
<1>2. stage \in [Calls -> {"new", "blocked", "running", "unseen", "ended", "over"}]
  BY DEF IInv, TypeOK
<1>3. UsedOk
  BY <1>1, UsedUnchanged
<1>4. CallAt(stage[c], disk.route[c], disk.began[c], disk.done[c])
  BY DEF IInv, CallInv
<1>5. CallAt(stage'[c], disk.route[c], disk.began[c], disk.done[c])
  BY <1>1, <1>2, <1>4 DEF CallAt
<1>6. DiskOk(disk)
  BY LimitsAre
<1> QED
  BY <1>1, <1>2, <1>3, <1>5, <1>6, OneCallKeeps DEF Named

(* The end of a tool call, unseen yet, keeps everything.                   *)
LEMMA ToolEndsKeeps == ASSUME IInv, NEW c \in Calls, ToolEnds(c) PROVE Kept
<1>1. /\ stage[c] \in {"running", "unseen"}
      /\ stage' = [stage EXCEPT ![c] = IF @ = "running" THEN "ended" ELSE "over"]
      /\ UNCHANGED <<disk, owed, limits, used>>
  BY DEF ToolEnds
<1>2. stage \in [Calls -> {"new", "blocked", "running", "unseen", "ended", "over"}]
  BY DEF IInv, TypeOK
<1>3. UsedOk
  BY <1>1, UsedUnchanged
<1>4. CallAt(stage[c], disk.route[c], disk.began[c], disk.done[c])
  BY DEF IInv, CallInv
<1>5. CallAt(stage'[c], disk.route[c], disk.began[c], disk.done[c])
  BY <1>1, <1>2, <1>4 DEF CallAt
<1>6. DiskOk(disk)
  BY LimitsAre
<1> QED
  BY <1>1, <1>2, <1>3, <1>5, <1>6, OneCallKeeps DEF Named

(* The second disk differs from the first in what it says of one call.     *)
Notes(c, d, e) ==
    /\ DiskOk(e) /\ Attached(d, e) /\ e.restarts = d.restarts /\ e.journal = d.journal
    /\ \A b \in Calls : b # c => e.route[b] = d.route[b] /\ e.began[b] = d.began[b] /\ e.done[b] = d.done[b]

(* Binding a call is a note about it.                                      *)
LEMMA RouteNoted ==
    ASSUME NEW d, DiskOk(d), NEW c \in Calls, NEW p \in Places
    PROVE  LET e == [d EXCEPT !.route[c] = p] IN
           Notes(c, d, e) /\ e.route[c] = p /\ e.began = d.began /\ e.done = d.done
<1> DEFINE l == [d.route EXCEPT ![c] = p]
           e == [d EXCEPT !.route[c] = p]
<1>1. d \in DiskType
  BY DEF DiskOk
<1>2. /\ l \in [Calls -> Places \cup {Nothing}] /\ l[c] = p /\ \A b \in Calls : b # c => l[b] = d.route[b]
  BY <1>1 DEF DiskType
<1>3. e = [d EXCEPT !.route = l]
  OBVIOUS
<1> HIDE DEF l, e
<1>4. /\ e \in DiskType /\ e.session = d.session /\ e.handoffs = d.handoffs /\ e.agent = d.agent
      /\ e.route = l /\ e.began = d.began /\ e.done = d.done /\ e.restarts = d.restarts /\ e.journal = d.journal
  BY <1>1, <1>2, <1>3 DEF DiskType
<1>5. DiskOk(e) /\ Attached(d, e)
  BY <1>4, SameHistory DEF Attached
<1> QED
  BY <1>2, <1>4, <1>5 DEF Notes, e

(* Recording a start is a note about the call.                             *)
LEMMA StartNoted ==
    ASSUME NEW d, DiskOk(d), NEW c \in Calls, NEW p \in Places
    PROVE  LET e == [d EXCEPT !.began[c] = @ \cup {p}] IN
           Notes(c, d, e) /\ e.route = d.route /\ e.began[c] = d.began[c] \cup {p} /\ e.done = d.done
<1> DEFINE l == [d.began EXCEPT ![c] = @ \cup {p}]
           e == [d EXCEPT !.began[c] = @ \cup {p}]
<1>1. d \in DiskType
  BY DEF DiskOk
<1>2. /\ l \in [Calls -> SUBSET Places] /\ l[c] = d.began[c] \cup {p}
      /\ \A b \in Calls : b # c => l[b] = d.began[b]
  BY <1>1 DEF DiskType
<1>3. e = [d EXCEPT !.began = l]
  OBVIOUS
<1> HIDE DEF l, e
<1>4. /\ e \in DiskType /\ e.session = d.session /\ e.handoffs = d.handoffs /\ e.agent = d.agent
      /\ e.route = d.route /\ e.began = l /\ e.done = d.done /\ e.restarts = d.restarts /\ e.journal = d.journal
  BY <1>1, <1>2, <1>3 DEF DiskType
<1>5. DiskOk(e) /\ Attached(d, e)
  BY <1>4, SameHistory DEF Attached
<1> QED
  BY <1>2, <1>4, <1>5 DEF Notes, e

(* Recording an end is one, at the place of its route.                     *)
LEMMA EndNoted ==
    ASSUME NEW d, DiskOk(d), NEW c \in Calls
    PROVE  LET e == ObserveEnd(d, c) IN
           /\ Notes(c, d, e) /\ e.route = d.route /\ e.began = d.began
           /\ e.done[c] = d.done[c] \cup {PlaceOf(d, c, Nothing)}
<1> DEFINE p == PlaceOf(d, c, Nothing)
           l == [d.done EXCEPT ![c] = @ \cup {p}]
           e == ObserveEnd(d, c)
<1>1. d \in DiskType
  BY DEF DiskOk
<1>2. p \in Places
  BY <1>1 DEF PlaceOf, Places, DiskType
<1> HIDE DEF p
<1>3. /\ l \in [Calls -> SUBSET Places] /\ l[c] = d.done[c] \cup {p}
      /\ \A b \in Calls : b # c => l[b] = d.done[b]
  BY <1>1, <1>2 DEF DiskType
<1>4. e = [d EXCEPT !.done = l]
  BY DEF ObserveEnd, p
<1> HIDE DEF l, e
<1>5. /\ e \in DiskType /\ e.session = d.session /\ e.handoffs = d.handoffs /\ e.agent = d.agent
      /\ e.route = d.route /\ e.began = d.began /\ e.done = l /\ e.restarts = d.restarts /\ e.journal = d.journal
  BY <1>1, <1>3, <1>4 DEF DiskType
<1>6. DiskOk(e) /\ Attached(d, e)
  BY <1>5, SameHistory DEF Attached
<1> QED
  BY <1>3, <1>5, <1>6 DEF Notes, e, p

(* Two notes about a call make one.                                        *)
LEMMA NotesOn ==
    ASSUME NEW c, NEW d, NEW e, NEW f, Notes(c, d, e), Notes(c, e, f)
    PROVE  Notes(c, d, f)
<1>1. Attached(d, f)
  BY DEF Notes, Attached
<1> QED
  BY <1>1 DEF Notes

(* observe binds a call before it records its start: no disk it leaves     *)
(* shows a start elsewhere than at the call's route.                       *)
LEMMA Observing ==
    ASSUME NEW d, DiskOk(d), NEW c \in Calls, NEW w \in Works \cup {Nothing}, d.began[c] = {}
    PROVE  LET q == ObserveStart(d, c, w) IN
           /\ q \in Seq(DiskType) /\ Len(q) = 3 /\ \A i \in 1..3 : Notes(c, d, q[i]) /\ q[i].done = d.done
           /\ q[1].began[c] = {} /\ q[2].began[c] = {}
           /\ q[3].route[c] \in Places /\ q[3].began[c] = {q[3].route[c]}
           /\ Notes(c, d, ObserveDenial(d, c, w)) /\ ObserveDenial(d, c, w).began[c] = {}
<1> DEFINE p == PlaceOf(d, c, w)
           bound == IF d.route[c] = Nothing THEN [d EXCEPT !.route[c] = p] ELSE d
           begun == [bound EXCEPT !.began[c] = @ \cup {p}]
           q == ObserveStart(d, c, w)
           n == ObserveDenial(d, c, w)
<1>1. d \in DiskType
  BY DEF DiskOk
<1>2. p \in Places /\ (d.route[c] # Nothing => p = d.route[c])
  BY <1>1 DEF PlaceOf, Places, DiskType
<1>3. q = <<d, bound, begun>> /\ n = [d EXCEPT !.route[c] = p]
  BY DEF ObserveStart, ObserveDenial
<1> HIDE DEF p
<1>4. Notes(c, d, d)
  BY DEF Notes, Attached
<1>5. Notes(c, d, bound) /\ bound.route[c] = p /\ bound.began = d.began /\ bound.done = d.done
  BY <1>2, <1>4, RouteNoted
<1>6. Notes(c, d, n) /\ n.began = d.began
  BY <1>2, <1>3, RouteNoted
<1> HIDE DEF bound, n
<1>7. DiskOk(bound)
  BY <1>5 DEF Notes
<1>8. Notes(c, bound, begun) /\ begun.route = bound.route /\ begun.began[c] = bound.began[c] \cup {p}
      /\ begun.done = bound.done
  BY <1>2, <1>7, StartNoted
<1> HIDE DEF begun
<1>9. Notes(c, d, begun)
  BY <1>5, <1>8, NotesOn
<1>10. begun \in DiskType /\ bound \in DiskType
  BY <1>7, <1>9 DEF Notes, DiskOk
<1>11. q \in Seq(DiskType) /\ Len(q) = 3 /\ q[1] = d /\ q[2] = bound /\ q[3] = begun
  BY <1>1, <1>3, <1>10
<1> HIDE DEF q
<1>12. \A i \in 1..3 : Notes(c, d, q[i]) /\ q[i].done = d.done
  BY <1>4, <1>5, <1>8, <1>9, <1>11
<1>13. q[3].route[c] = p /\ q[3].began[c] = {p}
  BY <1>5, <1>8, <1>11
<1> QED
  BY <1>2, <1>5, <1>6, <1>11, <1>12, <1>13 DEF q, n

(* A handler that follows the disk it found and notes something about one  *)
(* call keeps everything, when the note fits the call's new stage.         *)
LEMMA CallKeeps ==
    ASSUME IInv, UsedOk, UNCHANGED <<owed, limits>>, NEW c \in Calls, NEW d, Follows(disk, d), Notes(c, d, disk'),
           NEW st \in {"new", "blocked", "running", "unseen", "ended", "over"}, stage' = [stage EXCEPT ![c] = st],
           CallAt(st, disk'.route[c], disk'.began[c], disk'.done[c]),
           c \in Writing /\ stage[c] = "new" /\ st \in {"running", "unseen"} =>
               /\ Bound(disk, CallOf[c]) \in {Nothing, disk.active} \/ disk.active = Nothing
               /\ disk.journal = Nothing
               /\ ~owed
    PROVE  Kept
<1>1. stage \in [Calls -> {"new", "blocked", "running", "unseen", "ended", "over"}]
  BY DEF IInv, TypeOK
<1>2. /\ stage' \in [Calls -> {"new", "blocked", "running", "unseen", "ended", "over"}]
      /\ stage'[c] = st /\ \A b \in Calls : b # c => stage'[b] = stage[b]
  BY <1>1
<1>3. Named(disk, disk')
  BY NamedOn DEF Follows, Notes
<1>4. /\ DiskOk(disk') /\ disk'.restarts = disk.restarts /\ disk'.journal = disk.journal
      /\ \A b \in Calls : b # c => /\ disk'.route[b] = disk.route[b]
                                   /\ disk'.began[b] = disk.began[b] /\ disk'.done[b] = disk.done[b]
  BY DEF Follows, Steady, Notes
<1> QED
  BY <1>2, <1>3, <1>4, OneCallKeeps

(* The gate before a tool keeps everything, also when it dies between the  *)
(* binding and the start.                                                  *)
LEMMA PreToolKeeps ==
    ASSUME IInv, NEW c \in Calls, NEW intake \in BOOLEAN, NEW cleared \in BOOLEAN, PreTool(c, intake, cleared)
    PROVE  Kept
<1> DEFINE s == CallOf[c]
           w == About(disk, s)
           u == Update(disk, s, "pre_tool", w)
           d == Last(u)
           denied == /\ c \in Writing
                     /\ \/ RestartPending(disk)
                        \/ ~intake /\ (w = Nothing \/ w # disk.active \/ ~cleared)
           place == ObservedFor(d, s)
           q == ObserveStart(d, c, place)
           n == ObserveDenial(d, c, place)
           k == <<n>>
<1>1. s \in Sessions /\ DiskOk(disk) /\ disk \in DiskType /\ w \in Works \cup {Nothing}
  BY LimitsAre, AboutType, SessionsAssumption
<1>2. u \in Seq(DiskType) /\ Len(u) > 0 /\ \A i \in 1..Len(u) : Follows(disk, u[i])
  BY <1>1, UpdateFine
<1>3. /\ stage[c] = "new" /\ disk.journal = Nothing /\ ~(Stale(disk, s) /\ c \in Writing)
      /\ UNCHANGED <<owed, limits>>
  BY DEF PreTool
<1>4. \/ denied /\ Writes(u \o k) /\ stage' = [stage EXCEPT ![c] = "blocked"]
      \/ /\ ~denied /\ Writes(u \o q)
         /\ stage' = [stage EXCEPT ![c] = IF disk' = Last(q) THEN "running" ELSE "unseen"]
      \/ ~denied /\ disk' = d /\ stage' = [stage EXCEPT ![c] = "unseen"] /\ MayFail /\ Fails
  BY DEF PreTool
<1>5. ~denied => ~(c \in Writing /\ RestartPending(disk))
  OBVIOUS
<1>6. c \in Writing /\ ~denied =>
        /\ Bound(disk, s) \in {Nothing, disk.active} \/ disk.active = Nothing
        /\ disk.journal = Nothing
        /\ ~owed
  BY <1>3, <1>5 DEF Stale, Bound, RestartPending, IInv, OwedInv
<1> HIDE DEF denied, w, u
<1>7. Follows(disk, d) /\ DiskOk(d) /\ d \in DiskType
  BY <1>2 DEF Follows, DiskOk, Last
<1>8. place \in Works \cup {Nothing}
  BY <1>1, <1>7, AboutType
<1>9. /\ disk.route[c] = Nothing /\ disk.began[c] = {} /\ disk.done[c] = {}
  BY <1>3 DEF IInv, CallInv, CallAt
<1>10. \A i \in 1..Len(u) : u[i].began[c] = {} /\ u[i].done[c] = {}
  BY <1>2, <1>9 DEF Follows, Steady
<1>11. d.began[c] = {} /\ d.done[c] = {}
  BY <1>7, <1>9 DEF Follows, Steady
<1> HIDE DEF d, place
<1>12. /\ q \in Seq(DiskType) /\ Len(q) = 3 /\ \A i \in 1..3 : Notes(c, d, q[i]) /\ q[i].done = d.done
       /\ q[1].began[c] = {} /\ q[2].began[c] = {}
       /\ q[3].route[c] \in Places /\ q[3].began[c] = {q[3].route[c]}
       /\ Notes(c, d, n) /\ n.began[c] = {}
  BY <1>7, <1>8, <1>11, Observing
<1> HIDE DEF q, n
<1>13. n \in DiskType
  BY <1>12 DEF Notes, DiskOk
<1>14. k \in Seq(DiskType) /\ Len(k) = 1 /\ k[1] = n
  BY <1>13
<1> HIDE DEF k
<1>15. ASSUME NEW i \in 1..Len(u), disk' = u[i] PROVE Follows(disk, disk') /\ Notes(c, disk', disk') /\ disk'.began[c] = {}
  BY <1>2, <1>10, <1>15 DEF Notes, Attached, Follows
<1>16. CASE denied /\ Writes(u \o k) /\ stage' = [stage EXCEPT ![c] = "blocked"]
  <2>1. UsedOk /\ ((\E i \in 1..Len(u) : disk' = u[i]) \/ (\E i \in 1..Len(k) : disk' = k[i]))
    BY <1>2, <1>14, <1>16, WritesJoined, Zenon
  <2>2. CASE \E i \in 1..Len(u) : disk' = u[i]
    BY <1>3, <1>15, <1>16, <2>1, <2>2, CallKeeps DEF CallAt
  <2>3. CASE disk' = n
    BY <1>3, <1>7, <1>12, <1>16, <2>1, <2>3, CallKeeps DEF CallAt
  <2> QED
    BY <1>14, <2>1, <2>2, <2>3
<1>17. CASE /\ ~denied /\ Writes(u \o q)
            /\ stage' = [stage EXCEPT ![c] = IF disk' = Last(q) THEN "running" ELSE "unseen"]
  <2>1. UsedOk /\ ((\E i \in 1..Len(u) : disk' = u[i]) \/ (\E i \in 1..Len(q) : disk' = q[i]))
    BY <1>2, <1>12, <1>17, WritesJoined, Zenon
  <2>2. Last(q) = q[3]
    BY <1>12 DEF Last
  <2>3. CASE disk' = q[3]
    <3>1. stage' = [stage EXCEPT ![c] = "running"] /\ Notes(c, d, disk')
      BY <1>12, <1>17, <2>2, <2>3
    <3>2. CallAt("running", disk'.route[c], disk'.began[c], disk'.done[c])
      BY <1>11, <1>12, <2>3 DEF CallAt
    <3> QED
      BY <1>3, <1>6, <1>7, <1>17, <2>1, <3>1, <3>2, CallKeeps
  <2>4. CASE disk' # q[3]
    <3>1. stage' = [stage EXCEPT ![c] = "unseen"]
      BY <1>17, <2>2, <2>4
    <3>2. CASE \E i \in 1..Len(u) : disk' = u[i]
      <4>1. Follows(disk, disk') /\ Notes(c, disk', disk')
            /\ CallAt("unseen", disk'.route[c], disk'.began[c], disk'.done[c])
        BY <1>15, <3>2 DEF CallAt
      <4> QED
        BY <1>3, <1>6, <1>17, <2>1, <3>1, <4>1, CallKeeps
    <3>3. CASE \E i \in 1..Len(q) : disk' = q[i]
      <4>1. Notes(c, d, disk') /\ CallAt("unseen", disk'.route[c], disk'.began[c], disk'.done[c])
        BY <1>12, <2>4, <3>3 DEF CallAt
      <4> QED
        BY <1>3, <1>6, <1>7, <1>17, <2>1, <3>1, <4>1, CallKeeps
    <3> QED
      BY <2>1, <3>2, <3>3
  <2> QED
    BY <2>3, <2>4
<1>18. CASE ~denied /\ disk' = d /\ stage' = [stage EXCEPT ![c] = "unseen"] /\ MayFail /\ Fails
  <2>1. UsedOk
    BY <1>18, FailureCounted
  <2>2. Notes(c, d, disk') /\ CallAt("unseen", disk'.route[c], disk'.began[c], disk'.done[c])
    BY <1>7, <1>11, <1>18 DEF Notes, Attached, CallAt
  <2> QED
    BY <1>3, <1>6, <1>7, <1>18, <2>1, <2>2, CallKeeps
<1> QED
  BY <1>4, <1>16, <1>17, <1>18

(* The report of an end closes the open start of the call: it goes to the  *)
(* call's route, whatever Work is active meanwhile.                        *)
LEMMA EndReported ==
    ASSUME IInv, NEW c \in Calls, NEW d, Follows(disk, d), UsedOk, UNCHANGED <<owed, limits>>,
           Notes(c, d, disk'), disk'.route[c] = d.route[c], disk'.began[c] = d.began[c],
           disk'.done[c] = d.done[c] \/ disk'.done[c] = d.done[c] \cup {PlaceOf(d, c, Nothing)},
           stage[c] \in {"ended", "over"},
           stage' = [stage EXCEPT ![c] = IF disk'.done[c] # {} THEN "over" ELSE @]
    PROVE  Kept
<1>1. d.route[c] = disk.route[c] /\ d.began[c] = disk.began[c] /\ d.done[c] = disk.done[c]
  BY DEF Follows, Steady
<1>2. CallAt(stage[c], disk.route[c], disk.began[c], disk.done[c])
  BY DEF IInv, CallInv
<1>3. stage[c] = "ended" => PlaceOf(d, c, Nothing) = disk.route[c]
  BY <1>1, <1>2, SessionsAssumption DEF PlaceOf, CallAt
<1> DEFINE st == IF disk'.done[c] # {} THEN "over" ELSE stage[c]
<1>4. CallAt(st, disk'.route[c], disk'.began[c], disk'.done[c])
  BY <1>1, <1>2, <1>3 DEF CallAt
<1>5. st \in {"ended", "over"} /\ stage' = [stage EXCEPT ![c] = st]
  OBVIOUS
<1> HIDE DEF st
<1>6. st \in {"new", "blocked", "running", "unseen", "ended", "over"} /\ stage[c] # "new"
  BY <1>5
<1> QED
  BY <1>4, <1>5, <1>6, CallKeeps

(* The report of an end keeps everything and moves no session.             *)
LEMMA PostToolKeeps ==
    ASSUME IInv, NEW c \in Calls, NEW changes \in BOOLEAN, PostTool(c, changes)
    PROVE  Kept /\ Unmoved(disk, disk')
<1> DEFINE s == CallOf[c]
           bound == IF disk.route[c] = Nothing THEN About(disk, s)
                    ELSE IF disk.route[c] = "_unassigned" THEN Nothing ELSE disk.route[c]
           u == Update(disk, s, "post_tool", bound)
           d == Last(u)
           noted == IF changes /\ bound # Nothing THEN [d EXCEPT !.body[bound] = @ + 1] ELSE d
           e == ObserveEnd(noted, c)
           k == <<noted, e>>
           e0 == ObserveEnd(disk, c)
           k0 == <<disk, e0>>
<1>1. s \in Sessions /\ DiskOk(disk) /\ disk \in DiskType /\ "post_tool" \in Late
  BY LimitsAre, SessionsAssumption DEF Late
<1>2. bound \in Works \cup {Nothing}
  <2>1. About(disk, s) \in Works \cup {Nothing} /\ disk.route[c] \in Places \cup {Nothing}
    BY <1>1, AboutType DEF DiskType
  <2> QED
    BY <2>1 DEF Places
<1>3. /\ u \in Seq(DiskType) /\ Len(u) > 0
      /\ \A i \in 1..Len(u) : Follows(disk, u[i]) /\ Unmoved(disk, u[i])
  BY <1>1, <1>2, UpdateFine
<1>4. /\ stage[c] \in {"ended", "over"}
      /\ stage' = [stage EXCEPT ![c] = IF disk'.done[c] # {} THEN "over" ELSE @]
      /\ UNCHANGED <<owed, limits>>
      /\ Writes(k0) \/ Writes(u \o k)
  BY DEF PostTool
<1> HIDE DEF bound, u
<1>5. d \in DiskType /\ Follows(disk, d) /\ Unmoved(disk, d)
  BY <1>3 DEF Last
<1> HIDE DEF d
<1>6. DiskOk(noted) /\ noted \in DiskType /\ Stays(d, noted)
  <2>1. CASE ~(changes /\ bound # Nothing)
    BY <1>5, <2>1, Itself DEF Follows
  <2>2. CASE changes /\ bound # Nothing
    <3>1. /\ noted \in DiskType /\ noted.agent = d.agent /\ noted.session = d.session
          /\ noted.handoffs = d.handoffs /\ Steady(d, noted)
      BY <1>2, <1>5, <2>2, Counted
    <3> HIDE DEF noted
    <3> QED
      BY <1>5, <3>1, SameHistory DEF Follows, Stays, Attached
  <2> QED
    BY <2>1, <2>2
<1> HIDE DEF noted
<1>7. Follows(disk, noted)
  BY <1>5, <1>6, FollowsOn
<1>8. Unmoved(disk, noted)
  BY <1>5, <1>6, StaysUnmoved DEF Unmoved, Follows
<1>9. /\ Notes(c, noted, e) /\ e.route = noted.route /\ e.began = noted.began
      /\ e.done[c] = noted.done[c] \cup {PlaceOf(noted, c, Nothing)}
  BY <1>6, EndNoted
<1>10. /\ Notes(c, disk, e0) /\ e0.route = disk.route /\ e0.began = disk.began
       /\ e0.done[c] = disk.done[c] \cup {PlaceOf(disk, c, Nothing)}
  BY <1>1, EndNoted
<1> HIDE DEF e, e0
<1>11. ASSUME NEW f, DiskOk(f), NEW g, Notes(c, f, g) PROVE Unmoved(f, g)
  BY <1>11, AttachedUnmoved DEF Notes, DiskOk
<1>12. ASSUME NEW f, DiskOk(f) PROVE Notes(c, f, f)
  BY <1>12 DEF Notes, Attached
<1>13. ASSUME Follows(disk, disk'), UsedOk PROVE Kept
  <2>1. Notes(c, disk', disk')
    BY <1>12, <1>13 DEF Follows
  <2> QED
    BY <1>4, <1>13, <2>1, EndReported
<1>14. CASE Writes(k0)
  <2>1. k0 \in Seq(DiskType) /\ Len(k0) = 2 /\ k0[1] = disk /\ k0[2] = e0
    BY <1>1, <1>10 DEF Notes, DiskOk
  <2> HIDE DEF k0
  <2>2. UsedOk /\ (disk' = disk \/ disk' = e0)
    BY <1>14, <2>1, WritesOne
  <2>3. CASE disk' = disk
    BY <1>1, <1>13, <2>2, <2>3, Itself
  <2>4. CASE disk' = e0
    <3>1. Follows(disk, disk)
      BY <1>1, Itself
    <3>2. Kept
      BY <1>4, <1>10, <2>2, <2>4, <3>1, EndReported
    <3> QED
      BY <1>1, <1>10, <1>11, <2>4, <3>2
  <2> QED
    BY <2>2, <2>3, <2>4
<1>15. CASE Writes(u \o k)
  <2>1. k \in Seq(DiskType) /\ Len(k) = 2 /\ k[1] = noted /\ k[2] = e
    BY <1>6, <1>9 DEF Notes, DiskOk
  <2> HIDE DEF k
  <2>2. UsedOk /\ ((\E i \in 1..Len(u) : disk' = u[i]) \/ (\E i \in 1..Len(k) : disk' = k[i]))
    BY <1>3, <1>15, <2>1, WritesJoined, Zenon
  <2>3. CASE \E i \in 1..Len(u) : disk' = u[i]
    BY <1>3, <1>13, <2>2, <2>3
  <2>4. CASE disk' = noted
    BY <1>7, <1>8, <1>13, <2>2, <2>4
  <2>5. CASE disk' = e
    <3>1. Kept
      BY <1>4, <1>7, <1>9, <2>2, <2>5, EndReported
    <3>2. Unmoved(noted, e)
      BY <1>6, <1>9, <1>11
    <3> QED
      BY <1>8, <2>5, <3>1, <3>2 DEF Unmoved
  <2> QED
    BY <2>1, <2>2, <2>3, <2>4, <2>5
<1> QED
  BY <1>4, <1>14, <1>15

-----------------------------------------------------------------------------
(* The theorems.                                                           *)

(* The initial states satisfy the invariant.                               *)
LEMMA InitHolds == ASSUME Init PROVE IInv
<1>1. disk \in DiskType
  BY SessionsAssumption DEF Init, DiskType, Hosts
<1>2. limits \in Limits /\ limits.faults \in Nat /\ limits.installs \in Nat
  BY SessionsAssumption DEF Init
<1>3. TypeOK
  <2>1. stage \in [Calls -> {"new", "blocked", "running", "unseen", "ended", "over"}]
    BY DEF Init
  <2>2. used \in [faults : 0..limits.faults, installs : 0..limits.installs]
    <3>1. 0 \in 0..limits.faults /\ 0 \in 0..limits.installs
      BY <1>2
    <3>2. used = [faults |-> 0, installs |-> 0]
      BY DEF Init
    <3> QED
      BY <3>1, <3>2
  <2>3. owed \in BOOLEAN
    BY DEF Init
  <2> QED
    BY <1>1, <1>2, <2>1, <2>2, <2>3 DEF TypeOK
<1>4. \A s \in Sessions, h \in Hosts : disk.session[s][h] = Nothing
  BY DEF Init
<1>5. \A w \in Works : disk.handoffs[w] = <<>>
  BY DEF Init
<1>6. DiskOk(disk)
  BY <1>1, <1>4, <1>5 DEF DiskOk, Links, Apart
<1>7. CallInv
  BY DEF Init, CallInv, CallAt
<1>8. OwedInv
  BY DEF Init, OwedInv
<1> QED
  BY <1>3, <1>6, <1>7, <1>8 DEF IInv

(* Every event and every command keeps everything.                         *)
LEMMA NextKeeps == ASSUME IInv, Next PROVE Kept
<1>1. limits.sessions \subseteq Sessions
  BY LimitsAre
<1>2. CASE \E s \in limits.sessions, loads \in BOOLEAN : SessionStart(s, loads)
  BY <1>2, SessionStartKeeps
<1>3. CASE \E s \in limits.sessions : Prompt(s) \/ SessionEnd(s) \/ Stop(s)
  BY <1>1, <1>3, PromptKeeps, SessionEndKeeps, StopKeeps
<1>4. CASE \E c \in Calls, intake \in BOOLEAN, cleared \in BOOLEAN : PreTool(c, intake, cleared)
  BY <1>4, PreToolKeeps
<1>5. CASE \E c \in Calls : Deny(c) \/ ToolEnds(c)
  BY <1>5, DenyKeeps, ToolEndsKeeps
<1>6. CASE \E c \in Calls, changes \in BOOLEAN : PostTool(c, changes)
  BY <1>6, PostToolKeeps
<1>7. CASE \E w \in Works, s \in Primary \cup {Nothing} : Start(w, s) \/ Checkpoint(w, s) \/ Switch(w, s)
  BY <1>7, StartKeeps, CheckpointKeeps, SwitchKeeps
<1>8. CASE \E w \in Works, s \in Primary, h \in Hosts : Attach(w, s, h)
  BY <1>8, AttachKeeps
<1>9. CASE \E w \in Works : Suspend(w)
  BY <1>9, SuspendKeeps
<1>10. CASE CarryOut
  BY <1>10, CarryOutKeeps
<1>11. CASE \E c \in Calls, w \in Works : Settle(c, w)
  BY <1>11, SettleKeeps
<1>12. CASE (\E h \in {"host", "any"} : RequireRestart(h)) \/ OtherStarts
  BY <1>12, RestartsKeep
<1> QED
  BY <1>2, <1>3, <1>4, <1>5, <1>6, <1>7, <1>8, <1>9, <1>10, <1>11, <1>12 DEF Next

(* A step that changes nothing keeps everything.                           *)
LEMMA StutterKeeps == ASSUME IInv, UNCHANGED vars PROVE Kept
<1>1. DiskOk(disk)
  BY LimitsAre
<1>2. UNCHANGED <<disk, stage, owed, limits, used>>
  BY DEF vars
<1>3. UsedOk
  BY <1>2, UsedUnchanged
<1>4. owed' \in BOOLEAN /\ (owed' => owed)
  BY <1>2 DEF IInv, TypeOK
<1> QED
  BY <1>1, <1>2, <1>3, <1>4, Itself, FollowsKeeps

(* Every step keeps everything.                                            *)
LEMMA StepKept == ASSUME IInv, [Next]_vars PROVE Kept
BY NextKeeps, StutterKeeps

(* The inductive invariant holds of every reachable state.                 *)
THEOREM InvariantHolds == Spec => []IInv
<1>1. IInv /\ [Next]_vars => IInv'
  BY StepKept DEF Kept
<1> QED
  BY <1>1, InitHolds, PTL DEF Spec

(* The state keeps its types.                                              *)
THEOREM TypeCorrect == Spec => []TypeOK
<1>1. IInv => TypeOK
  BY DEF IInv
<1> QED
  BY <1>1, InvariantHolds, PTL

(* Whatever handlers are cut short, in whatever order: no session names a  *)
(* handoff that is not there, and no handoff is recorded twice in a row    *)
(* (register_session, create_handoff).                                     *)
THEOREM HistoryIsSound == Spec => []HistorySound
<1>1. IInv => HistorySound
  <2> SUFFICES ASSUME IInv PROVE TypeOK /\ HandoffLinks /\ NoRepeats
    BY DEF HistorySound
  <2>1. HandoffLinks
    BY DEF IInv, DiskOk, Links, HandoffLinks
  <2>2. NoRepeats
    BY DEF IInv, DiskOk, Apart, NoRepeats
  <2> QED
    BY <2>1, <2>2 DEF IInv
<1> QED
  BY <1>1, InvariantHolds, PTL

(* A running call is an open effect of exactly the place its start was     *)
(* bound to, and a call whose end was reported is open nowhere, through    *)
(* switches, suspensions and late or repeated reports (observe, effects).  *)
THEOREM EffectsAreAccounted == Spec => []EffectsAccounted
<1>1. IInv => EffectsAccounted
  <2> SUFFICES ASSUME IInv, NEW c \in Calls
               PROVE  /\ stage[c] \in {"running", "ended"} => \A p \in Places :
                           p \in disk.began[c] /\ p \notin disk.done[c]
                           /\ (p \in Works => c \in Pending(disk, p) \/ p \in disk.settled[c])
                           <=> p = disk.route[c]
                      /\ stage[c] = "over" => \A w \in Works : c \notin Pending(disk, w)
    BY DEF EffectsAccounted
  <2>1. CallAt(stage[c], disk.route[c], disk.began[c], disk.done[c])
    BY DEF IInv, CallInv
  <2> QED
    BY <2>1 DEF CallAt, Pending
<1> QED
  BY <1>1, InvariantHolds, PTL

(* A report that comes late moves no session, and a Work names an agent    *)
(* only after a session of that agent is attached to it.                   *)
THEOREM AttachmentIsOrderly == Spec => AttachedInOrder
<1>1. IInv /\ [Next]_vars =>
        ((\E s \in Sessions : Bound(disk, s)' # Bound(disk, s))
          => /\ \A c \in Calls, b \in BOOLEAN : ~PostTool(c, b)
             /\ \A s \in Sessions : ~SessionEnd(s))
  <2> SUFFICES ASSUME IInv, NEW s \in Sessions, Bound(disk, s)' # Bound(disk, s)
               PROVE  /\ \A c \in Calls, b \in BOOLEAN : ~PostTool(c, b)
                      /\ \A t \in Sessions : ~SessionEnd(t)
    OBVIOUS
  <2>1. Bound(disk, s)' = Bound(disk', s)
    BY DEF Bound, WorkOf, Known, Found, Filed
  <2>2. ~Unmoved(disk, disk')
    BY <2>1 DEF Unmoved
  <2> QED
    BY <2>2, PostToolKeeps, SessionEndKeeps
<1>2. IInv /\ [Next]_vars =>
        \A w \in Works : disk.agent[w] # disk'.agent[w] =>
            \/ disk.journal # Nothing
            \/ \E s \in Sessions : disk'.session[s][disk'.agent[w]] # Nothing
                                   /\ disk'.session[s][disk'.agent[w]].work = w
  BY StepKept DEF Kept, Named
<1> QED
  BY <1>1, <1>2, InvariantHolds, PTL DEF Spec, AttachedInOrder, LateNeverAttaches, AgentAttached

(* A switch leaves nothing running behind, no session attached elsewhere   *)
(* begins a write, and none begins before the host has loaded what was     *)
(* installed for it.                                                       *)
THEOREM WritesStayInBounds == Spec => WritesInBounds
<1>1. IInv /\ [Next]_vars =>
        (disk.journal = Nothing /\ disk'.journal # Nothing =>
           \A c \in Calls : stage[c] \in {"running", "ended"} /\ disk.route[c] = disk'.journal.source
                            => disk.route[c] \in disk.settled[c])
  BY StepKept DEF Kept, Leaves
<1>2. IInv /\ [Next]_vars =>
        \A c \in Writing : stage[c] = "new" /\ stage'[c] \in {"running", "unseen"} =>
            /\ Bound(disk, CallOf[c]) \in {Nothing, disk.active} \/ disk.active = Nothing
            /\ disk.journal = Nothing
  BY StepKept DEF Kept, Begins
<1>3. IInv /\ [Next]_vars =>
        \A c \in Writing : stage[c] = "new" /\ stage'[c] \in {"running", "unseen"} => ~owed
  BY StepKept DEF Kept, Begins
<1> QED
  BY <1>1, <1>2, <1>3, InvariantHolds, PTL
     DEF Spec, WritesInBounds, LeavesNothingRunning, NoForeignWrite, NoWriteBeforeRestart
=============================================================================
