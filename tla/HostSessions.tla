---------------------------- MODULE HostSessions ----------------------------
(***************************************************************************)
(* What a coding agent's host reports to cao, and what cao makes of it:    *)
(* sessions and the Work each is attached to, handoffs, tool calls that    *)
(* have begun and not been seen to end, the gate in front of writes, and   *)
(* the restart a new provider asks for.                                    *)
(*                                                                         *)
(* A handler runs under the repository lock and writes several files, one  *)
(* after the other.  It is the sequence of disks those writes leave: it    *)
(* completes, or a death or a refused write leaves one of the earlier.     *)
(* Works are saved in one step (WorkStore), a switch is prepared and       *)
(* carried out (WorkSwitch has its other refusals).                        *)
(***************************************************************************)
EXTENDS Naturals, Sequences, SequencesExt, FiniteSets, TLC

CONSTANTS
    Works,
    Primary, Children,  \* native session identities: coordinators, subagents
    Parent,             \* the coordinator each child belongs to
    Calls, CallOf,      \* tool calls, and the session that makes each
    Writing,            \* the calls that change the product
    Nothing,
    Limits              \* bounds: what a behaviour may use up, see limits

Sessions == Primary \cup Children

Hosts == {"unknown", "host"}        \* under which a session may be filed
Kind(s) == IF s \in Children THEN "subagent" ELSE "primary"
Places == Works \cup {"_unassigned"}

Handoff == [by : Sessions \cup {Nothing}, reason : {"stop", "end", "switch", "suspend"}, says : Nat]
SessionRecord == [work : Works \cup {Nothing}, status : {"active", "ended"},
                  handoff : {Nothing} \cup (Works \X (Nat \ {0}))]
Journals == [source : Works \cup {Nothing}, target : Works, session : Primary \cup {Nothing}]

ASSUME SessionsAssumption ==
    /\ Primary \cap Children = {} /\ Parent \in [Children -> Primary]
    /\ CallOf \in [Calls -> Sessions] /\ Writing \subseteq Calls
    /\ Nothing \notin Places \cup Sessions \cup Calls \cup Hosts \cup SessionRecord \cup Journals
    /\ Limits \subseteq [sessions : SUBSET Sessions, calls : SUBSET Calls, body : Nat, handoffs : Nat, faults : Nat,
                         installs : Nat, rekeys : BOOLEAN]

VARIABLES
    disk,       \* everything kept in files, see DiskType
    stage,      \* where each call really is, known to the host alone
    owed,       \* has the host yet to load what was installed for it?
    limits,     \* the bounds of this behaviour: sessions and calls, contents a handoff
                \* quotes, handoffs kept and handlers cut short, installations,
                \* and whether commands come from a caller of no known host
    used        \* how much of them is used up

vars == <<disk, stage, owed, limits, used>>

DiskType == [
    active   : Works \cup {Nothing},                    \* the index's active Work
    body     : [Works -> Nat],                          \* what a handoff would quote
    agent    : [Works -> Hosts \cup {Nothing}],         \* resume.last_agent
    session  : [Sessions -> [Hosts -> SessionRecord \cup {Nothing}]],
    handoffs : [Works -> Seq(Handoff)],
    journal  : Journals \cup {Nothing},                 \* of a switch under way
    route    : [Calls -> Places \cup {Nothing}],        \* tool.bound
    began    : [Calls -> SUBSET Places],                \* tool.started
    done     : [Calls -> SUBSET Places],                \* tool.finished
    settled  : [Calls -> SUBSET Places],                \* tool.effect.settled
    restarts : SUBSET {"host", "any"}]                  \* provider-restarts.json

TypeOK ==
    /\ disk \in DiskType
    /\ stage \in [Calls -> {"new", "blocked", "running", "unseen", "ended", "over"}]
    /\ owed \in BOOLEAN
    /\ limits \in Limits
    /\ used \in [faults : 0..limits.faults, installs : 0..limits.installs]

Init ==
    /\ disk = [active   |-> Nothing,
               body     |-> [w \in Works |-> 0],
               agent    |-> [w \in Works |-> Nothing],
               session  |-> [s \in Sessions |-> [h \in Hosts |-> Nothing]],
               handoffs |-> [w \in Works |-> <<>>],
               journal  |-> Nothing,
               route    |-> [c \in Calls |-> Nothing],
               began    |-> [c \in Calls |-> {}],
               done     |-> [c \in Calls |-> {}],
               settled  |-> [c \in Calls |-> {}],
               restarts |-> {}]
    /\ stage = [c \in Calls |-> "new"]
    /\ owed = FALSE
    /\ limits \in Limits /\ used = [faults |-> 0, installs |-> 0]

MayFail == used.faults < limits.faults
Fails == used' = [used EXCEPT !.faults = @ + 1]

\* A handler leaves the last of the disks, or is cut short at an earlier one.
Writes(disks) ==
    \/ disk' = Last(disks) /\ UNCHANGED used
    \/ /\ MayFail /\ Fails
       /\ \E i \in 1..(Len(disks) - 1) : disk' = disks[i]

-----------------------------------------------------------------------------
(* Sessions.                                                               *)

Filed(d, s) == {h \in Hosts : d.session[s][h] # Nothing}
\* load_session: under the host's own name if there is one; a caller that
\* does not know the host must not find two.
Found(d, s, host) ==
    IF host = "host" /\ "host" \in Filed(d, s) THEN {"host"} ELSE Filed(d, s)
Ambiguous(d, s, host) == Cardinality(Found(d, s, host)) > 1
Known(d, s, host) ==
    IF Found(d, s, host) = {} THEN Nothing ELSE d.session[s][CHOOSE h \in Found(d, s, host) : TRUE]
WorkOf(d, s, host) == IF Known(d, s, host) = Nothing THEN Nothing ELSE Known(d, s, host).work

Put(d, s, host, record) == [d EXCEPT !.session[s][host] = record]
Names(d, w, host) == IF w = Nothing THEN d ELSE [d EXCEPT !.agent[w] = host]

\* Mutant: the Work is saved before the session it names.
RegisterWorkFirst(d, s, host, w) ==
    LET known  == Known(d, s, host)
        rekeys == host = "host" /\ Found(d, s, host) = {"unknown"}
        filed  == IF known = Nothing \/ rekeys THEN host ELSE CHOOSE h \in Found(d, s, host) : TRUE
        named  == Names(d, w, filed)
        saved  == Put(named, s, filed,
                      [work    |-> IF w # Nothing \/ known = Nothing THEN w ELSE known.work,
                       status  |-> "active",
                       handoff |-> IF known = Nothing THEN Nothing ELSE known.handoff])
        rekeyed == IF rekeys THEN Put(saved, s, "unknown", Nothing) ELSE saved
    IN <<d, named, saved, rekeyed>>

\* register_session: the session, the file under its former name, the Work.
Register(d, s, host, w) ==
    LET known  == Known(d, s, host)
        rekeys == host = "host" /\ Found(d, s, host) = {"unknown"}
        filed  == IF known = Nothing \/ rekeys THEN host ELSE CHOOSE h \in Found(d, s, host) : TRUE
        saved  == Put(d, s, filed,
                      [work    |-> IF w # Nothing \/ known = Nothing THEN w ELSE known.work,
                       status  |-> "active",
                       handoff |-> IF known = Nothing THEN Nothing ELSE known.handoff])
        rekeyed == IF rekeys THEN Put(saved, s, "unknown", Nothing) ELSE saved
    IN <<d, saved, rekeyed, Names(rekeyed, w, filed)>>

Late == {"post_tool", "session_end"}

\* Mutant: whatever the event, the session follows the Work it is reported with.
MeantAnyEvent(d, s, event, w) == w
\* The Work an event may attach its session to: a late one none, any other
\* only a session that has none.
Meant(d, s, event, w) ==
    IF event \in Late THEN Nothing
    ELSE IF WorkOf(d, s, "host") \in {Nothing, w} THEN w ELSE Nothing

\* update_session_event
Update(d, s, event, w) ==
    LET meant == Meant(d, s, event, w)
        known == Known(d, s, "host")
        saved == Put(d, s, "host",
                     [known EXCEPT !.work = IF meant # Nothing THEN meant ELSE @,
                                   !.status = IF event = "session_end" THEN @
                                              ELSE IF @ = "ended" THEN @ ELSE "active"])
    IN IF Found(d, s, "host") # {"host"} THEN Register(d, s, "host", meant)
       ELSE <<d, saved, IF w # Nothing /\ WorkOf(saved, s, "host") = w THEN Names(saved, w, "host") ELSE saved>>

Ends(d, s) == IF Known(d, s, "host") = Nothing THEN d ELSE [d EXCEPT !.session[s]["host"].status = "ended"]

-----------------------------------------------------------------------------
(* Handoffs: an immutable record, then the Work, then the session.         *)

Says(d, w, s, reason) ==
    [by |-> IF s = Nothing \/ Found(d, s, "host") = {} THEN Nothing ELSE s, reason |-> reason, says |-> d.body[w]]
\* Mutant: identical snapshots are recorded again.
RepeatsNever(d, w, h) == FALSE
Repeats(d, w, h) == d.handoffs[w] # <<>> /\ Last(d.handoffs[w]) = h
LinkTo(d, s, w, i) ==
    IF s = Nothing \/ Found(d, s, "host") = {} THEN d
    ELSE [d EXCEPT !.session[s][CHOOSE h \in Found(d, s, "host") : TRUE].handoff = <<w, i>>]

\* The bound: later handoffs are not kept.
Full(d) == FoldSet(LAMBDA w, n : n + Len(d.handoffs[w]), 0, Works) >= limits.handoffs
\* Mutant: the session is linked before the record is there.
HandOverLinkFirst(d, w, s, reason) ==
    LET h == Says(d, w, s, reason)
        n == Len(d.handoffs[w])
    IN IF Full(d) THEN <<d>>
       ELSE IF Repeats(d, w, h) THEN <<d, LinkTo(d, s, w, n)>>
       ELSE <<d, LinkTo(d, s, w, n + 1), LinkTo([d EXCEPT !.handoffs[w] = Append(@, h)], s, w, n + 1)>>
\* create_handoff; a snapshot like the last one is not recorded again.
HandOver(d, w, s, reason) ==
    LET h == Says(d, w, s, reason)
        n == Len(d.handoffs[w])
        recorded == [d EXCEPT !.handoffs[w] = Append(@, h)]
    IN IF Full(d) THEN <<d>>
       ELSE IF Repeats(d, w, h) THEN <<d, LinkTo(d, s, w, n)>>
       ELSE <<d, recorded, LinkTo(recorded, s, w, n + 1)>>

-----------------------------------------------------------------------------
(* Tool calls.                                                             *)

\* effects(..., pending_only): begun for this Work and not known to be over.
Pending(d, w) == {c \in Calls : w \in d.began[c] /\ w \notin d.done[c] \cup d.settled[c]}

\* Mutant: there is always a Work to record for.
PlaceOfWork(d, c, w) == IF d.route[c] # Nothing THEN d.route[c] ELSE w
\* Where an observation of a call goes: to where its start was bound.
PlaceOf(d, c, w) ==
    IF d.route[c] # Nothing THEN d.route[c] ELSE IF w = Nothing THEN "_unassigned" ELSE w
\* observe, for a call let through: the binding, then the start.
ObserveStart(d, c, w) ==
    LET p == PlaceOf(d, c, w)
        bound == IF d.route[c] = Nothing THEN [d EXCEPT !.route[c] = p] ELSE d
    IN <<d, bound, [bound EXCEPT !.began[c] = @ \cup {p}]>>
\* A denial binds the call, too.
ObserveDenial(d, c, w) == [d EXCEPT !.route[c] = PlaceOf(d, c, w)]

\* Mutant: an end is recorded for the Work that is active when it arrives.
ObserveEndWhereActive(d, c) ==
    [d EXCEPT !.done[c] = @ \cup {IF d.active = Nothing THEN "_unassigned" ELSE d.active}]
ObserveEnd(d, c) == [d EXCEPT !.done[c] = @ \cup {PlaceOf(d, c, Nothing)}]

\* The Work an event of a session is about: a child's own, else its parent's.
About(d, s) ==
    LET bound == IF s \in Primary THEN Nothing
                 ELSE IF Known(d, s, "host") # Nothing THEN WorkOf(d, s, "host")
                 ELSE WorkOf(d, Parent[s], "host")
    IN IF bound = Nothing THEN d.active ELSE bound
\* respond: a child's calls are observed for its parent's Work.
ObservedFor(d, s) == IF s \in Primary THEN About(d, s) ELSE WorkOf(d, Parent[s], "host")

\* Mutant: a session attached elsewhere may write.
StaleNever(d, s) == FALSE
\* The session is attached to a Work that is not the active one.
Stale(d, s) == d.active # Nothing /\ WorkOf(d, s, "host") \notin {Nothing, d.active}

\* Mutant: the first start of any session counts.
AcknowledgeAny(d, s, loads) == [d EXCEPT !.restarts = @ \ {"any", "host"}]
\* observe_start: a coordinator's start that loads resources.
Acknowledge(d, s, loads) ==
    IF s \in Primary /\ loads THEN [d EXCEPT !.restarts = @ \ {"any", "host"}] ELSE d
RestartPending(d) == d.restarts \cap {"any", "host"} # {}

-----------------------------------------------------------------------------
(* Events of the host.                                                     *)

\* A session or a subagent begins (or is resumed).
SessionStart(s, loads) ==
    /\ disk.journal = Nothing
    /\ s \in Children => ~loads
    /\ LET d == Acknowledge(disk, s, loads) IN
       Writes(<<disk, d>> \o Register(d, s, "host", About(disk, s)))
    /\ owed' = (owed /\ ~(s \in Primary /\ loads))
    /\ UNCHANGED <<stage, limits>>

Prompt(s) ==
    /\ disk.journal = Nothing
    /\ Writes(Update(disk, s, "prompt_submit", About(disk, s)))
    /\ UNCHANGED <<stage, owed, limits>>

\* A tool is about to run.  The gates behind the first ones are an oracle; an
\* intake write (a requirement, a specification) needs no active Work.
PreTool(c, intake, cleared) ==
    LET s == CallOf[c]
        w == About(disk, s)
        updated == Update(disk, s, "pre_tool", w)
        d == Last(updated)
        denied == /\ c \in Writing
                  /\ \/ RestartPending(disk)
                     \/ ~intake /\ (w = Nothing \/ w # disk.active \/ ~cleared)
        place == ObservedFor(d, s)
    IN
    /\ stage[c] = "new" /\ c \in limits.calls /\ disk.journal = Nothing
    /\ ~(Stale(disk, s) /\ c \in Writing)
    /\ IF denied
       THEN Writes(updated \o <<ObserveDenial(d, c, place)>>) /\ stage' = [stage EXCEPT ![c] = "blocked"]
       ELSE \/ Writes(updated \o ObserveStart(d, c, place))
               /\ stage' = [stage EXCEPT ![c] = IF disk' = Last(ObserveStart(d, c, place)) THEN "running" ELSE "unseen"]
            \/ \* the quota of observations is used up: the decision stands
               /\ disk' = d /\ stage' = [stage EXCEPT ![c] = "unseen"]
               /\ MayFail /\ Fails
    /\ UNCHANGED <<owed, limits>>

\* A write of a session attached elsewhere is denied before anything is
\* recorded; while a switch is unfinished all writes are.
Deny(c) ==
    /\ stage[c] = "new" /\ c \in limits.calls \cap Writing
    /\ Stale(disk, CallOf[c]) \/ disk.journal # Nothing
    /\ stage' = [stage EXCEPT ![c] = "blocked"]
    /\ UNCHANGED <<disk, owed, limits, used>>

ToolEnds(c) ==
    /\ stage[c] \in {"running", "unseen"}
    /\ stage' = [stage EXCEPT ![c] = IF @ = "running" THEN "ended" ELSE "over"]
    /\ UNCHANGED <<disk, owed, limits, used>>

\* The end of a tool call is reported, perhaps late, perhaps twice.
PostTool(c, changes) ==
    LET s == CallOf[c]
        bound == IF disk.route[c] = Nothing THEN About(disk, s)
                 ELSE IF disk.route[c] = "_unassigned" THEN Nothing ELSE disk.route[c]
        updated == Update(disk, s, "post_tool", bound)
        d == Last(updated)
        noted == IF changes /\ bound # Nothing THEN [d EXCEPT !.body[bound] = @ + 1] ELSE d
    IN
    /\ stage[c] \in {"ended", "over"}
    /\ changes => c \in Writing /\ bound # Nothing /\ disk.body[bound] < limits.body /\ ~RestartPending(disk)
    /\ IF disk.journal # Nothing
       THEN ~changes /\ Writes(<<disk, ObserveEnd(disk, c)>>)
       ELSE Writes(updated \o <<noted, ObserveEnd(noted, c)>>)
    /\ stage' = [stage EXCEPT ![c] = IF disk'.done[c] # {} THEN "over" ELSE @]
    /\ UNCHANGED <<owed, limits>>

\* A session or a subagent ends: a coordinator hands the active Work over.
SessionEnd(s) ==
    LET w == About(disk, s)
        updated == Update(disk, s, "session_end", w)
        d == Last(updated)
        handed == IF w # Nothing /\ s \in Primary THEN HandOver(d, w, s, "end") ELSE <<d>>
    IN
    /\ disk.journal = Nothing
    /\ IF Known(d, s, "host").status = "ended" THEN Writes(updated)
       ELSE Writes(updated \o handed \o <<Ends(Last(handed), s)>>)
    /\ UNCHANGED <<stage, owed, limits>>

\* The agent pauses; this happens after every turn.
Stop(s) ==
    LET w == About(disk, s)
        updated == Update(disk, s, "stop", w)
    IN
    /\ disk.journal = Nothing
    /\ IF w = Nothing \/ s \in Children \/ RestartPending(disk) THEN Writes(updated)
       ELSE Writes(updated \o HandOver(Last(updated), w, s, "stop"))
    /\ UNCHANGED <<stage, owed, limits>>

-----------------------------------------------------------------------------
(* Commands.                                                               *)

Quiet == UNCHANGED <<stage, owed, limits>>

\* A Work is started: the Work, then the session.
Start(w, s) ==
    /\ disk.journal = Nothing /\ disk.active = Nothing /\ ~RestartPending(disk)
    /\ LET d == [disk EXCEPT !.active = w] IN
       Writes(<<disk, d>> \o IF s = Nothing THEN <<>> ELSE Register(d, s, "host", w))
    /\ Quiet

\* resume: attaches a session explicitly, whatever it was attached to; the
\* caller may not know the host.  During a switch the save of the Work is
\* refused, with the session saved already.
Attach(w, s, host) ==
    /\ host = "unknown" => limits.rekeys
    /\ ~RestartPending(disk) /\ ~Ambiguous(disk, s, host)
    /\ IF disk.journal = Nothing THEN Writes(Register(disk, s, host, w))
       ELSE Writes(Front(Register(disk, s, host, w)))
    /\ Quiet

\* checkpoint: new contents of the Work; the session follows it.
Checkpoint(w, s) ==
    /\ disk.journal = Nothing /\ disk.body[w] < limits.body
    /\ LET d == [disk EXCEPT !.body[w] = @ + 1] IN
       Writes(<<disk, d>> \o IF s = Nothing \/ WorkOf(d, s, "host") = Nothing THEN <<>>
                             ELSE <<[d EXCEPT !.session[s][CHOOSE h \in Found(d, s, "host") : TRUE].work = w]>>)
    /\ Quiet

\* block --suspend
Suspend(w) ==
    /\ disk.journal = Nothing /\ disk.active = w
    /\ LET d == [disk EXCEPT !.active = Nothing] IN
       Writes(<<disk, d>> \o HandOver(d, w, Nothing, "suspend"))
    /\ Quiet

LiveChildren(d, w) ==
    {s \in Children : /\ Known(d, s, "host") # Nothing
                      /\ Known(d, s, "host").status = "active" /\ WorkOf(d, s, "host") = w}

\* Mutant: effects of the source do not matter to a switch.
SwitchableBusy(t) == disk.active = Nothing \/ LiveChildren(disk, disk.active) = {}
\* What refuses a switch, of the things modelled here.
Switchable(t) ==
    disk.active = Nothing \/ (Pending(disk, disk.active) = {} /\ LiveChildren(disk, disk.active) = {})

\* switch: a handoff of the source, then the journal.
Switch(t, s) ==
    LET source == disk.active
        handed == IF source = Nothing THEN <<disk>> ELSE HandOver(disk, source, s, "switch")
    IN
    /\ disk.journal = Nothing /\ ~RestartPending(disk)
    /\ t # source /\ Switchable(t)
    /\ s # Nothing => WorkOf(disk, s, "host") \in {Nothing, t, source}
    /\ Writes(<<disk>> \o handed \o
              <<[Last(handed) EXCEPT !.journal = [source |-> source, target |-> t, session |-> s]]>>)
    /\ Quiet

\* The journal's recovery: the Works, the session, the journal.
CarryOut ==
    LET j == disk.journal IN
    /\ j # Nothing
    /\ LET left == IF j.source = Nothing \/ disk.active # j.source \/ disk.body[j.source] = limits.body THEN disk
                   ELSE [disk EXCEPT !.body[j.source] = @ + 1]
           moved == [left EXCEPT !.active = j.target,
                                 !.agent[j.target] = IF j.session = Nothing THEN @ ELSE "host"]
           bound == IF j.session = Nothing THEN <<moved>> ELSE Register(moved, j.session, "host", j.target)
       IN Writes(<<disk, moved>> \o bound \o <<[Last(bound) EXCEPT !.journal = Nothing]>>)
    /\ Quiet

\* runtime settle-effect: somebody has looked at an open call.
Settle(c, w) ==
    /\ disk.journal = Nothing /\ c \in Pending(disk, w)
    /\ Writes(<<disk, [disk EXCEPT !.settled[c] = @ \cup {w}]>>)
    /\ Quiet

\* Provider resources are installed for a host, or for whichever there is.
RequireRestart(host) ==
    /\ used.installs < limits.installs /\ used' = [used EXCEPT !.installs = @ + 1]
    /\ disk' = [disk EXCEPT !.restarts = @ \cup {host}]
    /\ owed' = (owed \/ host = "host")
    /\ UNCHANGED <<stage, limits>>

\* Another host starts in this project.
OtherStarts ==
    /\ "any" \in disk.restarts
    /\ disk' = [disk EXCEPT !.restarts = @ \ {"any"}]
    /\ UNCHANGED <<stage, owed, limits, used>>

Next ==
    \/ \E s \in limits.sessions, loads \in BOOLEAN : SessionStart(s, loads)
    \/ \E s \in limits.sessions : Prompt(s)
    \/ \E s \in limits.sessions : SessionEnd(s)
    \/ \E s \in limits.sessions : Stop(s)
    \/ \E c \in Calls, intake \in BOOLEAN, cleared \in BOOLEAN : PreTool(c, intake, cleared)
    \/ \E c \in Calls : Deny(c)
    \/ \E c \in Calls : ToolEnds(c)
    \/ \E c \in Calls, changes \in BOOLEAN : PostTool(c, changes)
    \/ \E w \in Works, s \in Primary \cup {Nothing} : Start(w, s)
    \/ \E w \in Works, s \in Primary, h \in Hosts : Attach(w, s, h)
    \/ \E w \in Works, s \in Primary \cup {Nothing} : Checkpoint(w, s)
    \/ \E w \in Works : Suspend(w)
    \/ \E w \in Works, s \in Primary \cup {Nothing} : Switch(w, s)
    \/ CarryOut
    \/ \E c \in Calls, w \in Works : Settle(c, w)
    \/ \E h \in {"host", "any"} : RequireRestart(h)
    \/ OtherStarts

Spec == Init /\ [][Next]_vars

-----------------------------------------------------------------------------
(* Properties.                                                             *)

Bound(d, s) == WorkOf(d, s, "host")

\* A report of something that is over (a tool result, the end of a session)
\* never attaches a session to a Work or moves it to another, whichever Work
\* is active meanwhile and whichever the call belonged to.
LateNeverAttaches ==
    [][(\E s \in Sessions : Bound(disk, s)' # Bound(disk, s))
       => /\ \A c \in Calls, b \in BOOLEAN : ~PostTool(c, b)
          /\ \A s \in Sessions : ~SessionEnd(s)]_vars

\* A call that runs is an open effect of exactly the place it was bound to,
\* until its end is reported or somebody settles it; a call whose end was
\* reported is no open effect of any Work. Switches, suspensions, sessions
\* that move and ends that come late or twice make no difference.
EffectsAccounted ==
    \A c \in Calls :
        /\ stage[c] \in {"running", "ended"} => \A p \in Places :
               p \in disk.began[c] /\ p \notin disk.done[c] /\ (p \in Works => c \in Pending(disk, p) \/ p \in disk.settled[c])
                   <=> p = disk.route[c]
        /\ stage[c] = "over" => \A w \in Works : c \notin Pending(disk, w)

\* A switch leaves nothing running behind: when it is prepared, each call bound
\* to the Work it leaves has ended and been reported, or was settled, or could
\* not be observed.
LeavesNothingRunning ==
    [][disk.journal = Nothing /\ disk'.journal # Nothing =>
       \A c \in Calls : stage[c] \in {"running", "ended"} /\ disk.route[c] = disk'.journal.source
                        => disk.route[c] \in disk.settled[c]]_vars

\* A write that begins is of the active Work's coordinator, or one attached to
\* nothing before: a session left on another Work never writes.
NoForeignWrite ==
    [][\A c \in Writing : stage[c] = "new" /\ stage'[c] \in {"running", "unseen"} =>
        /\ Bound(disk, CallOf[c]) \in {Nothing, disk.active} \/ disk.active = Nothing
        /\ disk.journal = Nothing]_vars

\* No write begins between the installation of resources for this host and the
\* next start of a coordinator that loads them.
NoWriteBeforeRestart ==
    [][\A c \in Writing : stage[c] = "new" /\ stage'[c] \in {"running", "unseen"} => ~owed]_vars

\* Whatever the order of deaths, a handoff that a session names exists.
HandoffLinks ==
    \A s \in Sessions, h \in Hosts :
        LET r == disk.session[s][h] IN
        r # Nothing /\ r.handoff # Nothing => r.handoff[2] \in DOMAIN disk.handoffs[r.handoff[1]]

\* Repeated stops, and a switch repeated after a death, add nothing to the
\* history: neighbouring handoffs of a Work differ.
NoRepeats ==
    \A w \in Works : \A i \in 1..(Len(disk.handoffs[w]) - 1) :
        disk.handoffs[w][i] # disk.handoffs[w][i + 1]

\* A Work comes to name an agent only when a session of that agent is attached
\* to it already, except from the journal of a switch that will attach it.
AgentAttached ==
    [][\A w \in Works : disk.agent[w] # disk'.agent[w] =>
        \/ disk.journal # Nothing
        \/ \E s \in Sessions : disk'.session[s][disk'.agent[w]] # Nothing
                               /\ disk'.session[s][disk'.agent[w]].work = w]_vars

\* The files of sessions and handoffs: their shape, no link to a handoff that
\* is not there, and no handoff recorded twice.
HistorySound == TypeOK /\ HandoffLinks /\ NoRepeats

\* A session is attached by a command or an event that means it, and is there
\* before the Work names its agent.
AttachedInOrder == LateNeverAttaches /\ AgentAttached

\* Nothing writes for a Work that is not active, under a switch, or with
\* resources that are not loaded yet.
WritesInBounds == LeavesNothingRunning /\ NoForeignWrite /\ NoWriteBeforeRestart
=============================================================================
