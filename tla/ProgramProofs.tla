---------------------------- MODULE ProgramProofs ----------------------------
(***************************************************************************)
(* What a program does with the library: its agents, for any threads that  *)
(* run them, any threads that walk the list of them and any names; its     *)
(* child processes, on POSIX for any users, and on Windows for any number  *)
(* of processes that a child starts.                                       *)
(***************************************************************************)
EXTENDS Service, Agents, MCProcs, ListLemmas, TLAPS

-----------------------------------------------------------------------------
(* Agents: the list holds exactly those that their thread has not taken    *)
(* off it, and processlock is held by the thread that walks: so what a     *)
(* walker has in its hand is on the list.                                  *)

RPlaces == {"idle", "read", "remove", "flags", "poll", "callback"}
CPlaces == {"idle", "visit", "sleep"}
Children == [life : {"none", "running", "zombie", "gone"}, writes : BOOLEAN, killed : BOOLEAN]
Handles == [agent : Names \cup {Nil}, flags : BOOLEAN, pipes : SUBSET {"ipipe", "opipe"}]
Calls == [op : One \cup All \cup {"none"}, agent : Names \cup {Nil},
          at : Runners \cup {Nil}, timeout : 0 .. MaxWait]

AgentShape ==
  /\ processes \in Seq(Runners) /\ processlock \in Clients \cup {Nil}
  /\ rpc \in [Runners -> RPlaces]
  /\ handle \in [Runners -> Handles]
  /\ told \in [Runners -> BOOLEAN \cup {Nil}]
  /\ child \in [Runners -> Children]
  /\ cpc \in [Clients -> CPlaces]
  /\ call \in [Clients -> Calls]

\* An agent is on the list, once, as long as its thread reads or is about to take it off.
OnList(r) == rpc[r] \in {"read", "remove"}

ListHolds ==
  /\ \A r \in Runners : OnList(r) <=> Contains(processes, r)
  /\ IsInjective(processes)

\* Nil else has its name, and nobody has reaped it.
NamesHold ==
  /\ \A p, q \in Runners : OnList(p) /\ OnList(q) /\ handle[p].agent = handle[q].agent => p = q
  /\ \A r \in Runners : OnList(r) => child[r].life \in {"running", "zombie"}

\* The lock is held by the one who walks, and it has an agent of the list.
LockHolds ==
  \A c \in Clients : /\ cpc[c] = "visit" <=> processlock = c
                     /\ cpc[c] = "visit" => call[c].at \in Runners /\ OnList(call[c].at)
                     /\ cpc[c] # "visit" => call[c].at = Nil

\* The flags are read when nobody can change them any more.
FlagsHold ==
  \A r \in Runners : /\ rpc[r] \in {"poll", "callback"} => told[r] = handle[r].flags
                     /\ rpc[r] = "callback" => handle[r].pipes = {}

AgentInv == AgentShape /\ ListHolds /\ NamesHold /\ LockHolds /\ FlagsHold
-----------------------------------------------------------------------------
(* The thread that runs an agent *)

LEMMA AgentInitHolds ==
  ASSUME AgentInit
  PROVE  AgentInv
  <1>1. AgentShape
    BY AgentsAssumption DEF AgentInit, AgentShape, RPlaces, CPlaces, Handles, FreedAgent, Children,
       NoChild, Calls, NoCall
  <1>2. ListHolds /\ NamesHold /\ LockHolds /\ FlagsHold
    BY AgentsAssumption DEF AgentInit, ListHolds, NamesHold, LockHolds, FlagsHold, OnList,
       NoCall, Contains, IsInjective
  <1>. QED
    BY <1>1, <1>2 DEF AgentInv

LEMMA ListedOnList ==
  ASSUME AgentInv
  PROVE  \A r : r \in Listed <=> r \in Runners /\ OnList(r)
  <1>1. processes \in Seq(Runners) /\ DOMAIN processes = 1 .. Len(processes)
    BY DEF AgentInv, AgentShape
  <1>. QED
    BY <1>1 DEF AgentInv, ListHolds, Listed, Contains

\* A change of one field leaves the others.
LEMMA WritesField ==
  ASSUME NEW k \in Children, NEW v \in BOOLEAN
  PROVE  [k EXCEPT !.writes = v] \in Children /\ [k EXCEPT !.writes = v].life = k.life
  BY DEF Children

LEMMA KilledField ==
  ASSUME NEW k \in Children, NEW v \in BOOLEAN
  PROVE  [k EXCEPT !.killed = v] \in Children /\ [k EXCEPT !.killed = v].life = k.life
  BY DEF Children

LEMMA LifeField ==
  ASSUME NEW k \in Children, NEW l \in {"none", "running", "zombie", "gone"}
  PROVE  [k EXCEPT !.life = l] \in Children
  BY DEF Children

LEMMA FlagsField ==
  ASSUME NEW h \in Handles, NEW v \in BOOLEAN
  PROVE  /\ [h EXCEPT !.flags = v] \in Handles
         /\ [h EXCEPT !.flags = v].agent = h.agent
         /\ [h EXCEPT !.flags = v].pipes = h.pipes
  BY DEF Handles

LEMMA PipesField ==
  ASSUME NEW h \in Handles, NEW s \in SUBSET {"ipipe", "opipe"}
  PROVE  /\ [h EXCEPT !.pipes = s] \in Handles
         /\ [h EXCEPT !.pipes = s].agent = h.agent
         /\ [h EXCEPT !.pipes = s].flags = h.flags
         /\ [h EXCEPT !.pipes = s].pipes = s
  BY DEF Handles

\* An agent is put at the front of the list.
LEMMA AddStep ==
  ASSUME AgentInv, NEW r \in Runners, NEW name \in MayRun[r], Add(r, name)
  PROVE  AgentInv'
  <1>. USE AgentsAssumption DEF Add, Created, Goto
  <1>1. ~OnList(r) /\ name \in Names
    BY DEF OnList
  <1>2. \A q \in Runners : OnList(q)' <=> q = r \/ OnList(q)
    BY DEF AgentInv, AgentShape, OnList
  <1>3. \A q \in Runners : OnList(q) => handle[q].agent # name
    BY ListedOnList DEF Taken
  <1>4. AgentShape'
    <2>1. handle' \in [Runners -> Handles] /\ child' \in [Runners -> Children]
      BY <1>1 DEF AgentInv, AgentShape, Handles, Children, NoChild
    <2>2. processes' \in Seq(Runners)
      BY DEF AgentInv, AgentShape
    <2>. QED
      BY <2>1, <2>2 DEF AgentInv, AgentShape, RPlaces
  <1>5. ListHolds'
    <2>1. processes \in Seq(Runners) /\ ~Contains(processes, r)
      BY <1>1 DEF AgentInv, AgentShape, ListHolds
    <2>. QED
      BY <1>2, <2>1, FrontAdds DEF AgentInv, ListHolds
  <1>6. NamesHold'
    BY <1>2, <1>3 DEF AgentInv, AgentShape, NamesHold
  <1>7. LockHolds'
    BY <1>2 DEF AgentInv, LockHolds
  <1>8. FlagsHold'
    BY DEF AgentInv, AgentShape, FlagsHold
  <1>. QED
    BY <1>4, <1>5, <1>6, <1>7, <1>8 DEF AgentInv

\* It is taken off, when nobody walks the list.
LEMMA RemoveStep ==
  ASSUME AgentInv, NEW r \in Runners, RemoveProcess(r)
  PROVE  AgentInv'
  <1>. USE AgentsAssumption DEF RemoveProcess, Goto
  <1>1. OnList(r)
    BY DEF OnList
  <1>2. \A q \in Runners : OnList(q)' <=> q # r /\ OnList(q)
    BY DEF AgentInv, AgentShape, OnList
  <1>3. \A c \in Clients : cpc[c] # "visit"
    BY DEF AgentInv, LockHolds
  <1>4. processes \in Seq(Runners) /\ Contains(processes, r)
    BY <1>1 DEF AgentInv, AgentShape, ListHolds
  <1>5. child' \in [Runners -> Children] /\ \A q \in Runners : child'[q].life = child[q].life
    <2>. DEFINE new == [child[r] EXCEPT !.writes = FALSE]
    <2>1. new \in Children /\ new.life = child[r].life
      BY WritesField DEF AgentInv, AgentShape
    <2>2. child' = [child EXCEPT ![r] = new]
      OBVIOUS
    <2>3. child \in [Runners -> Children]
      BY DEF AgentInv, AgentShape
    <2>. HIDE DEF new
    <2>. QED
      BY <2>1, <2>2, <2>3
  <1>6. AgentShape'
    BY <1>4, <1>5, WithoutRemoves DEF AgentInv, AgentShape, ListHolds, RPlaces
  <1>7. ListHolds'
    BY <1>2, <1>4, WithoutRemoves DEF AgentInv, ListHolds
  <1>8. NamesHold' /\ LockHolds' /\ FlagsHold'
    BY <1>2, <1>3, <1>5 DEF AgentInv, NamesHold, LockHolds, FlagsHold
  <1>. QED
    BY <1>6, <1>7, <1>8 DEF AgentInv

\* A step that leaves the list alone.
LEMMA ListStays ==
  ASSUME AgentInv, UNCHANGED processes, \A r \in Runners : OnList(r)' <=> OnList(r)
  PROVE  ListHolds'
  BY DEF AgentInv, ListHolds

LEMMA OwnStep ==
  ASSUME AgentInv, NEW r \in Runners,
         Read(r) \/ Capture(r) \/ PollDone(r) \/ Reply(r) \/ ChildStep(r)
  PROVE  AgentInv'
  <1>1. CASE Read(r)
    <2>. USE <1>1 DEF Read, Goto
    <2>1. \A q \in Runners : OnList(q)' <=> OnList(q)
      BY DEF OnList
    <2>2. /\ handle' \in [Runners -> Handles]
          /\ \A q \in Runners : handle'[q].agent = handle[q].agent
          /\ \A q \in Runners : handle'[q].flags = handle[q].flags
          /\ \A q \in Runners : q # r => handle'[q] = handle[q]
      <3>. DEFINE new == [handle[r] EXCEPT !.pipes = handle[r].pipes \ {"ipipe"}]
      <3>1. handle[r] \in Handles /\ handle[r].pipes \ {"ipipe"} \in SUBSET {"ipipe", "opipe"}
        BY DEF AgentInv, AgentShape, Handles
      <3>2. new \in Handles /\ new.agent = handle[r].agent /\ new.flags = handle[r].flags
        BY <3>1, PipesField
      <3>3. handle' = handle \/ handle' = [handle EXCEPT ![r] = new]
        OBVIOUS
      <3>. HIDE DEF new
      <3>. QED
        BY <3>2, <3>3 DEF AgentInv, AgentShape
    <2>3. AgentShape'
      BY <2>2 DEF AgentInv, AgentShape, RPlaces
    <2>4. NamesHold'
      <3>1. child' = child /\ \A q \in Runners : handle'[q].agent = handle[q].agent
        BY <2>2
      <3>. HIDE <1>1 DEF Read, Goto
      <3>. QED
        BY <2>1, <3>1 DEF AgentInv, NamesHold
    <2>6. LockHolds'
      BY <2>1 DEF AgentInv, LockHolds
    <2>5. FlagsHold'
      BY <2>2 DEF AgentInv, FlagsHold
    <2>. QED
      BY <2>1, <2>3, <2>4, <2>5, <2>6, ListStays DEF AgentInv
  <1>2. CASE Capture(r)
    <2>. USE <1>2 DEF Capture, Goto
    <2>1. \A q \in Runners : OnList(q)' <=> OnList(q)
      BY DEF OnList
    <2>2. AgentShape'
      BY DEF AgentInv, AgentShape, RPlaces, Handles
    <2>3. NamesHold' /\ LockHolds' /\ FlagsHold'
      BY <2>1 DEF AgentInv, AgentShape, NamesHold, LockHolds, FlagsHold
    <2>. QED
      BY <2>1, <2>2, <2>3, ListStays DEF AgentInv
  <1>3. CASE PollDone(r)
    <2>. USE <1>3 DEF PollDone, Goto
    <2>1. ~OnList(r) /\ \A q \in Runners : OnList(q)' <=> OnList(q)
      BY DEF OnList
    <2>2. /\ handle' \in [Runners -> Handles] /\ handle'[r].pipes = {}
          /\ handle'[r].flags = handle[r].flags /\ handle'[r].agent = handle[r].agent
          /\ \A q \in Runners : q # r => handle'[q] = handle[q]
      <3>. DEFINE new == [handle[r] EXCEPT !.pipes = {}]
      <3>1. /\ new \in Handles /\ new.agent = handle[r].agent
            /\ new.flags = handle[r].flags /\ new.pipes = {}
        BY PipesField DEF AgentInv, AgentShape
      <3>2. handle' = [handle EXCEPT ![r] = new]
        OBVIOUS
      <3>. HIDE DEF new
      <3>. QED
        BY <3>1, <3>2 DEF AgentInv, AgentShape
    <2>3. child' \in [Runners -> Children] /\ \A q \in Runners : q # r => child'[q] = child[q]
      <3>. DEFINE new == [child[r] EXCEPT !.life = "gone"]
      <3>1. new \in Children
        BY LifeField DEF AgentInv, AgentShape
      <3>2. child' = [child EXCEPT ![r] = new]
        OBVIOUS
      <3>. HIDE DEF new
      <3>. QED
        BY <3>1, <3>2 DEF AgentInv, AgentShape
    <2>4. AgentShape'
      BY <2>2, <2>3 DEF AgentInv, AgentShape, RPlaces
    <2>5. NamesHold' /\ LockHolds' /\ FlagsHold'
      BY <2>1, <2>2, <2>3 DEF AgentInv, NamesHold, LockHolds, FlagsHold
    <2>. QED
      BY <2>1, <2>4, <2>5, ListStays DEF AgentInv
  <1>4. CASE Reply(r)
    <2>. USE <1>4, AgentsAssumption DEF Reply, Goto
    <2>1. ~OnList(r) /\ \A q \in Runners : OnList(q)' <=> OnList(q)
      BY DEF OnList
    <2>2. AgentShape'
      BY DEF AgentInv, AgentShape, RPlaces, Handles, Children, FreedAgent, NoChild
    <2>3. NamesHold' /\ LockHolds' /\ FlagsHold'
      BY <2>1 DEF AgentInv, AgentShape, NamesHold, LockHolds, FlagsHold
    <2>. QED
      BY <2>1, <2>2, <2>3, ListStays DEF AgentInv
  <1>5. CASE ChildStep(r)
    <2>. USE <1>5 DEF ChildStep, CloseOutput, End
    <2>1. \A q \in Runners : OnList(q)' <=> OnList(q)
      BY DEF OnList
    <2>2. /\ child' \in [Runners -> Children]
          /\ \A q \in Runners : child'[q].life \in {child[q].life, "zombie"}
                                /\ (child'[q].life = child[q].life \/ child[q].life = "running")
      <3>1. child[r] \in Children /\ child[r].life = "running"
        BY DEF AgentInv, AgentShape
      <3>2. CASE CloseOutput(r)
        <4>. DEFINE new == [child[r] EXCEPT !.writes = FALSE]
        <4>1. new \in Children /\ new.life = "running"
          BY <3>1, WritesField
        <4>2. child' = [child EXCEPT ![r] = new]
          BY <3>2
        <4>. HIDE DEF new
        <4>. QED
          BY <3>1, <4>1, <4>2 DEF AgentInv, AgentShape
      <3>3. CASE End(r)
        BY <3>1, <3>3 DEF AgentInv, AgentShape, Children, NoChild
      <3>. QED
        BY <3>2, <3>3
    <2>3. AgentShape'
      BY <2>2 DEF AgentInv, AgentShape
    <2>4. NamesHold' /\ LockHolds' /\ FlagsHold'
      BY <2>1, <2>2 DEF AgentInv, NamesHold, LockHolds, FlagsHold
    <2>. QED
      BY <2>1, <2>3, <2>4, ListStays DEF AgentInv
  <1>. QED
    BY <1>1, <1>2, <1>3, <1>4, <1>5

\* The poll loop: a stop or a kill changes no more than what the child will do.
LEMMA PollStep ==
  ASSUME AgentInv, NEW r \in Runners, Wait(r) \/ Stop(r) \/ Kill(r) \/ SlowDown(r)
  PROVE  AgentInv'
  <1>1. /\ UNCHANGED <<processes, processlock, rpc, handle, told, cpc, call>>
        /\ child' = child \/ child' = [child EXCEPT ![r].killed = TRUE]
    BY DEF Wait, Stop, Kill, SlowDown, Escalate, Delivered, StillRuns
  <1>2. child' \in [Runners -> Children] /\ \A q \in Runners : child'[q].life = child[q].life
    <2>. DEFINE new == [child[r] EXCEPT !.killed = TRUE]
    <2>1. new \in Children /\ new.life = child[r].life
      BY KilledField DEF AgentInv, AgentShape
    <2>2. child' = child \/ child' = [child EXCEPT ![r] = new]
      BY <1>1
    <2>3. child \in [Runners -> Children]
      BY DEF AgentInv, AgentShape
    <2>. HIDE DEF new
    <2>. QED
      BY <2>1, <2>2, <2>3
  <1>3. \A q \in Runners : OnList(q)' <=> OnList(q)
    BY <1>1 DEF OnList
  <1>4. AgentShape'
    BY <1>1, <1>2 DEF AgentInv, AgentShape
  <1>5. NamesHold' /\ LockHolds' /\ FlagsHold'
    BY <1>1, <1>2, <1>3 DEF AgentInv, NamesHold, LockHolds, FlagsHold
  <1>. QED
    BY <1>1, <1>3, <1>4, <1>5, ListStays DEF AgentInv
-----------------------------------------------------------------------------
(* The threads that walk the list *)

\* What a walk does to the agents: to one on the list, and to its flags only.
Touches(p) ==
  /\ OnList(p)
  /\ UNCHANGED <<processes, rpc, told>>
  /\ \E v \in BOOLEAN : handle' \in {handle, [handle EXCEPT ![p].flags = v]}
  /\ child' \in {child, [child EXCEPT ![p].killed = TRUE]}

LEMMA TouchStep ==
  ASSUME AgentInv, NEW p \in Runners, Touches(p)
  PROVE  /\ handle' \in [Runners -> Handles] /\ child' \in [Runners -> Children]
         /\ ListHolds' /\ NamesHold' /\ FlagsHold'
         /\ \A q \in Runners : OnList(q)' <=> OnList(q)
  <1>1. UNCHANGED <<processes, rpc, told>> /\ OnList(p)
    BY DEF Touches
  <1>2. \A q \in Runners : OnList(q)' <=> OnList(q)
    BY <1>1 DEF OnList
  <1>3. child' \in [Runners -> Children] /\ \A q \in Runners : child'[q].life = child[q].life
    <2>. DEFINE new == [child[p] EXCEPT !.killed = TRUE]
    <2>1. new \in Children /\ new.life = child[p].life
      BY KilledField DEF AgentInv, AgentShape
    <2>2. child' = child \/ child' = [child EXCEPT ![p] = new]
      BY DEF Touches
    <2>3. child \in [Runners -> Children]
      BY DEF AgentInv, AgentShape
    <2>. HIDE DEF new
    <2>. QED
      BY <2>1, <2>2, <2>3
  <1>4. /\ handle' \in [Runners -> Handles]
        /\ \A q \in Runners : handle'[q].agent = handle[q].agent
        /\ \A q \in Runners \ {p} : handle'[q] = handle[q]
    <2>1. PICK v \in BOOLEAN : handle' \in {handle, [handle EXCEPT ![p].flags = v]}
      BY DEF Touches
    <2>. DEFINE new == [handle[p] EXCEPT !.flags = v]
    <2>2. new \in Handles /\ new.agent = handle[p].agent
      BY FlagsField DEF AgentInv, AgentShape
    <2>3. handle' = handle \/ handle' = [handle EXCEPT ![p] = new]
      BY <2>1
    <2>4. handle \in [Runners -> Handles]
      BY DEF AgentInv, AgentShape
    <2>. HIDE DEF new
    <2>. QED
      BY <2>2, <2>3, <2>4
  <1>5. NamesHold'
    BY <1>2, <1>3, <1>4 DEF AgentInv, NamesHold
  <1>6. FlagsHold'
    BY <1>1, <1>4 DEF AgentInv, FlagsHold, OnList
  <1>. QED
    BY <1>1, <1>2, <1>3, <1>4, <1>5, <1>6, ListStays DEF AgentInv

\* What it does to the lock and to its own call.
Walks(c) ==
  /\ processlock \in {Nil, c}
  /\ cpc' \in [Clients -> CPlaces] /\ call' \in [Clients -> Calls]
  /\ \A d \in Clients \ {c} : cpc'[d] = cpc[d] /\ call'[d] = call[d]
  /\ \/ cpc'[c] = "visit" /\ processlock' = c /\ call'[c].at \in Runners /\ OnList(call'[c].at)
     \/ cpc'[c] # "visit" /\ processlock' = Nil /\ call'[c].at = Nil

LEMMA WalkStep ==
  ASSUME AgentInv, NEW c \in Clients, Walks(c),
         \/ \E p \in Runners : Touches(p)
         \/ UNCHANGED <<processes, rpc, handle, told, child>>
  PROVE  AgentInv'
  <1>1. /\ handle' \in [Runners -> Handles] /\ child' \in [Runners -> Children]
        /\ ListHolds' /\ NamesHold' /\ FlagsHold'
        /\ \A q \in Runners : OnList(q)' <=> OnList(q)
        /\ UNCHANGED <<processes, rpc, told>>
    <2>1. CASE \E p \in Runners : Touches(p)
      BY <2>1, TouchStep DEF Touches
    <2>2. CASE UNCHANGED <<processes, rpc, handle, told, child>>
      <3>1. \A q \in Runners : OnList(q)' <=> OnList(q)
        BY <2>2 DEF OnList
      <3>. QED
        BY <2>2, <3>1, ListStays DEF AgentInv, AgentShape, NamesHold, FlagsHold
    <2>. QED
      BY <2>1, <2>2
  <1>2. AgentShape'
    BY <1>1 DEF AgentInv, AgentShape, Walks
  <1>3. LockHolds'
    BY <1>1, AgentsAssumption DEF AgentInv, LockHolds, Walks
  <1>. QED
    BY <1>1, <1>2, <1>3 DEF AgentInv

LEMMA AtField ==
  ASSUME NEW k \in Calls, NEW p \in Runners \cup {Nil}
  PROVE  [k EXCEPT !.at = p] \in Calls /\ [k EXCEPT !.at = p].at = p
  BY DEF Calls

LEMMA NoCallIsCall ==
  NoCall \in Calls /\ NoCall.at = Nil
  BY AgentsAssumption DEF NoCall, Calls

\* The next agent of the list, unless this is the last.
LEMMA AfterIsListed ==
  ASSUME AgentInv, NEW p \in Runners, OnList(p)
  PROVE  After(p) = Nil \/ (After(p) \in Runners /\ OnList(After(p)))
  <1>. DEFINE k == CHOOSE k \in DOMAIN processes : processes[k] = p
  <1>1. processes \in Seq(Runners) /\ DOMAIN processes = 1 .. Len(processes)
    BY DEF AgentInv, AgentShape
  <1>2. k \in 1 .. Len(processes)
    BY <1>1 DEF AgentInv, ListHolds, Contains
  <1>3. After(p) = IF k = Len(processes) THEN Nil ELSE processes[k + 1]
    BY DEF After
  <1>. HIDE DEF k
  <1>4. k # Len(processes) => k + 1 \in DOMAIN processes
    <2>. DEFINE n == Len(processes)
    <2>1. n \in Nat /\ k \in 1 .. n /\ DOMAIN processes = 1 .. n
      BY <1>1, <1>2
    <2>. HIDE DEF n
    <2>2. k # n => k + 1 \in 1 .. n
      BY <2>1
    <2>. QED
      BY <2>1, <2>2 DEF n
  <1>. QED
    BY <1>3, <1>4, ListedOnList DEF Listed

\* A walk begins at the first agent, when the list has one.
LEMMA SeizeWalks ==
  ASSUME AgentInv, NEW c \in Clients, NEW next \in Calls, Seize(c, next)
  PROVE  Walks(c) /\ UNCHANGED <<processes, rpc, handle, told, child>>
  <1>. DEFINE first == [next EXCEPT !.at = Head(processes)]
  <1>1. processlock = Nil /\ UNCHANGED <<processes, rpc, handle, told, child>>
    BY DEF Seize
  <1>2. cpc \in [Clients -> CPlaces] /\ call \in [Clients -> Calls] /\ processes \in Seq(Runners)
    BY DEF AgentInv, AgentShape
  <1>3. CASE processes = <<>>
    <2>1. /\ cpc' = [cpc EXCEPT ![c] = "idle"] /\ call' = [call EXCEPT ![c] = NoCall]
          /\ processlock' = processlock
      BY <1>3 DEF Seize
    <2>. QED
      BY <1>1, <1>2, <2>1, NoCallIsCall DEF Walks, CPlaces
  <1>4. CASE processes # <<>>
    <2>1. /\ cpc' = [cpc EXCEPT ![c] = "visit"] /\ call' = [call EXCEPT ![c] = first]
          /\ processlock' = c
      BY <1>4 DEF Seize
    <2>2. Head(processes) \in Runners /\ OnList(Head(processes))
      <3>1. Head(processes) = processes[1] /\ 1 \in DOMAIN processes
        BY <1>2, <1>4
      <3>. QED
        BY <3>1, ListedOnList DEF Listed
    <2>3. first \in Calls /\ first.at = Head(processes)
      BY <2>2, AtField
    <2>. HIDE DEF first
    <2>. QED
      BY <1>1, <1>2, <2>1, <2>2, <2>3 DEF Walks, CPlaces
  <1>. QED
    BY <1>1, <1>3, <1>4

LEMMA LeaveWalks ==
  ASSUME AgentInv, NEW c \in Clients, cpc[c] = "visit", NEW to \in {"idle", "sleep"}, Leave(c, to)
  PROVE  Walks(c)
  <1>. DEFINE still == IF to = "idle" THEN NoCall ELSE [call[c] EXCEPT !.at = Nil]
  <1>1. /\ processlock = c /\ cpc \in [Clients -> CPlaces] /\ call \in [Clients -> Calls]
    BY DEF AgentInv, AgentShape, LockHolds
  <1>2. still \in Calls /\ still.at = Nil
    <2>1. CASE to = "idle"
      BY <2>1, NoCallIsCall
    <2>2. CASE to # "idle"
      BY <1>1, <2>2, AtField
    <2>. QED
      BY <2>1, <2>2
  <1>3. /\ processlock' = Nil /\ cpc' = [cpc EXCEPT ![c] = to]
        /\ call' = [call EXCEPT ![c] = still]
    BY DEF Leave
  <1>. HIDE DEF still
  <1>. QED
    BY <1>1, <1>2, <1>3 DEF Walks, CPlaces

LEMMA AdvanceWalks ==
  ASSUME AgentInv, NEW c \in Clients, cpc[c] = "visit", Advance(c)
  PROVE  Walks(c)
  <1>. DEFINE p == call[c].at
              moved == [call[c] EXCEPT !.at = After(p)]
  <1>1. /\ processlock = c /\ cpc \in [Clients -> CPlaces] /\ call \in [Clients -> Calls]
        /\ p \in Runners /\ OnList(p)
    BY DEF AgentInv, AgentShape, LockHolds
  <1>2. CASE After(p) = Nil
    BY <1>2, LeaveWalks DEF Advance
  <1>3. CASE After(p) # Nil
    <2>1. After(p) \in Runners /\ OnList(After(p))
      BY <1>1, <1>3, AfterIsListed
    <2>2. moved \in Calls /\ moved.at = After(p)
      BY <1>1, <2>1, AtField
    <2>3. UNCHANGED <<processlock, cpc>> /\ call' = [call EXCEPT ![c] = moved]
      BY <1>3 DEF Advance
    <2>. HIDE DEF p, moved
    <2>. QED
      BY <1>1, <2>1, <2>2, <2>3 DEF Walks
  <1>. QED
    BY <1>2, <1>3

LEMMA ApplyTouches ==
  ASSUME NEW p \in Runners, OnList(p), NEW op, Apply(op, p), UNCHANGED <<processes, rpc, told>>
  PROVE  Touches(p)
  <1>1. \E v \in BOOLEAN : handle' \in {handle, [handle EXCEPT ![p].flags = v]}
    BY DEF Apply, SetFlags
  <1>2. child' \in {child, [child EXCEPT ![p].killed = TRUE]}
    BY DEF Apply, Delivered
  <1>. QED
    BY <1>1, <1>2 DEF Touches

LEMMA ClientStep ==
  ASSUME AgentInv, NEW c \in Clients, Client(c)
  PROVE  AgentInv'
  <1>. DEFINE p == call[c].at
  <1>1. ASSUME cpc[c] = "visit"
        PROVE  p \in Runners /\ OnList(p) /\ call[c] \in Calls /\ processlock = c
    BY <1>1 DEF AgentInv, AgentShape, LockHolds
  <1>2. CASE \E op \in One, n \in Names, t \in 0 .. MaxWait : BeginOne(c, op, n, t)
    <2>1. PICK op \in One, n \in Names, t \in 0 .. MaxWait : BeginOne(c, op, n, t)
      BY <1>2
    <2>2. [NoCall EXCEPT !.op = op, !.agent = n, !.timeout = t] \in Calls
      BY DEF NoCall, Calls
    <2>. QED
      BY <2>1, <2>2, SeizeWalks, WalkStep DEF BeginOne
  <1>3. CASE \E op \in All : BeginAll(c, op)
    <2>1. PICK op \in All : BeginAll(c, op)
      BY <1>3
    <2>2. [NoCall EXCEPT !.op = op] \in Calls
      BY AgentsAssumption DEF NoCall, Calls
    <2>. QED
      BY <2>1, <2>2, SeizeWalks, WalkStep DEF BeginAll
  <1>4. CASE LookAgain(c)
    <2>1. call[c] \in Calls
      BY DEF AgentInv, AgentShape
    <2>. QED
      BY <1>4, <2>1, SeizeWalks, WalkStep DEF LookAgain
  <1>5. CASE Skip(c)
    <2>1. Walks(c) /\ UNCHANGED <<processes, rpc, handle, told, child>>
      BY <1>5, AdvanceWalks DEF Skip, At
    <2>. QED
      BY <2>1, WalkStep
  <1>6. CASE FoundOne(c)
    <2>1. cpc[c] = "visit" /\ UNCHANGED <<processes, rpc, told>> /\ Apply(call[c].op, p)
      BY <1>6 DEF FoundOne, At
    <2>2. Touches(p)
      BY <1>1, <2>1, ApplyTouches
    <2>3. Walks(c)
      BY <1>6, <2>1, LeaveWalks DEF FoundOne
    <2>. QED
      BY <1>1, <2>1, <2>2, <2>3, WalkStep
  <1>7. CASE FoundAll(c)
    <2>1. cpc[c] = "visit" /\ UNCHANGED <<processes, rpc, told>> /\ Apply(call[c].op, p)
      BY <1>7 DEF FoundAll, At
    <2>2. Touches(p)
      BY <1>1, <2>1, ApplyTouches
    <2>3. Walks(c)
      BY <1>7, <2>1, AdvanceWalks DEF FoundAll
    <2>. QED
      BY <1>1, <2>1, <2>2, <2>3, WalkStep
  <1>8. CASE FoundWait(c)
    <2>. DEFINE times == call[c].timeout
                asleep == [call[c] EXCEPT !.at = Nil, !.timeout = IF times = 0 THEN 0 ELSE times - 1]
    <2>1. cpc[c] = "visit" /\ UNCHANGED <<processes, rpc, told, handle>>
      BY <1>8 DEF FoundWait, At
    <2>2. child' \in {child, [child EXCEPT ![p].killed = TRUE]}
      BY <1>8 DEF FoundWait, Delivered
    <2>3. Touches(p)
      BY <1>1, <2>1, <2>2 DEF Touches
    <2>4. asleep \in Calls /\ asleep.at = Nil
      <3>1. (IF times = 0 THEN 0 ELSE times - 1) \in 0 .. MaxWait
        BY <1>1, <2>1, AgentsAssumption DEF Calls
      <3>. HIDE DEF times
      <3>. QED
        BY <1>1, <2>1, <3>1 DEF Calls
    <2>5. /\ processlock' = Nil /\ cpc' = [cpc EXCEPT ![c] = "sleep"]
          /\ call' = [call EXCEPT ![c] = asleep]
      BY <1>8 DEF FoundWait
    <2>. HIDE DEF asleep
    <2>6. Walks(c)
      BY <1>1, <2>1, <2>4, <2>5 DEF AgentInv, AgentShape, Walks, CPlaces
    <2>. QED
      BY <1>1, <2>1, <2>3, <2>6, WalkStep
  <1>. QED
    BY <1>2, <1>3, <1>4, <1>5, <1>6, <1>7, <1>8 DEF Client
-----------------------------------------------------------------------------
(* The theorems *)

LEMMA AgentNextHolds ==
  ASSUME AgentInv, [AgentNext]_agentVars
  PROVE  AgentInv'
  <1>1. ASSUME NEW r \in Runners, Process(r) \/ ChildStep(r)
        PROVE  AgentInv'
    BY <1>1, AddStep, RemoveStep, OwnStep, PollStep DEF Process
  <1>2. CASE UNCHANGED agentVars
    BY <1>2 DEF agentVars, AgentInv, AgentShape, ListHolds, NamesHold, LockHolds, FlagsHold, OnList
  <1>. QED
    BY <1>1, <1>2, ClientStep DEF AgentNext

LEMMA AgentInvariance ==
  AgentSpec => []AgentInv
  <1>. QED
    BY AgentInitHolds, AgentNextHolds, PTL DEF AgentSpec

\* Agents that are listed have names of their own, and whoever looks at an agent,
\* on the list or in a walk, finds one that has not been reaped and whose handle
\* has not been freed (addProcess, removeProcess and XplListAgents under processlock).
THEOREM AgentsAreListed == AgentSpec => []ListSound
  <1>1. ASSUME AgentInv
        PROVE  ListSound
    <2>1. ASSUME NEW j \in DOMAIN processes, NEW k \in DOMAIN processes,
                 handle[processes[j]].agent = handle[processes[k]].agent
          PROVE  j = k
      <3>1. /\ processes[j] \in Runners /\ OnList(processes[j])
            /\ processes[k] \in Runners /\ OnList(processes[k])
        BY <1>1, ListedOnList DEF Listed
      <3>2. processes[j] = processes[k]
        BY <1>1, <2>1, <3>1 DEF AgentInv, NamesHold
      <3>. QED
        BY <1>1, <3>2 DEF AgentInv, ListHolds, IsInjective
    <2>2. ASSUME NEW p \in (Listed \cup {call[c].at : c \in Clients}) \ {Nil}
          PROVE  child[p].life \in {"running", "zombie"} /\ rpc[p] \in {"read", "remove"}
      <3>1. p \in Runners /\ OnList(p)
        <4>1. CASE p \in Listed
          BY <1>1, <4>1, ListedOnList
        <4>2. CASE \E c \in Clients : p = call[c].at
          BY <1>1, <2>2, <4>2 DEF AgentInv, LockHolds
        <4>. QED
          BY <2>2, <4>1, <4>2
      <3>. QED
        BY <1>1, <3>1 DEF AgentInv, NamesHold, OnList
    <2>. QED
      BY <2>1, <2>2 DEF ListSound
  <1>. QED
    BY <1>1, AgentInvariance, PTL

\* No flag that a call has set on an agent it found is lost: what XplProcess gives to
\* the callback are the flags of the handle, and its pipes are closed by then.
THEOREM FlagsAreReported == AgentSpec => []Reported
  <1>1. ASSUME AgentInv
        PROVE  Reported
    BY <1>1 DEF AgentInv, FlagsHold, Reported
  <1>. QED
    BY <1>1, AgentInvariance, PTL

\* processlock is held from XplListAgents to the end of the walk by the thread that
\* walks, and by nobody between two calls or while XplWaitAgent sleeps.
THEOREM WalkersHoldTheLock ==
  AgentSpec => [](\A c \in Clients : cpc[c] = "visit" <=> processlock = c)
  <1>1. ASSUME AgentInv
        PROVE  \A c \in Clients : cpc[c] = "visit" <=> processlock = c
    BY <1>1 DEF AgentInv, LockHolds
  <1>. QED
    BY <1>1, AgentInvariance, PTL
-----------------------------------------------------------------------------
(* Child processes: a handle is its user's own; what the users share is    *)
(* MTSem, which one of them at a time has around fork.                     *)

UPlaces == {"idle", "sem", "fork", "fork_detached", "wait_detached", "held", "join", "join_timed",
            "free", "close", "wait_read", "read"}
Holding == {"held", "join", "join_timed", "free", "close", "wait_read", "read"}
Procs   == [fds : SUBSET U!Ends, reaped : BOOLEAN]
Kids    == [life : {"none", "running", "zombie", "gone"}, wants : {"nothing", "input", "room"}]

\* Who has MTSem; a failed calloc leaves with it.
Inside(u) == upc[u] \in {"fork", "fork_detached"} \/ stray[u] = "exec"

UShape ==
  /\ upc \in [Parents -> UPlaces]
  /\ proc \in [Parents -> Procs]
  /\ open \in [Parents -> SUBSET U!Ends]
  /\ kid \in [Parents -> Kids]
  /\ stray \in [Parents -> {"none", "free", "exec"}]

\* From the pipes to the fork all of their ends are open and not recorded yet.
UserHolds(u) ==
  /\ upc[u] \in Holding => /\ proc[u].fds = open[u]
                           /\ proc[u].reaped <=> kid[u].life = "gone"
  /\ upc[u] \in {"sem", "fork"} => open[u] = U!Ends
  /\ upc[u] \in {"idle", "fork_detached", "wait_detached"} => open[u] = {}
  /\ upc[u] \in {"idle", "sem", "fork", "fork_detached"} /\ stray[u] = "none" => kid[u].life = "none"
  /\ upc[u] = "close" /\ stray[u] = "none" => kid[u].life = "gone"
  /\ stray[u] = "exec" => upc[u] \in {"idle", "sem"}

SemaHolds ==
  /\ MTSem = IF \E u \in Parents : Inside(u) THEN 0 ELSE 1
  /\ \A u, v \in Parents : Inside(u) /\ Inside(v) => u = v

UnixInv == UShape /\ (\A u \in Parents : UserHolds(u)) /\ SemaHolds
-----------------------------------------------------------------------------
(* POSIX *)

\* A step of user u changes nothing of another's.
OnlyOf(u) ==
  /\ upc' \in [Parents -> UPlaces] /\ proc' \in [Parents -> Procs]
  /\ open' \in [Parents -> SUBSET U!Ends] /\ kid' \in [Parents -> Kids]
  /\ stray' \in [Parents -> {"none", "free", "exec"}]
  /\ \A v \in Parents \ {u} : /\ upc'[v] = upc[v] /\ proc'[v] = proc[v]
                            /\ open'[v] = open[v] /\ kid'[v] = kid[v] /\ stray'[v] = stray[v]

\* A semaphore is taken by whom it lets in, and posted by whom it lets out.
SemaFollows(u) ==
  \/ MTSem' = MTSem /\ (Inside(u) <=> Inside(u)')
  \/ MTSem > 0 /\ MTSem' = MTSem - 1 /\ Inside(u)'
  \/ Inside(u) /\ MTSem' = MTSem + 1 /\ ~Inside(u)'

LEMMA UserStep ==
  ASSUME UnixInv, NEW u \in Parents, OnlyOf(u), UserHolds(u)', SemaFollows(u)
  PROVE  UnixInv'
  <1>1. UShape'
    BY DEF OnlyOf, UShape
  <1>2. \A v \in Parents : UserHolds(v)'
    BY DEF UnixInv, OnlyOf, UserHolds
  <1>3. SemaHolds'
    <2>1. \A v \in Parents \ {u} : Inside(v)' <=> Inside(v)
      BY DEF OnlyOf, Inside
    <2>. QED
      BY <2>1 DEF UnixInv, SemaFollows, SemaHolds
  <1>. QED
    BY <1>1, <1>2, <1>3 DEF UnixInv

\* A change of the child alone, which is not reaped by it.
LEMMA KidStep ==
  ASSUME UnixInv, NEW u \in Parents, NEW k \in Kids, kid[u].life = "running",
         k.life \in {"running", "zombie"},
         kid' = [kid EXCEPT ![u] = k], UNCHANGED <<MTSem, upc, proc, open, stray>>
  PROVE  UnixInv'
  <1>1. OnlyOf(u)
    BY DEF UnixInv, UShape, OnlyOf
  <1>2. UserHolds(u)'
    BY DEF UnixInv, UserHolds
  <1>3. SemaFollows(u)
    BY DEF SemaFollows, Inside
  <1>. QED
    BY <1>1, <1>2, <1>3, UserStep

\* A move between two places where the same is required of a handle.
LEMMA PlaceStep ==
  ASSUME UnixInv, NEW u \in Parents, NEW from, NEW to \in UPlaces,
         upc[u] = from, upc' = [upc EXCEPT ![u] = to], from \in Holding, to \in Holding,
         to = "close" => proc[u].reaped,
         UNCHANGED <<MTSem, proc, open, kid, stray>>
  PROVE  UnixInv'
  <1>1. OnlyOf(u)
    BY DEF UnixInv, UShape, OnlyOf
  <1>2. UserHolds(u)'
    BY DEF UnixInv, UserHolds, Holding
  <1>3. SemaFollows(u)
    BY DEF SemaFollows, Inside, Holding
  <1>. QED
    BY <1>1, <1>2, <1>3, UserStep

LEMMA KidActs ==
  ASSUME UnixInv, NEW u \in Parents, U!KidAsks(u) \/ U!KidEnds(u) \/ U!Signal(u) \/ U!Write(u)
  PROVE  UnixInv'
  <1>1. kid[u] \in Kids /\ kid[u].life \in {"none", "running", "zombie", "gone"}
    BY DEF UnixInv, UShape, Kids
  <1>2. UNCHANGED <<MTSem, upc, proc, open, stray>>
    BY DEF U!KidAsks, U!KidEnds, U!Signal, U!Write
  <1>3. \/ UNCHANGED kid
        \/ kid[u].life = "running" /\ \E w \in {"nothing", "input", "room"} :
             kid' = [kid EXCEPT ![u].wants = w]
        \/ kid[u].life = "running" /\ kid' = [kid EXCEPT ![u].life = "zombie"]
        \/ kid[u].life = "running" /\ kid' = [kid EXCEPT ![u] = [U!NoKid EXCEPT !.life = "zombie"]]
    BY DEF U!KidAsks, U!KidEnds, U!Signal, U!Write
  <1>4. CASE UNCHANGED kid
    BY <1>2, <1>4 DEF UnixInv, UShape, UserHolds, SemaHolds, Inside
  <1>5. ASSUME kid[u].life = "running", NEW w \in {"nothing", "input", "room"},
               kid' = [kid EXCEPT ![u].wants = w]
        PROVE  UnixInv'
    <2>. DEFINE k == [kid[u] EXCEPT !.wants = w]
    <2>1. k \in Kids /\ k.life = "running"
      BY <1>1, <1>5 DEF Kids
    <2>2. kid' = [kid EXCEPT ![u] = k]
      BY <1>5
    <2>. HIDE DEF k
    <2>. QED
      BY <1>2, <1>5, <2>1, <2>2, KidStep
  <1>6. CASE kid[u].life = "running" /\ kid' = [kid EXCEPT ![u].life = "zombie"]
    <2>. DEFINE k == [kid[u] EXCEPT !.life = "zombie"]
    <2>1. k \in Kids /\ k.life = "zombie"
      BY <1>1 DEF Kids
    <2>2. kid' = [kid EXCEPT ![u] = k]
      BY <1>6
    <2>. HIDE DEF k
    <2>. QED
      BY <1>2, <1>6, <2>1, <2>2, KidStep
  <1>7. CASE /\ kid[u].life = "running"
             /\ kid' = [kid EXCEPT ![u] = [U!NoKid EXCEPT !.life = "zombie"]]
    <2>1. [U!NoKid EXCEPT !.life = "zombie"] \in Kids
          /\ [U!NoKid EXCEPT !.life = "zombie"].life = "zombie"
      BY DEF Kids, U!NoKid
    <2>. QED
      BY <1>2, <1>7, <2>1, KidStep
  <1>. QED
    BY <1>3, <1>4, <1>5, <1>6, <1>7

\* XplProcExec and XplProcExecDetached.
LEMMA ExecActs ==
  ASSUME UnixInv, NEW u \in Parents,
         \/ U!Pipes(u) \/ U!SemWait(u) \/ U!ForkFails(u) \/ U!Fork(u)
         \/ U!DetachedFails(u) \/ U!Detach(u) \/ U!Detached(u)
  PROVE  UnixInv'
  <1>. USE DEF U!To
  <1>1. U!NoKid \in Kids /\ U!Forked \in Kids /\ U!Forked.life = "running"
        /\ [U!NoKid EXCEPT !.life = "zombie"] \in Kids
    BY DEF U!NoKid, U!Forked, Kids
  <1>2. CASE U!Pipes(u)
    <2>. USE <1>2 DEF U!Pipes
    <2>1. OnlyOf(u)
      BY DEF UnixInv, UShape, OnlyOf, UPlaces
    <2>2. UserHolds(u)' /\ SemaFollows(u)
      BY DEF UnixInv, UShape, UserHolds, SemaFollows, Holding, Inside
    <2>. QED
      BY <2>1, <2>2, UserStep
  <1>3. CASE U!SemWait(u)
    <2>. USE <1>3 DEF U!SemWait
    <2>1. OnlyOf(u)
      BY DEF UnixInv, UShape, OnlyOf, UPlaces
    <2>3. stray[u] # "exec"
      BY DEF UnixInv, UShape, SemaHolds, Inside
    <2>2. UserHolds(u)' /\ SemaFollows(u)
      BY <2>3 DEF UnixInv, UShape, UserHolds, SemaFollows, Holding, Inside
    <2>. QED
      BY <2>1, <2>2, UserStep
  <1>4. CASE U!ForkFails(u)
    <2>. USE <1>4 DEF U!ForkFails
    <2>1. OnlyOf(u)
      BY DEF UnixInv, UShape, OnlyOf, UPlaces
    <2>2. UserHolds(u)' /\ SemaFollows(u)
      BY DEF UnixInv, UShape, UserHolds, SemaFollows, Holding, Inside
    <2>. QED
      BY <2>1, <2>2, UserStep
  <1>5. CASE U!Fork(u)
    <2>. USE <1>5 DEF U!Fork
    <2>1. OnlyOf(u)
      BY <1>1 DEF UnixInv, UShape, OnlyOf, UPlaces, Procs
    <2>2. UserHolds(u)'
      BY <1>1 DEF UnixInv, UShape, UserHolds
    <2>3. SemaFollows(u)
      BY DEF UnixInv, UShape, SemaFollows, Inside
    <2>. QED
      BY <2>1, <2>2, <2>3, UserStep
  <1>6. CASE U!DetachedFails(u)
    <2>. USE <1>6 DEF U!DetachedFails
    <2>1. OnlyOf(u)
      BY DEF UnixInv, UShape, OnlyOf, UPlaces
    <2>2. UserHolds(u)' /\ SemaFollows(u)
      BY DEF UnixInv, UShape, UserHolds, SemaFollows, Holding, Inside
    <2>. QED
      BY <2>1, <2>2, UserStep
  <1>7. CASE U!Detach(u)
    <2>. USE <1>7 DEF U!Detach
    <2>1. OnlyOf(u)
      BY <1>1 DEF UnixInv, UShape, OnlyOf, UPlaces
    <2>2. UserHolds(u)' /\ SemaFollows(u)
      BY DEF UnixInv, UShape, UserHolds, SemaFollows, Holding, Inside
    <2>. QED
      BY <2>1, <2>2, UserStep
  <1>8. CASE U!Detached(u)
    <2>. USE <1>8 DEF U!Detached
    <2>1. OnlyOf(u)
      BY <1>1 DEF UnixInv, UShape, OnlyOf, UPlaces
    <2>2. UserHolds(u)' /\ SemaFollows(u)
      BY DEF UnixInv, UShape, UserHolds, SemaFollows, Holding, Inside, U!NoKid
    <2>. QED
      BY <2>1, <2>2, UserStep
  <1>. QED
    BY <1>2, <1>3, <1>4, <1>5, <1>6, <1>7, <1>8

\* Calls that only go from one place to another.
LEMMA CallMoves ==
  ASSUME UnixInv, NEW u \in Parents,
         \/ U!JoinReaped(u) \/ U!JoinPolls(u)
         \/ \E t \in 0 .. MaxTimeout : U!Join(u, t) \/ U!WaitReadable(u, t)
         \/ U!Free(u) \/ U!WaitReads(u) \/ U!Read(u)
  PROVE  UnixInv'
  <1>1. UNCHANGED <<MTSem, proc, open, kid, stray>>
    BY DEF U!JoinReaped, U!procVars, U!JoinPolls, U!Join, U!WaitReadable, U!Free, U!WaitReads,
       U!Read
  <1>2. CASE UNCHANGED upc
    BY <1>1, <1>2 DEF UnixInv, UShape, UserHolds, SemaHolds, Inside
  <1>3. ASSUME upc' # upc
        PROVE  \E from, to \in Holding :
                 /\ upc[u] = from /\ upc' = [upc EXCEPT ![u] = to]
                 /\ to = "close" => proc[u].reaped
    BY <1>3 DEF U!JoinReaped, U!procVars, U!JoinPolls, U!Join, U!WaitReadable, U!Free,
       U!WaitReads, U!Read, U!To, Holding
  <1>4. Holding \subseteq UPlaces
    BY DEF Holding, UPlaces
  <1>. QED
    BY <1>1, <1>2, <1>3, <1>4, PlaceStep

\* Calls that give their child up: an exec that keeps MTSem too, and a free.
LEMMA GivesUp ==
  ASSUME UnixInv, NEW u \in Parents, U!ForkNoMemory(u) \/ U!Interrupted(u)
  PROVE  UnixInv'
  <1>. USE DEF U!To
  <1>1. U!Forked \in Kids
    BY DEF U!NoKid, U!Forked, Kids
  <1>2. CASE U!ForkNoMemory(u)
    <2>. USE <1>2 DEF U!ForkNoMemory
    <2>1. OnlyOf(u)
      BY <1>1 DEF UnixInv, UShape, OnlyOf, UPlaces
    <2>2. UserHolds(u)' /\ SemaFollows(u)
      BY DEF UnixInv, UShape, UserHolds, SemaFollows, Holding, Inside
    <2>. QED
      BY <2>1, <2>2, UserStep
  <1>3. CASE U!Interrupted(u)
    <2>. USE <1>3 DEF U!Interrupted
    <2>1. OnlyOf(u)
      BY DEF UnixInv, UShape, OnlyOf, UPlaces
    <2>2. UserHolds(u)' /\ SemaFollows(u)
      BY DEF UnixInv, UShape, UserHolds, SemaFollows, Holding, Inside
    <2>. QED
      BY <2>1, <2>2, UserStep
  <1>. QED
    BY <1>2, <1>3

\* The child is reaped by a join, or by the join of XplProcFree.
LEMMA ReapActs ==
  ASSUME UnixInv, NEW u \in Parents, U!Joined(u)
  PROVE  UnixInv'
  <1>. DEFINE k == [kid[u] EXCEPT !.life = "gone"]
              h == [proc[u] EXCEPT !.reaped = TRUE]
  <1>1. kid[u] \in Kids /\ proc[u] \in Procs
    BY DEF UnixInv, UShape
  <1>2. k \in Kids /\ k.life = "gone"
    BY <1>1 DEF Kids
  <1>3. h \in Procs /\ h.fds = proc[u].fds /\ h.reaped
    BY <1>1 DEF Procs
  <1>4. kid' = [kid EXCEPT ![u] = k] /\ proc' = [proc EXCEPT ![u] = h]
    BY DEF U!Joined, U!Reap
  <1>. HIDE DEF k, h
  <1>5. \E from, to \in Holding : upc[u] = from /\ upc' = [upc EXCEPT ![u] = to]
    BY DEF U!Joined, U!To, Holding
  <1>6. UNCHANGED <<MTSem, open, stray>>
    BY DEF U!Joined
  <1>7. OnlyOf(u)
    BY <1>2, <1>3, <1>4, <1>5, <1>6 DEF UnixInv, UShape, OnlyOf, Holding, UPlaces
  <1>8. UserHolds(u)'
    BY <1>2, <1>3, <1>4, <1>5, <1>6 DEF UnixInv, UShape, UserHolds, Holding
  <1>9. SemaFollows(u)
    BY <1>5, <1>6 DEF SemaFollows, Holding, Inside
  <1>. QED
    BY <1>7, <1>8, <1>9, UserStep

\* A descriptor is closed, and the handle forgets it.
LEMMA CloseActs ==
  ASSUME UnixInv, NEW u \in Parents, U!Flush(u) \/ U!Close(u)
  PROVE  UnixInv'
  <1>1. CASE U!Flush(u)
    <2>. USE <1>1 DEF U!Flush
    <2>. DEFINE h == [proc[u] EXCEPT !.fds = proc[u].fds \ {U!Input}]
    <2>1. proc[u] \in Procs
      BY DEF UnixInv, UShape
    <2>2. h \in Procs /\ h.fds = proc[u].fds \ {U!Input} /\ h.reaped = proc[u].reaped
      BY <2>1 DEF Procs
    <2>3. proc' = [proc EXCEPT ![u] = h]
      OBVIOUS
    <2>. HIDE DEF h
    <2>4. OnlyOf(u)
      BY <2>2, <2>3 DEF UnixInv, UShape, OnlyOf
    <2>5. UserHolds(u)'
      BY <2>2, <2>3 DEF UnixInv, UShape, UserHolds
    <2>6. SemaFollows(u)
      BY DEF SemaFollows, Inside
    <2>. QED
      BY <2>4, <2>5, <2>6, UserStep
  <1>2. CASE U!Close(u)
    <2>. USE <1>2 DEF U!Close, U!To
    <2>1. U!NoProc \in Procs /\ U!NoKid \in Kids
      BY DEF U!NoProc, U!NoKid, Procs, Kids
    <2>2. OnlyOf(u)
      BY <2>1 DEF UnixInv, UShape, OnlyOf, UPlaces
    <2>3. UserHolds(u)'
      BY DEF UnixInv, UShape, UserHolds, Holding, U!NoKid
    <2>4. SemaFollows(u)
      BY DEF SemaFollows, Inside
    <2>. QED
      BY <2>2, <2>3, <2>4, UserStep
  <1>. QED
    BY <1>1, <1>2
-----------------------------------------------------------------------------
(* Windows *)

WPlaces == {"idle", "job", "resume", "held", "join", "group", "group_port", "free", "shut"}
WHolding == {"held", "join", "group", "group_port", "free", "shut"}
InJob == W!Recorded \cup {"hJob", "iocp"}

WShape ==
  /\ wpc \in WPlaces
  /\ wproc \in [handles : SUBSET InJob, done : BOOLEAN, reaped : BOOLEAN]
  /\ kids \in Int

\* The child waits until its job has a port.
WHandleHolds ==
  /\ wpc \in WHolding => wopen = wproc.handles
  /\ wpc = "idle" => wopen = {} /\ life = "none" /\ kids = 0
  /\ wpc = "job" => wproc.handles = W!Recorded /\ wopen = W!Recorded \cup {"hThread"}
  /\ wpc = "resume" => wproc.handles = InJob /\ wopen = InJob \cup {"hThread"}
  /\ wpc \in {"job", "resume"} => life = "suspended" /\ kids = 0

\* The message is queued only when the last process has ended, and its job is at its end.
GroupHolds ==
  /\ zero \/ wproc.reaped => life = "ended" /\ kids = 0
  /\ wpc \in {"idle", "job", "resume"} => ~wproc.reaped

WinInv == WShape /\ WHandleHolds /\ GroupHolds

LEMMA JobActs ==
  ASSUME WinInv, W!KidStarts \/ W!KidEnds \/ W!WSignal \/ W!SignalGroup
  PROVE  WinInv'
  <1>. USE DEF W!KidStarts, W!KidEnds, W!WSignal, W!SignalGroup, W!Ends, W!Job
  <1>1. UNCHANGED <<wpc, wproc, wopen>>
    OBVIOUS
  <1>2. kids' \in Int
    BY DEF WinInv, WShape
  <1>3. wpc \in {"idle", "job", "resume"} => life' = life /\ kids' = kids
    BY DEF WinInv, WHandleHolds
  <1>4. GroupHolds'
    BY <1>1 DEF WinInv, WShape, GroupHolds
  <1>. QED
    BY <1>1, <1>2, <1>3, <1>4 DEF WinInv, WShape, WHandleHolds

LEMMA HandleActs ==
  ASSUME WinInv,
         \/ \E step \in {"stdout", "stderr", "create", "job", "other"} : W!ExecFails(step)
         \/ W!Create \/ W!SetUpJob \/ W!Resume \/ W!WFlush \/ W!Shutdown
  PROVE  WinInv'
  <1>. USE DEF W!WTo, W!Job
  <1>1. CASE \E step \in {"stdout", "stderr", "create", "job", "other"} : W!ExecFails(step)
    BY <1>1 DEF W!ExecFails, WinInv, WShape, WHandleHolds, GroupHolds
  <1>2. CASE W!Create
    BY <1>2 DEF W!Create, W!NoHandle, WinInv, WShape, WHandleHolds, GroupHolds, WPlaces,
       WHolding, InJob
  <1>3. CASE W!SetUpJob
    <2>. DEFINE h == [wproc EXCEPT !.handles = wproc.handles \cup {"hJob", "iocp"}]
    <2>1. wproc.handles = W!Recorded /\ wproc' = h
      BY <1>3 DEF W!SetUpJob, WinInv, WHandleHolds
    <2>2. /\ h \in [handles : SUBSET InJob, done : BOOLEAN, reaped : BOOLEAN]
          /\ h.handles = InJob /\ h.reaped = wproc.reaped
      BY <2>1 DEF WinInv, WShape, InJob
    <2>. HIDE DEF h
    <2>. QED
      BY <1>3, <2>1, <2>2 DEF W!SetUpJob, WinInv, WShape, WHandleHolds, GroupHolds, WPlaces,
         WHolding
  <1>4. CASE W!Resume
    <2>1. wopen' = wproc.handles
      BY <1>4 DEF W!Resume, WinInv, WHandleHolds, InJob, W!Recorded
    <2>. QED
      BY <1>4, <2>1 DEF W!Resume, WinInv, WShape, WHandleHolds, GroupHolds, WPlaces
  <1>5. CASE W!WFlush
    <2>. DEFINE h == [wproc EXCEPT !.handles = wproc.handles \ {"ihandle"}]
    <2>1. /\ h \in [handles : SUBSET InJob, done : BOOLEAN, reaped : BOOLEAN]
          /\ h.handles = wproc.handles \ {"ihandle"} /\ h.reaped = wproc.reaped
      BY DEF WinInv, WShape
    <2>2. wproc' = h
      BY <1>5 DEF W!WFlush
    <2>. HIDE DEF h
    <2>. QED
      BY <1>5, <2>1, <2>2 DEF W!WFlush, WinInv, WShape, WHandleHolds, GroupHolds
  <1>6. CASE W!Shutdown
    BY <1>6 DEF W!Shutdown, W!NoHandle, WinInv, WShape, WHandleHolds, GroupHolds, WPlaces,
       WHolding
  <1>. QED
    BY <1>1, <1>2, <1>3, <1>4, <1>5, <1>6

LEMMA JoinActs ==
  ASSUME WinInv,
         \/ \E to \in {"join", "group"} : W!WJoin(to)
         \/ W!WJoined \/ W!GroupJoined \/ W!TimesOut \/ W!WFree
  PROVE  WinInv'
  <1>. USE DEF W!WTo, W!Job
  <1>1. /\ wpc \in WHolding /\ wpc' \in WHolding
        /\ UNCHANGED <<wopen, life, kids>>
    BY DEF W!WJoin, W!WJoined, W!GroupJoined, W!TimesOut, W!WFree, WHolding
  <1>2. /\ wproc' \in [handles : SUBSET InJob, done : BOOLEAN, reaped : BOOLEAN]
        /\ wproc'.handles = wproc.handles
        /\ zero' \/ wproc'.reaped => zero \/ wproc.reaped
    <2>. DEFINE done == [wproc EXCEPT !.done = TRUE]
                reaped == [wproc EXCEPT !.reaped = TRUE]
    <2>1. /\ done \in [handles : SUBSET InJob, done : BOOLEAN, reaped : BOOLEAN]
          /\ done.handles = wproc.handles /\ done.reaped = wproc.reaped
          /\ reaped \in [handles : SUBSET InJob, done : BOOLEAN, reaped : BOOLEAN]
          /\ reaped.handles = wproc.handles
      BY DEF WinInv, WShape
    <2>2. \/ UNCHANGED <<wproc, zero>>
          \/ wproc' = done /\ UNCHANGED zero
          \/ wproc' = reaped /\ zero /\ ~zero'
      BY DEF W!WJoin, W!WJoined, W!GroupJoined, W!TimesOut, W!WFree
    <2>3. wproc \in [handles : SUBSET InJob, done : BOOLEAN, reaped : BOOLEAN]
      BY DEF WinInv, WShape
    <2>. HIDE DEF done, reaped
    <2>. QED
      BY <2>1, <2>2, <2>3
  <1>3. WHolding \subseteq WPlaces \ {"idle", "job", "resume"}
    BY DEF WHolding, WPlaces
  <1>. QED
    BY <1>1, <1>2, <1>3 DEF WinInv, WShape, WHandleHolds, GroupHolds
-----------------------------------------------------------------------------
(* The theorems *)

ProcsInv == UnixInv /\ WinInv

LEMMA ProcsInitHolds ==
  ASSUME ProcsInit
  PROVE  ProcsInv
  <1>1. UnixInv
    BY DEF ProcsInit, U!ProcInit, UnixInv, UShape, UserHolds, SemaHolds, UPlaces, Procs, Kids,
       U!NoProc, U!NoKid, Inside
  <1>2. WinInv
    BY DEF ProcsInit, W!WinInit, WinInv, WShape, WHandleHolds, GroupHolds, WPlaces, W!NoHandle
  <1>. QED
    BY <1>1, <1>2 DEF ProcsInv

LEMMA ProcsNextHolds ==
  ASSUME ProcsInv, [ProcsNext]_procsVars
  PROVE  ProcsInv'
  <1>1. UNCHANGED unix => UnixInv'
    BY DEF unix, ProcsInv, UnixInv, UShape, UserHolds, SemaHolds, Inside
  <1>2. UNCHANGED windows => WinInv'
    BY DEF windows, ProcsInv, WinInv, WShape, WHandleHolds, GroupHolds
  <1>3. U!ProcNext => UnixInv'
    BY KidActs, ExecActs, CallMoves, GivesUp, ReapActs, CloseActs DEF ProcsInv, U!ProcNext
  <1>4. W!WinNext => WinInv'
    BY JobActs, HandleActs, JoinActs DEF ProcsInv, W!WinNext
  <1>. QED
    BY <1>1, <1>2, <1>3, <1>4 DEF ProcsNext, OnUnix, OnWindows, procsVars, ProcsInv

LEMMA ProcsInvariance ==
  ProcsSpec => []ProcsInv
  <1>. QED
    BY ProcsInitHolds, ProcsNextHolds, PTL DEF ProcsSpec

\* What a handle records is what is open for it, and it knows whether its child has
\* been reaped, whatever calls have failed or were interrupted before. A user without
\* a handle has no descriptors and no child left, unless its free was interrupted,
\* which gives up the child, or its exec found no memory after the fork, which gives
\* up the child and the pipes: that happens to one exec at most, since none forks
\* after it (procunix.c:85-205, 546-570, procwin.c:371-504).
THEOREM HandlesAreSound == ProcsSpec => []HandlesSound
  <1>1. ASSUME ProcsInv
        PROVE  HandlesSound
    <2>1. \A u, v \in Parents : Inside(u) /\ Inside(v) => u = v
      BY <1>1 DEF ProcsInv, UnixInv, SemaHolds
    <2>3. \A u \in Parents : stray[u] = "exec" => upc[u] \notin {"fork", "fork_detached"}
      BY <1>1 DEF ProcsInv, UnixInv, UserHolds
    <2>4. U!HandleSound
      BY <1>1, <2>1, <2>3
      DEF ProcsInv, UnixInv, UShape, UserHolds, Procs, Holding, Inside, U!HandleSound
    <2>2. W!WinHandlesSound
      BY <1>1 DEF ProcsInv, WinInv, WHandleHolds, WHolding, W!WinHandlesSound
    <2>. QED
      BY <2>2, <2>4 DEF HandlesSound
  <1>. QED
    BY <1>1, ProcsInvariance, PTL

\* At most one thread is between the wait on MTSem and its post, around fork
\* (procunix.c:107-199, 232-268). The pipes are made before: a child of another
\* thread may inherit them. One whose calloc failed (176) leaves and never posts:
\* nobody is there after it.
THEOREM ForksAreExclusive ==
  ProcsSpec => [](\A u, v \in Parents : Inside(u) /\ Inside(v) => u = v)
  <1>1. ASSUME ProcsInv
        PROVE  \A u, v \in Parents : Inside(u) /\ Inside(v) => u = v
    BY <1>1 DEF ProcsInv, UnixInv, SemaHolds
  <1>. QED
    BY <1>1, ProcsInvariance, PTL

\* A handle is marked reaped only when no process of its group runs: the message
\* on the port is that of the last one (procwin.c:824-853).
THEOREM JoinedGroupsHaveEnded ==
  ProcsSpec => [](wproc.reaped => life = "ended" /\ kids = 0)
  <1>1. ASSUME ProcsInv
        PROVE  wproc.reaped => life = "ended" /\ kids = 0
    BY <1>1 DEF ProcsInv, WinInv, GroupHolds
  <1>. QED
    BY <1>1, ProcsInvariance, PTL
-----------------------------------------------------------------------------
(* Shutdown handlers: the one in hand is off the list before its callback  *)
(* runs, and only the main thread between two callbacks takes another; so  *)
(* the cells in use are those of the list, each once, and that one.        *)

\* There is a handler in hand just while its callback runs.
HandlersShape ==
  /\ shutdown_handlers \in Seq(Cells)
  /\ cell \in [Cells -> [cb : Callbacks, baton : Batons] \cup {Null}]
  /\ handler \in Cells \cup {Null}
  /\ mpc = "callback" <=> handler # Null

HandlersInv == HandlersShape /\ HandlersSound

HandlersStay ==
  /\ UNCHANGED <<shutdown_handlers, cell, handler>>
  /\ mpc' = "callback" <=> mpc = "callback"

LEMMA StayHolds ==
  ASSUME HandlersInv, HandlersStay
  PROVE  HandlersInv'
  <1>1. HandlersShape'
    BY DEF HandlersInv, HandlersShape, HandlersStay
  <1>2. HandlersSound'
    BY DEF HandlersInv, HandlersSound, HandlersStay, IsInjective, Range
  <1>. QED
    BY <1>1, <1>2 DEF HandlersInv

LEMMA RegisterHolds ==
  ASSUME HandlersInv, NEW t, XplOnShutdown(t)
  PROVE  HandlersInv'
  <1>1. PICK h \in Cells, cb \in Callbacks, b \in Batons :
          /\ cell[h] = Null
          /\ cell' = [cell EXCEPT ![h] = [cb |-> cb, baton |-> b]]
          /\ shutdown_handlers' = <<h>> \o shutdown_handlers
    BY DEF XplOnShutdown
  <1>. DEFINE new == [cb |-> cb, baton |-> b]
  <1>2. new \in [cb : Callbacks, baton : Batons] /\ new # Null
    BY HandlersAssumption
  <1>3. UNCHANGED <<mpc, handler>>
    BY DEF XplOnShutdown
  <1>. HIDE DEF new
  <1>4. /\ shutdown_handlers \in Seq(Cells) /\ IsInjective(shutdown_handlers)
        /\ cell \in [Cells -> [cb : Callbacks, baton : Batons] \cup {Null}]
        /\ h \notin Range(shutdown_handlers) /\ h # handler
    <2>1. h \notin {g \in Cells : cell[g] # Null}
      BY <1>1
    <2>. QED
      BY <2>1, HandlersAssumption DEF HandlersInv, HandlersShape, HandlersSound
  <1>5. /\ shutdown_handlers' \in Seq(Cells) /\ IsInjective(shutdown_handlers')
        /\ Range(shutdown_handlers') = Range(shutdown_handlers) \cup {h}
    <2>1. \A s \in Seq(Cells) : \A u : Contains(s, u) <=> u \in Range(s)
      BY DEF Contains, Range
    <2>2. ~Contains(shutdown_handlers, h)
      BY <1>4, <2>1
    <2>3. /\ shutdown_handlers' \in Seq(Cells) /\ IsInjective(shutdown_handlers')
          /\ \A u : Contains(shutdown_handlers', u) <=> u = h \/ Contains(shutdown_handlers, u)
      BY <1>1, <1>4, <2>2, FrontAdds
    <2>. QED
      BY <1>4, <2>1, <2>3
  <1>6. cell' = [cell EXCEPT ![h] = new]
    BY <1>1 DEF new
  <1>7. HandlersShape'
    BY <1>2, <1>3, <1>4, <1>5, <1>6 DEF HandlersInv, HandlersShape
  <1>8. {g \in Cells : cell'[g] # Null} = {g \in Cells : cell[g] # Null} \cup {h}
    BY <1>2, <1>4, <1>6
  <1>9. HandlersSound'
    BY <1>3, <1>4, <1>5, <1>8 DEF HandlersInv, HandlersSound
  <1>. QED
    BY <1>7, <1>9 DEF HandlersInv

LEMMA CancelHolds ==
  ASSUME HandlersInv, NEW t, NEW cb, NEW b, XplOnShutdownCancel(t, cb, b)
  PROVE  HandlersInv'
  <1>1. PICK out \in SUBSET DOMAIN shutdown_handlers :
          /\ \E at \in InOrder(DOMAIN shutdown_handlers \ out) :
               shutdown_handlers' = [k \in DOMAIN at |-> shutdown_handlers[at[k]]]
          /\ cell' = [h \in Cells |-> IF \E k \in out : shutdown_handlers[k] = h
                                     THEN Null ELSE cell[h]]
    BY DEF XplOnShutdownCancel
  <1>2. PICK at \in Bijection(1 .. Cardinality(DOMAIN shutdown_handlers \ out),
                              DOMAIN shutdown_handlers \ out) :
          shutdown_handlers' = [k \in DOMAIN at |-> shutdown_handlers[at[k]]]
    BY <1>1 DEF InOrder
  <1>3. UNCHANGED <<mpc, handler>>
    BY DEF XplOnShutdownCancel
  <1>4. /\ shutdown_handlers \in Seq(Cells) /\ IsInjective(shutdown_handlers)
        /\ cell \in [Cells -> [cb : Callbacks, baton : Batons] \cup {Null}]
    BY DEF HandlersInv, HandlersShape, HandlersSound
  <1>. DEFINE gone == {shutdown_handlers[k] : k \in out}
  <1>5. /\ shutdown_handlers' \in Seq(Cells) /\ IsInjective(shutdown_handlers')
        /\ Range(shutdown_handlers') = {shutdown_handlers[k] : k \in DOMAIN shutdown_handlers \ out}
    <2>. DEFINE places == DOMAIN shutdown_handlers \ out
                picked == [k \in DOMAIN at |-> shutdown_handlers[at[k]]]
    <2>1. places \in SUBSET DOMAIN shutdown_handlers
      OBVIOUS
    <2>2. at \in Bijection(1 .. Cardinality(places), places) /\ shutdown_handlers' = picked
      BY <1>2
    <2>. HIDE DEF places
    <2>3. /\ picked \in Seq(Cells) /\ IsInjective(picked)
          /\ Range(picked) = {shutdown_handlers[k] : k \in places}
      BY <1>4, <2>1, <2>2, PickedOut
    <2>. HIDE DEF picked
    <2>. QED
      BY <2>2, <2>3 DEF places
  <1>6. Range(shutdown_handlers') = Range(shutdown_handlers) \ gone
    <2>1. \A j \in DOMAIN shutdown_handlers :
            shutdown_handlers[j] \in gone <=> j \in out
      BY <1>1, <1>4 DEF IsInjective
    <2>. HIDE DEF gone
    <2>2. Range(shutdown_handlers) = {shutdown_handlers[k] : k \in DOMAIN shutdown_handlers}
      BY DEF Range
    <2>. QED
      BY <1>5, <2>1, <2>2
  <1>7. \A h \in Cells : cell'[h] = IF h \in gone THEN Null ELSE cell[h]
    BY <1>1
  <1>8. gone \subseteq Range(shutdown_handlers)
    BY <1>1 DEF Range
  <1>9. cell' \in [Cells -> [cb : Callbacks, baton : Batons] \cup {Null}]
    BY <1>1, <1>4
  <1>. HIDE DEF gone
  <1>10. HandlersShape'
    BY <1>3, <1>5, <1>9 DEF HandlersInv, HandlersShape
  <1>11. {h \in Cells : cell'[h] # Null} = {h \in Cells : cell[h] # Null} \ gone
    BY <1>7
  <1>12. HandlersSound'
    BY <1>3, <1>5, <1>6, <1>8, <1>11 DEF HandlersInv, HandlersSound
  <1>. QED
    BY <1>10, <1>12 DEF HandlersInv

LEMMA HandleHolds ==
  ASSUME HandlersInv, HandleNext
  PROVE  HandlersInv'
  <1>1. /\ shutdown_handlers # <<>> /\ mpc' = "callback" /\ handler' = Head(shutdown_handlers)
        /\ shutdown_handlers' = Tail(shutdown_handlers) /\ cell' = cell
        /\ handler = Null
    BY DEF HandleNext, To, HandlersInv, HandlersShape
  <1>2. /\ shutdown_handlers \in Seq(Cells) /\ IsInjective(shutdown_handlers)
        /\ {h \in Cells : cell[h] # Null} = Range(shutdown_handlers)
    BY <1>1 DEF HandlersInv, HandlersShape, HandlersSound
  <1>3. /\ handler' \in Cells /\ shutdown_handlers' \in Seq(Cells)
        /\ IsInjective(shutdown_handlers')
        /\ handler' \in Range(shutdown_handlers)
        /\ Range(shutdown_handlers') = Range(shutdown_handlers) \ {handler'}
    BY <1>1, <1>2, TailLeaves
  <1>4. handler' # Null
    BY <1>3, HandlersAssumption
  <1>5. HandlersShape'
    BY <1>1, <1>3, <1>4 DEF HandlersInv, HandlersShape
  <1>6. HandlersSound'
    BY <1>1, <1>2, <1>3, <1>4 DEF HandlersSound
  <1>. QED
    BY <1>5, <1>6 DEF HandlersInv

LEMMA HandledHolds ==
  ASSUME HandlersInv, Handled
  PROVE  HandlersInv'
  <1>1. /\ mpc' = "shutdown" /\ handler' = Null /\ handler \in Cells
        /\ cell' = [cell EXCEPT ![handler] = Null]
        /\ shutdown_handlers' = shutdown_handlers
    BY DEF Handled, To, HandlersInv, HandlersShape
  <1>2. Null \notin Range(shutdown_handlers)
    BY HandlersAssumption DEF HandlersInv, HandlersShape, Range
  <1>3. HandlersShape'
    BY <1>1 DEF HandlersInv, HandlersShape
  <1>4. {h \in Cells : cell'[h] # Null} = {h \in Cells : cell[h] # Null} \ {handler}
    BY <1>1 DEF HandlersInv, HandlersShape
  <1>5. HandlersSound'
    BY <1>1, <1>2, <1>4 DEF HandlersInv, HandlersSound
  <1>. QED
    BY <1>3, <1>5 DEF HandlersInv

LEMMA HandlersNextHolds ==
  ASSUME HandlersInv, [Next]_vars
  PROVE  HandlersInv'
  <1>1. CASE \E t \in Threads \cup {"main"} : XplOnShutdown(t)
    BY <1>1, RegisterHolds
  <1>2. CASE \E t \in Threads \cup {"main"}, cb \in Callbacks \cup {Null}, b \in Batons \cup {Null} :
               XplOnShutdownCancel(t, cb, b)
    BY <1>2, CancelHolds
  <1>3. CASE HandleNext
    BY <1>3, HandleHolds
  <1>4. CASE Handled
    BY <1>4, HandledHolds
  <1>5. CASE AllHandled \/ Start \/ Return \/ XplSignalHandler \/ Unhandle \/ WrapEnd \/ Tell
             \/ Join \/ Close
    <2>1. HandlersStay
      BY <1>5 DEF AllHandled, Start, Return, XplSignalHandler, Unhandle, SetHandler, WrapEnd,
         Tell, Join, Close, To, HandlersStay
    <2>. QED
      BY <2>1, StayHolds
  <1>6. CASE SystemSignal \/ AlarmRings
    <2>1. HandlersStay
      BY <1>6 DEF SystemSignal, AlarmRings, SignalProcessor, HandlersStay
    <2>. QED
      BY <2>1, StayHolds
  <1>7. CASE SignalThreadStep \/ SignalAlarm \/ SignalChain
    <2>1. HandlersStay
      BY <1>7 DEF SignalThreadStep, SignalThread, Catch, Test, CallHandler, HandlerReturns, Switch,
         SignalAlarm, SignalChain, Goes, mainVars, HandlersStay
    <2>. QED
      BY <2>1, StayHolds
  <1>8. CASE UNCHANGED mainVars
    <2>1. HandlersStay
      BY <1>8 DEF mainVars, HandlersStay
    <2>. QED
      BY <2>1, StayHolds
  <1>9. UserBegins \/ Clock \/ (\E u \in Users : UserGoesOn(u)) \/ UNCHANGED vars => UNCHANGED mainVars
    BY DEF UserBegins, Clock, UserGoesOn, vars
  <1>10. Obey => Return \/ UNCHANGED mainVars
    BY DEF Obey
  <1>11. MainStep => \/ MainGoesOn \/ Return \/ XplSignalHandler
                     \/ \E t \in Threads \cup {"main"} : XplOnShutdown(t)
                     \/ \E t \in Threads \cup {"main"}, cb \in Callbacks \cup {Null},
                           b \in Batons \cup {Null} : XplOnShutdownCancel(t, cb, b)
    BY DEF MainStep
  <1>. QED
    BY <1>1, <1>2, <1>3, <1>4, <1>5, <1>6, <1>7, <1>8, <1>9, <1>10, <1>11 DEF Next, MainGoesOn

\* Each shutdown handler is called or cancelled once and its memory freed then, though
\* callbacks register and cancel handlers while XplHandleShutdown runs, for any
\* handlers, threads and batons (xplmain.c:43-150).
THEOREM HandlersAreSound == Spec => []HandlersSound
  <1>1. Init => HandlersInv
    BY DEF Init, MainInit, HandlersInv, HandlersShape, HandlersSound, IsInjective, Range
  <1>2. Spec => []HandlersInv
    BY <1>1, HandlersNextHolds, PTL DEF Spec
  <1>3. HandlersInv => HandlersSound
    BY DEF HandlersInv
  <1>. QED
    BY <1>2, <1>3, PTL
=============================================================================
