-------------------------- MODULE ThreadLifeProofs --------------------------
(***************************************************************************)
(* Threads and groups, for any numbers of system threads, structures and   *)
(* groups, as long as Main is wrapped while others use the static group    *)
(* (Wrapped): then the static group is created once, and goes with its     *)
(* last member.  The invariant says for each place in the code what the    *)
(* system thread that is there holds, and which structures are, by their   *)
(* stage and by who holds them, on the lists.                              *)
(***************************************************************************)
EXTENDS ThreadLife, ListLemmas, FiniteSetTheorems, TLAPS

\* Where a thread is started, and where it is taken apart.
InStart == {"link", "list", "schedule", "create"}
InEnd   == {"unlist", "unlink", "clean", "release"}

\* A system thread runs a thread that it has not begun to take apart.
Alive(a) == /\ runs[a] # Null
            /\ pc[a] \notin InEnd \cup {"rest"}
            /\ pc[a] = "cache" => a = Main

\* Main has not come back from XplThreadWrap.
Wrapping == \/ pc[Main] \in {"unwrapped", "wrap"}
            \/ pc[Main] \in InStart /\ stage[th[Main]] = "wrapping"

\* A system thread at one of these places holds the structure.
HeldAt(t, S) == \E a \in Actors : pc[a] \in S /\ th[a] = t

\* The structures in the list of their group, and in the global list.
Linked(t) ==
  \/ stage[t] \in {"queued", "running", "abandoned"}
  \/ stage[t] \in {"starting", "wrapping"} /\ HeldAt(t, {"list", "schedule", "create"})
  \/ stage[t] = "ended" /\ HeldAt(t, {"unlist"})

Listed(t) ==
  \/ stage[t] \in {"queued", "running", "abandoned"}
  \/ stage[t] \in {"starting", "wrapping"} /\ HeldAt(t, {"schedule", "create"})
  \/ stage[t] = "ended" /\ HeldAt(t, {"unlist", "unlink"})

\* The reference that XplThreadStart made is not dropped yet.
Referred(t) ==
  \/ stage[t] \in {"starting", "queued", "wrapping", "running", "abandoned"}
  \/ HeldAt(t, InEnd)

Shape ==
  /\ shutdown \in BOOLEAN
  /\ own \in Groups \cup {Null} /\ staticGroup \in Groups \cup {Null}
  /\ running \in [Groups -> BOOLEAN] /\ stackSize \in [Groups -> BOOLEAN]
  /\ group \in [Threads -> Groups \cup {Null}]
  /\ id \in [Threads -> Actors \cup {Null}]
  /\ stage \in [Threads -> Stages]
  /\ runs \in [Actors -> Threads \cup {Null}]
  /\ handles \subseteq Threads
  /\ cache = {t \in Threads : stage[t] = "cached"}
  /\ pc \in [Actors -> Places]
  /\ gr \in [Actors -> Groups \cup {Null}] /\ th \in [Actors -> Threads \cup {Null}]
  /\ starts \in 0 .. MaxStarts

\* The groups are Main's own and the static one, and a group that is on its way out.
Owned ==
  /\ groups = {own, staticGroup} \ {Null}
  /\ own # Null => own # staticGroup
  /\ \A g : g \in allocated <=> \/ g \in groups
                               \/ \E a \in Actors : pc[a] = "clean" /\ gr[a] = g

\* What a system thread holds, by its place.
Role(a) ==
  /\ pc[a] \in InStart => /\ th[a] # Null /\ gr[a] = group[th[a]]
                          /\ stage[th[a]] \in {"starting", "wrapping"}
                          /\ stage[th[a]] = "wrapping" => a = Main /\ pc[a] # "create"
  /\ pc[a] \in InEnd => /\ th[a] # Null /\ th[a] = runs[a]
                        /\ gr[a] = group[th[a]] /\ gr[a] # Null
                        /\ stage[th[a]] = "ended"
  /\ pc[a] = "cache" => th[a] # Null /\ stage[th[a]] = "ended"
  /\ pc[a] \in {"take", "wrap"} \cup InStart => gr[a] \in groups
  /\ th[a] # Null => /\ shutdown \/ pc[a] \in InStart \cup InEnd \cup {"cache"}
                     /\ stage[th[a]] \in {"starting", "wrapping", "ended"}
  /\ Alive(a) => stage[runs[a]] = "running"
  /\ a # Main => /\ pc[a] \notin {"unwrapped", "wrap", "poll", "delete", "empty", "done"}
                 /\ pc[a] \in {"take"} \cup InStart => runs[a] # Null
                 /\ pc[a] = "cache" => runs[a] = th[a]
  /\ a = Main => /\ pc[a] # "rest"
                 /\ pc[a] \in {"poll", "delete"} => own # Null

Exclusive ==
  \A a, b \in Actors : a # b => /\ th[a] = th[b] => th[a] = Null
                                /\ ~(Alive(a) /\ Alive(b) /\ runs[a] = runs[b])

\* Until Main is wrapped nobody else has done anything.
First ==
  Wrapping =>
    /\ ~shutdown /\ own = Null /\ handles = {} /\ runs[Main] = Null
    /\ \A w \in Workers : pc[w] = "idle" /\ runs[w] = Null
    /\ \A t \in Threads : stage[t] = "none" \/ t = th[Main]
    /\ staticGroup = gr[Main]
    /\ pc[Main] \in {"unwrapped", "wrap"} => th[Main] = Null
    /\ pc[Main] = "unwrapped" => gr[Main] = Null

\* The group that a thread is started in is kept: Main does it in its own, or
\* the starter is a member, or Main is.
Kept(a) ==
  \/ Wrapping
  \/ a = Main /\ gr[a] = own
  \/ Alive(a) /\ gr[a] = group[runs[a]]
  \/ Alive(Main) /\ gr[a] = staticGroup

Static ==
  /\ Alive(Main) => staticGroup # Null /\ group[runs[Main]] = staticGroup
  /\ staticGroup # Null => \/ members[staticGroup] # {}
                           \/ \E a \in Actors : pc[a] = "unlink" /\ gr[a] = staticGroup
                           \/ Wrapping
  /\ \A a \in Actors : pc[a] \in {"take", "link"} => Kept(a)
  /\ \A a \in Actors : pc[a] = "clean" => staticGroup = Null /\ gr[a] # own
  /\ \A a, b \in Actors : pc[a] = "clean" /\ pc[b] = "clean" => a = b

Membership ==
  /\ members \in [Groups -> SUBSET Threads]
  /\ \A t \in Threads : Linked(t) => group[t] \in groups
  /\ \A g \in groups, t \in Threads : t \in members[g] <=> Linked(t) /\ group[t] = g
  /\ pc[Main] = "delete" => members[own] = {}

Counting == /\ count \in [Groups -> Nat]
            /\ \A g \in groups : count[g] = Cardinality(members[g])

Listing ==
  /\ threadList \in Seq(Threads)
  /\ threads = Len(threadList)
  /\ \A t \in Threads : Listed(t) <=> Contains(threadList, t)
  /\ IsInjective(threadList)

Refs ==
  /\ consumers \in [Threads -> Nat]
  /\ \A t \in handles : stage[t] \notin {"none", "cached"}
  /\ \A a \in Actors : pc[a] = "cache" => th[a] \notin handles /\ consumers[th[a]] = 0
  /\ shutdown \/ \A t \in Threads :
       consumers[t] = (IF t \in handles THEN 1 ELSE 0) + (IF Referred(t) THEN 1 ELSE 0)

Stopped ==
  shutdown => /\ pc[Main] \in {"empty", "done"}
              /\ threadList = <<>> /\ staticGroup = Null /\ own = Null

Roles == \A a \in Actors : Role(a)

IInv == /\ Shape /\ Owned /\ Roles /\ Exclusive /\ First /\ Static /\ Membership
        /\ Counting /\ Listing /\ Refs /\ Stopped
-----------------------------------------------------------------------------

USE ThreadLifeAssumption DEF Actors, Go, Set, Free, Forget, Resume, InStart, InEnd

\* Places and stages of the structures, in the words of the invariant.
LEMMA LivesOn ==
  ASSUME IInv, NEW a \in Actors, Alive(a)
  PROVE  ~shutdown /\ threadList # <<>> /\ group[runs[a]] \in groups /\ runs[a] \in Threads
  <1>1. runs[a] \in Threads /\ Listed(runs[a]) /\ Linked(runs[a])
    BY DEF IInv, Shape, Roles, Role, Alive, Listed, Linked
  <1>2. threadList # <<>>
    BY <1>1 DEF IInv, Listing, Contains
  <1>. QED
    BY <1>1, <1>2 DEF IInv, Membership, Stopped

\* The members are counted.
LEMMA Counted ==
  ASSUME IInv, NEW g \in groups
  PROVE  /\ g \in Groups /\ members[g] \in SUBSET Threads
         /\ count[g] = 0 <=> members[g] = {}
         /\ \A t \in Threads \ members[g] : Cardinality(members[g] \cup {t}) = count[g] + 1
         /\ \A t \in members[g] : /\ Cardinality(members[g] \ {t}) = count[g] - 1
                                  /\ count[g] >= 1
  <1>1. g \in Groups /\ members[g] \in SUBSET Threads /\ count[g] = Cardinality(members[g])
    BY DEF IInv, Shape, Owned, Membership, Counting
  <1>2. IsFiniteSet(members[g])
    BY <1>1, FS_Subset
  <1>3. count[g] = 0 <=> members[g] = {}
    BY <1>1, <1>2, FS_EmptySet
  <1>4. \A t \in Threads \ members[g] : Cardinality(members[g] \cup {t}) = count[g] + 1
    BY <1>1, <1>2, FS_AddElement
  <1>5. ASSUME NEW t \in members[g]
        PROVE  Cardinality(members[g] \ {t}) = count[g] - 1 /\ count[g] >= 1
    <2>1. Cardinality(members[g] \ {t}) = Cardinality(members[g]) - 1
      BY <1>2, FS_RemoveElement, Zenon
    <2>2. count[g] \in Nat /\ count[g] # 0
      BY <1>1, <1>2, <1>3, FS_CardinalityType
    <2>. QED
      BY <2>1, <2>2, <1>1
  <1>. QED
    BY <1>1, <1>3, <1>4, <1>5

LEMMA StartInGroupStep ==
  ASSUME IInv, NEW a \in Actors, StartInGroup(a)
  PROVE  IInv'
  <1>. USE DEF StartInGroup, global, inGroup, inThread, local, main
  <1>1. \A u \in Threads : Listed(u)' <=> Listed(u)
    BY DEF Listed, HeldAt
  <1>2. \A u \in Threads : Referred(u)' <=> Referred(u)
    BY DEF Referred, HeldAt
  <1>3. Shape'
    BY DEF IInv, Shape, Places
  <1>4. Owned'
    BY DEF IInv, Owned
  <1>5. Roles'
    BY DEF IInv, Shape, Owned, Roles, Role, Alive, Membership, Linked
  <1>6. Exclusive'
    BY DEF IInv, Exclusive, Alive
  <1>7. First'
    BY DEF IInv, First, Wrapping
  <1>8. Static'
    BY DEF IInv, Shape, First, Static, Kept, Alive
  <1>9. Membership'
    BY DEF IInv, Membership, Linked, HeldAt
  <1>10. Counting'
    BY DEF IInv, Counting
  <1>11. Listing'
    BY <1>1 DEF IInv, Listing
  <1>12. Refs'
    BY <1>2 DEF IInv, Refs
  <1>13. Stopped'
    BY DEF Stopped
  <1>. QED
    BY <1>3, <1>4, <1>5, <1>6, <1>7, <1>8, <1>9, <1>10, <1>11, <1>12, <1>13 DEF IInv

LEMMA StartStaticStep ==
  ASSUME Wrapped, IInv, NEW a \in Actors, StartStatic(a)
  PROVE  IInv'
  <1>. USE DEF StartStatic, UseStatic, MayUseStatic, Create, global, inGroup, inThread, local, main
  <1>1. /\ runs[a] # Null => Alive(a)
        /\ runs[Main] # Null /\ stage[runs[Main]] = "running" => Alive(Main)
    BY DEF IInv, Roles, Role, Alive
  <1>2. staticGroup # Null /\ (Alive(Main) \/ (Alive(a) /\ group[runs[a]] = staticGroup))
    BY <1>1, LivesOn, Wrapped DEF IInv, Owned, Static
  <1>3. /\ gr' = [gr EXCEPT ![a] = staticGroup]
        /\ UNCHANGED <<allocated, groups, staticGroup, running, stackSize, members, count>>
    BY <1>2
  <1>4. \A u \in Threads : Listed(u)' <=> Listed(u)
    BY DEF Listed, HeldAt
  <1>5. \A u \in Threads : Referred(u)' <=> Referred(u)
    BY DEF Referred, HeldAt
  <1>6. Shape'
    BY <1>3 DEF IInv, Shape, Places
  <1>7. Owned'
    BY <1>3, <1>2 DEF IInv, Owned
  <1>8. Roles'
    BY <1>3, <1>2 DEF IInv, Shape, Owned, Roles, Role, Alive
  <1>9. Exclusive'
    BY <1>3, <1>2 DEF IInv, Exclusive, Alive
  <1>10. First'
    BY <1>3, <1>2 DEF IInv, First, Wrapping
  <1>11. Static'
    BY <1>3, <1>2 DEF IInv, Shape, First, Static, Kept, Alive
  <1>12. Membership'
    BY <1>3, <1>2 DEF IInv, Membership, Linked, HeldAt
  <1>13. Counting'
    BY <1>3 DEF IInv, Counting
  <1>14. Listing'
    BY <1>3, <1>2, <1>4 DEF IInv, Listing
  <1>15. Refs'
    BY <1>3, <1>2, <1>5 DEF IInv, Refs
  <1>16. Stopped'
    BY <1>3, <1>2 DEF Stopped
  <1>. QED
    BY <1>6, <1>7, <1>8, <1>9, <1>10, <1>11, <1>12, <1>13, <1>14, <1>15, <1>16 DEF IInv

LEMMA TakeStep ==
  ASSUME IInv, NEW a \in Actors, Take(a)
  PROVE  IInv'
  <1>. USE DEF Take, global, inGroup, inThread, local, main
  <1>1. ~shutdown
    BY LivesOn DEF IInv, Roles, Role, Stopped, Alive
  <1>2. PICK t \in Threads, kept \in {0, 1} :
         /\ stage[t] \in {"cached", "none"} /\ kept = 1 => a = Main
         /\ consumers' = [consumers EXCEPT ![t] = 1 + kept]
         /\ handles' = IF kept = 1 THEN handles \cup {t} ELSE handles
         /\ th' = [th EXCEPT ![a] = t] /\ stage' = [stage EXCEPT ![t] = "starting"]
    BY DEF IInv, Shape
  <1>3. \A u \in Threads : Listed(u)' <=> Listed(u)
    BY DEF IInv, Shape, Roles, Role, Listed, HeldAt
  <1>4. \A u \in Threads : Referred(u)' <=> u = t \/ Referred(u)
    BY <1>2 DEF IInv, Shape, Referred, HeldAt
  <1>5. ~Referred(t) /\ t \notin handles
    BY <1>2 DEF IInv, Shape, Roles, Role, Refs, Referred, HeldAt
  <1>6. Shape'
    BY DEF IInv, Shape, Places, Stages
  <1>7. Owned'
    BY DEF IInv, Owned
  <1>8. Roles'
    BY DEF IInv, Shape, Roles, Role, Alive
  <1>9. Exclusive'
    BY DEF IInv, Shape, Roles, Role, Exclusive, Alive
  <1>10. First'
    BY DEF IInv, Shape, First, Wrapping
  <1>11. Static'
    BY DEF IInv, Shape, Roles, Role, Wrapping, Static, Kept, Alive
  <1>12. Membership'
    BY DEF IInv, Shape, Roles, Role, Membership, Linked, HeldAt
  <1>13. Counting'
    BY DEF IInv, Counting
  <1>14. Listing'
    BY <1>3 DEF IInv, Listing
  <1>15. Refs'
    <2>1. consumers' \in [Threads -> Nat]
      BY <1>2 DEF IInv, Refs
    <2>2. \A u \in handles' : stage'[u] \notin {"none", "cached"}
      BY <1>2 DEF IInv, Shape, Refs
    <2>3. \A b \in Actors : pc'[b] = "cache" => th'[b] \notin handles' /\ consumers'[th'[b]] = 0
      BY <1>2 DEF IInv, Shape, Roles, Role, Refs
    <2>4. \A u \in Threads :
            consumers'[u] = (IF u \in handles' THEN 1 ELSE 0) + (IF Referred(u)' THEN 1 ELSE 0)
      BY <1>1, <1>2, <1>4, <1>5 DEF IInv, Refs
    <2>. QED
      BY <2>1, <2>2, <2>3, <2>4 DEF Refs
  <1>16. Stopped'
    BY DEF IInv, Stopped
  <1>. QED
    BY <1>6, <1>7, <1>8, <1>9, <1>10, <1>11, <1>12, <1>13, <1>14, <1>15, <1>16 DEF IInv

LEMMA LinkStep ==
  ASSUME IInv, NEW a \in Actors, Link(a)
  PROVE  IInv'
  <1>. USE DEF Link, global, inGroup, inThread, local, main
  <1>1. \A u \in Threads : Listed(u)' <=> Listed(u)
    BY DEF Listed, HeldAt
  <1>2. \A u \in Threads : Referred(u)' <=> Referred(u)
    BY DEF Referred, HeldAt
  <1>3. Shape'
    BY DEF IInv, Shape, Places
  <1>4. Owned'
    BY DEF IInv, Owned
  <1>5. Roles'
    BY DEF IInv, Roles, Role, Alive
  <1>6. Exclusive'
    BY DEF IInv, Exclusive, Alive
  <1>7. First'
    BY DEF IInv, First, Wrapping
  <1>8. Static'
    BY DEF IInv, Wrapping, Static, Kept, Alive
  <1>9. Membership'
    <2>1. th[a] \in Threads /\ gr[a] \in groups /\ group[th[a]] = gr[a] /\ groups \subseteq Groups
      BY DEF IInv, Shape, Owned, Roles, Role
    <2>2. \A u \in Threads : Linked(u)' <=> u = th[a] \/ Linked(u)
      BY <2>1 DEF IInv, Shape, Roles, Role, Linked, HeldAt
    <2>3. pc[Main] = "delete" => gr[a] # own
      BY DEF IInv, Shape, Roles, Role, Static, Kept, Alive, First, Membership, Linked
    <2>. QED
      BY <2>1, <2>2, <2>3 DEF IInv, Membership
  <1>10. Counting'
    <2>1. th[a] \in Threads \ members[gr[a]] /\ gr[a] \in groups
      BY DEF IInv, Shape, Roles, Role, Exclusive, Membership, Linked, HeldAt
    <2>. QED
      BY <2>1, Counted DEF IInv, Membership, Counting
  <1>11. Listing'
    BY <1>1 DEF IInv, Listing
  <1>12. Refs'
    BY <1>2 DEF IInv, Refs
  <1>13. Stopped'
    BY DEF IInv, Stopped
  <1>. QED
    BY <1>3, <1>4, <1>5, <1>6, <1>7, <1>8, <1>9, <1>10, <1>11, <1>12, <1>13 DEF IInv

LEMMA ListStep ==
  ASSUME IInv, NEW a \in Actors, List(a)
  PROVE  IInv'
  <1>. USE DEF List, global, inGroup, inThread, local, main
  <1>1. th[a] \in Threads /\ ~Listed(th[a])
    BY DEF IInv, Shape, Roles, Role, Exclusive, Listed, HeldAt
  <1>2. \A u \in Threads : Listed(u)' <=> u = th[a] \/ Listed(u)
    BY DEF IInv, Shape, Roles, Role, Listed, HeldAt
  <1>3. \A u \in Threads : Referred(u)' <=> Referred(u)
    BY DEF Referred, HeldAt
  <1>4. Shape'
    BY DEF IInv, Shape, Places
  <1>5. Owned'
    BY DEF IInv, Owned
  <1>6. Roles'
    BY DEF IInv, Roles, Role, Alive
  <1>7. Exclusive'
    BY DEF IInv, Exclusive, Alive
  <1>8. First'
    BY DEF IInv, First, Wrapping
  <1>9. Static'
    BY DEF IInv, Wrapping, Static, Kept, Alive
  <1>10. Membership'
    BY DEF IInv, Membership, Linked, HeldAt
  <1>11. Counting'
    BY DEF IInv, Counting
  <1>12. Listing'
    <2>1. ~Contains(threadList, th[a])
      BY <1>1 DEF IInv, Listing
    <2>. QED
      BY <2>1, <1>1, <1>2, FrontAdds DEF IInv, Listing
  <1>13. Refs'
    BY <1>3 DEF IInv, Refs
  <1>14. Stopped'
    BY LivesOn DEF IInv, Roles, Role, Alive, Stopped
  <1>. QED
    BY <1>4, <1>5, <1>6, <1>7, <1>8, <1>9, <1>10, <1>11, <1>12, <1>13, <1>14 DEF IInv

LEMMA ScheduleStep ==
  ASSUME IInv, NEW a \in Actors, Schedule(a)
  PROVE  IInv'
  <1>. USE DEF Schedule, global, inGroup, inThread, local, main
  <1>1. \A u \in Threads : Listed(u)' <=> Listed(u)
    BY DEF IInv, Shape, Listed, HeldAt
  <1>2. \A u \in Threads : Referred(u)' <=> Referred(u)
    BY DEF IInv, Shape, Referred, HeldAt
  <1>3. Shape'
    BY DEF IInv, Shape, Places, Stages
  <1>4. Owned'
    BY DEF IInv, Shape, Owned
  <1>5. Roles'
    BY DEF IInv, Shape, Roles, Role, Exclusive, Alive
  <1>6. Exclusive'
    BY DEF IInv, Shape, Exclusive, Alive
  <1>7. First'
    BY DEF IInv, Shape, Roles, Role, First, Wrapping
  <1>8. Static'
    BY DEF IInv, Shape, Roles, Role, Wrapping, Static, Kept, Alive
  <1>9. Membership'
    BY DEF IInv, Shape, Membership, Linked, HeldAt
  <1>10. Counting'
    BY DEF IInv, Counting
  <1>11. Listing'
    BY <1>1 DEF IInv, Listing
  <1>12. Refs'
    BY <1>2 DEF IInv, Shape, Refs
  <1>13. Stopped'
    BY DEF IInv, Shape, Stopped
  <1>. QED
    BY <1>3, <1>4, <1>5, <1>6, <1>7, <1>8, <1>9, <1>10, <1>11, <1>12, <1>13 DEF IInv

LEMMA CreateThreadStep ==
  ASSUME IInv, NEW a \in Actors, CreateThread(a)
  PROVE  IInv'
  <1>. USE DEF CreateThread, global, inGroup, inThread, local, main
  <1>1. \A u \in Threads : Listed(u)' <=> Listed(u)
    BY DEF IInv, Shape, Roles, Role, Listed, HeldAt
  <1>2. \A u \in Threads : Referred(u)' <=> Referred(u)
    BY DEF IInv, Roles, Role, Referred, HeldAt
  <1>3. Shape'
    BY DEF IInv, Shape, Roles, Role, Places, Stages
  <1>4. Owned'
    BY DEF IInv, Owned
  <1>5. Roles'
    BY DEF IInv, Shape, Roles, Role, Exclusive, Alive
  <1>6. Exclusive'
    BY DEF IInv, Exclusive, Alive
  <1>7. First'
    BY DEF IInv, Shape, First, Wrapping
  <1>8. Static'
    BY DEF IInv, Roles, Role, Wrapping, Static, Kept, Alive
  <1>9. Membership'
    BY DEF IInv, Shape, Roles, Role, Membership, Linked, HeldAt
  <1>10. Counting'
    BY DEF IInv, Counting
  <1>11. Listing'
    BY <1>1 DEF IInv, Listing
  <1>12. Refs'
    BY <1>2 DEF IInv, Refs
  <1>13. Stopped'
    BY DEF IInv, Stopped
  <1>. QED
    BY <1>3, <1>4, <1>5, <1>6, <1>7, <1>8, <1>9, <1>10, <1>11, <1>12, <1>13 DEF IInv

LEMMA AbandonStep ==
  ASSUME IInv, NEW a \in Actors, Abandon(a)
  PROVE  IInv'
  <1>. USE DEF Abandon, global, inGroup, inThread, local, main
  <1>1. \A u \in Threads : Listed(u)' <=> Listed(u)
    BY DEF IInv, Shape, Roles, Role, Listed, HeldAt
  <1>2. \A u \in Threads : Referred(u)' <=> Referred(u)
    BY DEF IInv, Roles, Role, Referred, HeldAt
  <1>3. Shape'
    BY DEF IInv, Shape, Roles, Role, Places, Stages
  <1>4. Owned'
    BY DEF IInv, Owned
  <1>5. Roles'
    BY DEF IInv, Shape, Roles, Role, Exclusive, Alive
  <1>6. Exclusive'
    BY DEF IInv, Exclusive, Alive
  <1>7. First'
    BY DEF IInv, Shape, First, Wrapping
  <1>8. Static'
    BY DEF IInv, Roles, Role, Wrapping, Static, Kept, Alive
  <1>9. Membership'
    BY DEF IInv, Shape, Roles, Role, Membership, Linked, HeldAt
  <1>10. Counting'
    BY DEF IInv, Counting
  <1>11. Listing'
    BY <1>1 DEF IInv, Listing
  <1>12. Refs'
    BY <1>2 DEF IInv, Refs
  <1>13. Stopped'
    BY DEF IInv, Stopped
  <1>. QED
    BY <1>3, <1>4, <1>5, <1>6, <1>7, <1>8, <1>9, <1>10, <1>11, <1>12, <1>13 DEF IInv

LEMMA EndStep ==
  ASSUME IInv, NEW a \in Actors, End(a)
  PROVE  IInv'
  <1>. USE DEF End, global, inGroup, inThread, local, main
  <1>1. \A u \in Threads : Listed(u)' <=> Listed(u)
    BY DEF IInv, Shape, Roles, Role, Alive, Listed, HeldAt
  <1>2. \A u \in Threads : Referred(u)' <=> Referred(u)
    BY DEF IInv, Shape, Roles, Role, Alive, Referred, HeldAt
  <1>3. Shape'
    <2>1. runs[a] \in Threads /\ stage[runs[a]] = "running"
      BY DEF IInv, Shape, Roles, Role, Alive
    <2>. QED
      BY <2>1 DEF IInv, Shape, Places, Stages
  <1>4. Owned'
    BY DEF IInv, Owned
  <1>5. Roles'
    BY DEF IInv, Shape, Owned, Roles, Role, Exclusive, Alive, Membership, Linked
  <1>6. Exclusive'
    BY DEF IInv, Roles, Role, Exclusive, Alive
  <1>7. First'
    BY DEF IInv, First, Wrapping
  <1>8. Static'
    BY DEF IInv, Shape, Owned, Roles, Role, First, Static, Kept, Alive, Membership, Linked
  <1>9. Membership'
    BY DEF IInv, Shape, Roles, Role, Alive, Membership, Linked, HeldAt
  <1>10. Counting'
    BY DEF IInv, Counting
  <1>11. Listing'
    BY <1>1 DEF IInv, Listing
  <1>12. Refs'
    BY <1>2 DEF IInv, Refs
  <1>13. Stopped'
    BY DEF IInv, Stopped
  <1>. QED
    BY <1>3, <1>4, <1>5, <1>6, <1>7, <1>8, <1>9, <1>10, <1>11, <1>12, <1>13 DEF IInv

LEMMA UnlistStep ==
  ASSUME IInv, NEW a \in Actors, Unlist(a)
  PROVE  IInv'
  <1>. USE DEF Unlist, global, inGroup, inThread, local, main
  <1>1. \A u \in Threads : Listed(u)' <=> Listed(u)
    BY DEF Listed, HeldAt
  <1>2. \A u \in Threads : Referred(u)' <=> Referred(u)
    BY DEF Referred, HeldAt
  <1>3. Shape'
    BY DEF IInv, Shape, Places
  <1>4. Owned'
    BY DEF IInv, Owned
  <1>5. Roles'
    BY DEF IInv, Roles, Role, Alive
  <1>6. Exclusive'
    BY DEF IInv, Exclusive, Alive
  <1>7. First'
    BY DEF IInv, First, Wrapping
  <1>8. Static'
    BY DEF IInv, Shape, First, Static, Kept, Alive
  <1>9. Membership'
    BY DEF IInv, Shape, Roles, Role, Exclusive, Membership, Linked, HeldAt
  <1>10. Counting'
    <2>1. th[a] \in members[gr[a]] /\ gr[a] \in groups
      BY DEF IInv, Shape, Roles, Role, Membership, Linked, HeldAt
    <2>. QED
      BY <2>1, Counted DEF IInv, Membership, Counting
  <1>11. Listing'
    BY <1>1 DEF IInv, Listing
  <1>12. Refs'
    BY <1>2 DEF IInv, Refs
  <1>13. Stopped'
    BY DEF IInv, Stopped
  <1>. QED
    BY <1>3, <1>4, <1>5, <1>6, <1>7, <1>8, <1>9, <1>10, <1>11, <1>12, <1>13 DEF IInv

LEMMA UnlinkStep ==
  ASSUME IInv, NEW a \in Actors, Unlink(a)
  PROVE  IInv'
  <1>. USE DEF Unlink, global, inGroup, inThread, local, main
  <1>1. th[a] \in Threads /\ Listed(th[a]) /\ gr[a] \in Groups
    BY DEF IInv, Shape, Roles, Role, Listed, HeldAt
  <1>2. \A u \in Threads : Listed(u)' <=> u # th[a] /\ Listed(u)
    BY DEF IInv, Shape, Roles, Role, Exclusive, Listed, HeldAt
  <1>3. \A u \in Threads : Referred(u)' <=> Referred(u)
    BY DEF Referred, HeldAt
  <1>4. gr[a] = staticGroup /\ count[gr[a]] = 0 => gr[a] \in groups /\ members[gr[a]] = {}
    BY <1>1, Counted DEF IInv, Owned
  <1>5. Shape'
    BY <1>1 DEF IInv, Shape, Places
  <1>6. Owned'
    BY DEF IInv, Shape, Owned, Roles, Role
  <1>7. Roles'
    <2>1. CASE gr[a] = staticGroup /\ count[gr[a]] = 0
      <3>1. \A b \in Actors : pc[b] \in {"take", "wrap"} \cup InStart => gr[b] # staticGroup
        <4>1. ~Wrapping
          BY DEF IInv, Roles, Role, First
        <4>2. \A u \in Threads : Linked(u) => group[u] # staticGroup
          BY <2>1, <1>4 DEF IInv, Membership
        <4>3. \A b \in Actors : Alive(b) => group[runs[b]] # staticGroup
          BY <4>2 DEF IInv, Shape, Roles, Role, Alive, Linked
        <4>4. \A b \in Actors : pc[b] \in {"take", "link"} => gr[b] # staticGroup
          BY <2>1, <4>1, <4>3, <1>4 DEF IInv, Owned, Static, Kept
        <4>5. \A b \in Actors : pc[b] \in {"list", "schedule", "create"} => gr[b] # staticGroup
          BY <4>2 DEF IInv, Shape, Roles, Role, Linked, HeldAt
        <4>. QED
          BY <4>1, <4>4, <4>5 DEF IInv, Roles, Role, Wrapping
      <3>. QED
        BY <2>1, <3>1 DEF IInv, Roles, Role, Alive
    <2>2. CASE ~(gr[a] = staticGroup /\ count[gr[a]] = 0)
      BY <2>2 DEF IInv, Roles, Role, Alive
    <2>. QED
      BY <2>1, <2>2
  <1>8. Exclusive'
    BY DEF IInv, Exclusive, Alive
  <1>9. First'
    BY DEF IInv, First, Wrapping
  <1>10. Static'
    <2>1. CASE gr[a] = staticGroup /\ count[gr[a]] = 0
      BY <2>1, <1>4 DEF IInv, Shape, Owned, Roles, Role, First, Static, Kept, Alive,
         Membership, Linked
    <2>2. CASE ~(gr[a] = staticGroup /\ count[gr[a]] = 0)
      <3>1. ~Wrapping /\ staticGroup # Null /\ gr[a] = staticGroup => members[staticGroup] # {}
        BY <2>2, Counted DEF IInv, Owned
      <3>. QED
        BY <2>2, <3>1 DEF IInv, Roles, Role, First, Static, Kept, Alive
    <2>. QED
      BY <2>1, <2>2
  <1>11. Membership'
    <2>1. \A u \in Threads : Linked(u)' <=> Linked(u)
      BY DEF Linked, HeldAt
    <2>2. groups' \subseteq groups
      OBVIOUS
    <2>3. \A u \in Threads : Linked(u) => group[u] \in groups'
      BY <1>4 DEF IInv, Membership
    <2>. QED
      BY <2>1, <2>2, <2>3 DEF IInv, Membership
  <1>12. Counting'
    BY DEF IInv, Counting
  <1>13. Listing'
    <2>1. Contains(threadList, th[a])
      BY <1>1 DEF IInv, Listing
    <2>. QED
      BY <2>1, <1>2, WithoutRemoves DEF IInv, Listing
  <1>14. Refs'
    BY <1>3 DEF IInv, Refs
  <1>15. Stopped'
    <2>1. threadList # <<>>
      BY <1>1 DEF IInv, Listing, Contains
    <2>. QED
      BY <2>1 DEF IInv, Stopped
  <1>. QED
    BY <1>5, <1>6, <1>7, <1>8, <1>9, <1>10, <1>11, <1>12, <1>13, <1>14, <1>15 DEF IInv

LEMMA CleanStep ==
  ASSUME IInv, NEW a \in Actors, Clean(a)
  PROVE  IInv'
  <1>. USE DEF Clean, global, inGroup, inThread, local, main
  <1>1. \A u \in Threads : Listed(u)' <=> Listed(u)
    BY DEF Listed, HeldAt
  <1>2. \A u \in Threads : Referred(u)' <=> Referred(u)
    BY DEF Referred, HeldAt
  <1>3. Shape'
    BY DEF IInv, Shape, Places
  <1>4. Owned'
    BY DEF IInv, Shape, Owned, Static
  <1>5. Roles'
    BY DEF IInv, Roles, Role, Alive
  <1>6. Exclusive'
    BY DEF IInv, Exclusive, Alive
  <1>7. First'
    BY DEF IInv, First, Wrapping
  <1>8. Static'
    BY DEF IInv, First, Static, Kept, Alive
  <1>9. Membership'
    BY DEF IInv, Membership, Linked, HeldAt
  <1>10. Counting'
    BY DEF IInv, Counting
  <1>11. Listing'
    BY <1>1 DEF IInv, Listing
  <1>12. Refs'
    BY <1>2 DEF IInv, Refs
  <1>13. Stopped'
    BY DEF IInv, Stopped
  <1>. QED
    BY <1>3, <1>4, <1>5, <1>6, <1>7, <1>8, <1>9, <1>10, <1>11, <1>12, <1>13 DEF IInv

LEMMA ReleaseStep ==
  ASSUME IInv, NEW a \in Actors, Release(a)
  PROVE  IInv'
  <1>. USE DEF Release, global, inGroup, inThread, local, main
  <1>1. \A u \in Threads : Listed(u)' <=> Listed(u)
    BY DEF IInv, Shape, Listed, HeldAt
  <1>2. PICK t \in Threads : t = th[a] /\ Referred(t) /\ stage[t] = "ended"
    BY DEF IInv, Shape, Roles, Role, Referred, HeldAt
  <1>3. \A u \in Threads \ {t} : Referred(u)' <=> Referred(u)
    BY <1>2 DEF IInv, Shape, Referred, HeldAt
  <1>4. ~shutdown => consumers[t] >= 1 /\ ~Referred(t)'
    BY <1>2 DEF IInv, Shape, Exclusive, Refs, Referred, HeldAt
  <1>5. Shape'
    BY DEF IInv, Shape, Places
  <1>6. Owned'
    BY DEF IInv, Shape, Owned
  <1>7. Roles'
    BY DEF IInv, Shape, Roles, Role, Alive
  <1>8. Exclusive'
    BY DEF IInv, Shape, Exclusive, Alive
  <1>9. First'
    BY DEF IInv, Shape, First, Wrapping
  <1>10. Static'
    BY DEF IInv, Shape, Roles, Role, First, Static, Kept, Alive
  <1>11. Membership'
    BY DEF IInv, Shape, Membership, Linked, HeldAt
  <1>12. Counting'
    BY DEF IInv, Counting
  <1>13. Listing'
    BY <1>1 DEF IInv, Listing
  <1>14. Refs'
    <2>1. CASE shutdown
      BY <2>1, <1>2 DEF IInv, Shape, Refs
    <2>2. CASE ~shutdown
      BY <2>2, <1>2, <1>3, <1>4 DEF IInv, Shape, Roles, Role, Refs
    <2>. QED
      BY <2>1, <2>2
  <1>15. Stopped'
    BY DEF IInv, Shape, Stopped
  <1>. QED
    BY <1>5, <1>6, <1>7, <1>8, <1>9, <1>10, <1>11, <1>12, <1>13, <1>14, <1>15 DEF IInv

LEMMA CacheStep ==
  ASSUME IInv, NEW a \in Actors, Cache(a)
  PROVE  IInv'
  <1>. USE DEF Cache, global, inGroup, inThread, local, main
  <1>1. \A u \in Threads : Listed(u)' <=> Listed(u)
    BY DEF IInv, Roles, Role, Exclusive, Listed, HeldAt
  <1>2. \A u \in Threads : Referred(u)' <=> Referred(u)
    BY DEF IInv, Roles, Role, Referred, HeldAt
  <1>3. Shape'
    BY DEF IInv, Shape, Roles, Role, Places, Stages
  <1>4. Owned'
    BY DEF IInv, Owned
  <1>5. Roles'
    BY DEF IInv, Shape, Roles, Role, Exclusive, Alive
  <1>6. Exclusive'
    BY DEF IInv, Exclusive, Alive
  <1>7. First'
    BY DEF IInv, First, Wrapping
  <1>8. Static'
    BY DEF IInv, Roles, Role, Wrapping, Static, Kept, Alive
  <1>9. Membership'
    BY DEF IInv, Roles, Role, Exclusive, Membership, Linked, HeldAt
  <1>10. Counting'
    BY DEF IInv, Counting
  <1>11. Listing'
    BY <1>1 DEF IInv, Listing
  <1>12. Refs'
    BY <1>2 DEF IInv, Shape, Refs
  <1>13. Stopped'
    BY DEF IInv, Stopped
  <1>. QED
    BY <1>3, <1>4, <1>5, <1>6, <1>7, <1>8, <1>9, <1>10, <1>11, <1>12, <1>13 DEF IInv

LEMMA RestStep ==
  ASSUME IInv, NEW a \in Actors, Rest(a)
  PROVE  IInv'
  <1>. USE DEF Rest, global, inGroup, inThread, local, main
  <1>1. \A u \in Threads : Listed(u)' <=> Listed(u)
    BY DEF Listed, HeldAt
  <1>2. \A u \in Threads : Referred(u)' <=> Referred(u)
    BY DEF Referred, HeldAt
  <1>3. Shape'
    BY DEF IInv, Shape, Places
  <1>4. Owned'
    BY DEF IInv, Owned
  <1>5. Roles'
    BY DEF IInv, Shape, Roles, Role, Alive
  <1>6. Exclusive'
    BY DEF IInv, Shape, Exclusive, Alive
  <1>7. First'
    BY DEF IInv, First, Wrapping
  <1>8. Static'
    BY DEF IInv, Roles, Role, First, Static, Kept, Alive
  <1>9. Membership'
    BY DEF IInv, Membership, Linked, HeldAt
  <1>10. Counting'
    BY DEF IInv, Counting
  <1>11. Listing'
    BY <1>1 DEF IInv, Listing
  <1>12. Refs'
    BY <1>2 DEF IInv, Refs
  <1>13. Stopped'
    BY DEF IInv, Stopped
  <1>. QED
    BY <1>3, <1>4, <1>5, <1>6, <1>7, <1>8, <1>9, <1>10, <1>11, <1>12, <1>13 DEF IInv

LEMMA BeginStep ==
  ASSUME IInv, NEW w \in Workers, NEW t \in Threads, Begin(w, t)
  PROVE  IInv'
  <1>. USE DEF Begin, global, inGroup, inThread, local, main
  <1>1. \A u \in Threads : Listed(u)' <=> Listed(u)
    BY DEF Listed, HeldAt
  <1>2. \A u \in Threads : Referred(u)' <=> Referred(u)
    BY DEF Referred, HeldAt
  <1>3. Shape'
    BY DEF IInv, Shape, Stages
  <1>4. Owned'
    BY DEF IInv, Owned
  <1>5. Roles'
    BY DEF IInv, Shape, Roles, Role, Alive
  <1>6. Exclusive'
    BY DEF IInv, Roles, Role, Exclusive, Alive
  <1>7. First'
    BY DEF IInv, First, Wrapping
  <1>8. Static'
    BY DEF IInv, Roles, Role, First, Static, Kept, Alive
  <1>9. Membership'
    BY DEF IInv, Membership, Linked, HeldAt
  <1>10. Counting'
    BY DEF IInv, Counting
  <1>11. Listing'
    BY <1>1 DEF IInv, Listing
  <1>12. Refs'
    BY <1>2 DEF IInv, Refs
  <1>13. Stopped'
    BY DEF IInv, Stopped
  <1>. QED
    BY <1>3, <1>4, <1>5, <1>6, <1>7, <1>8, <1>9, <1>10, <1>11, <1>12, <1>13 DEF IInv

LEMMA GroupCreateStep ==
  ASSUME IInv, GroupCreate
  PROVE  IInv'
  <1>. USE DEF GroupCreate, Create, global, inGroup, inThread, local, main
  <1>1. \A u \in Threads : Listed(u)' <=> Listed(u)
    BY DEF Listed, HeldAt
  <1>2. \A u \in Threads : Referred(u)' <=> Referred(u)
    BY DEF Referred, HeldAt
  <1>3. Shape'
    BY DEF IInv, Shape
  <1>4. Owned'
    BY DEF IInv, Owned
  <1>5. Roles'
    BY DEF IInv, Roles, Role, Alive
  <1>6. Exclusive'
    BY DEF IInv, Exclusive, Alive
  <1>7. First'
    BY DEF First, Wrapping
  <1>8. Static'
    BY DEF IInv, Owned, Wrapping, Static, Kept, Alive
  <1>9. Membership'
    BY DEF IInv, Owned, Membership, Linked, HeldAt
  <1>10. Counting'
    BY FS_EmptySet DEF IInv, Membership, Counting
  <1>11. Listing'
    BY <1>1 DEF IInv, Listing
  <1>12. Refs'
    BY <1>2 DEF IInv, Refs
  <1>13. Stopped'
    BY DEF Stopped
  <1>. QED
    BY <1>3, <1>4, <1>5, <1>6, <1>7, <1>8, <1>9, <1>10, <1>11, <1>12, <1>13 DEF IInv

LEMMA WrapStaticStep ==
  ASSUME IInv, WrapStatic
  PROVE  IInv'
  <1>. USE DEF WrapStatic, UseStatic, Create, global, inGroup, inThread, local, main
  <1>1. staticGroup = Null
    BY DEF IInv, First, Wrapping
  <1>2. PICK g \in Groups : /\ g \notin allocated /\ allocated' = allocated \cup {g}
                       /\ groups' = groups \cup {g} /\ staticGroup' = g
                       /\ running' = [running EXCEPT ![g] = TRUE]
                       /\ stackSize' = [stackSize EXCEPT ![g] = FALSE]
                       /\ members' = [members EXCEPT ![g] = {}]
                       /\ count' = [count EXCEPT ![g] = 0]
                       /\ gr' = [gr EXCEPT ![Main] = g]
    BY <1>1
  <1>3. \A u \in Threads : Listed(u)' <=> Listed(u)
    BY DEF Listed, HeldAt
  <1>4. \A u \in Threads : Referred(u)' <=> Referred(u)
    BY DEF Referred, HeldAt
  <1>5. Shape'
    BY <1>2 DEF IInv, Shape, Places
  <1>6. Owned'
    BY DEF IInv, Shape, Owned
  <1>7. Roles'
    BY DEF IInv, Shape, Owned, Roles, Role, Alive
  <1>8. Exclusive'
    BY DEF IInv, Exclusive, Alive
  <1>9. First'
    BY DEF IInv, Shape, First, Wrapping
  <1>10. Static'
    BY DEF IInv, First, Wrapping, Static, Alive
  <1>11. Membership'
    BY DEF IInv, Shape, Owned, Membership, Linked, HeldAt
  <1>12. Counting'
    <2>1. groups' = {g} /\ g \in Groups
      BY <1>1, <1>2 DEF IInv, Owned, First, Wrapping
    <2>2. count' \in [Groups -> Nat] /\ members'[g] = {} /\ count'[g] = 0
      BY <1>2 DEF IInv, Membership, Counting
    <2>. QED
      BY <2>1, <2>2, FS_EmptySet DEF Counting
  <1>13. Listing'
    BY <1>3 DEF IInv, Listing
  <1>14. Refs'
    BY <1>4 DEF IInv, Refs
  <1>15. Stopped'
    BY DEF IInv, Stopped
  <1>. QED
    BY <1>5, <1>6, <1>7, <1>8, <1>9, <1>10, <1>11, <1>12, <1>13, <1>14, <1>15 DEF IInv

LEMMA TakeWrapStep ==
  ASSUME IInv, TakeWrap
  PROVE  IInv'
  <1>. USE DEF TakeWrap, global, inGroup, inThread, local, main
  <1>1. ~shutdown
    BY DEF IInv, First, Wrapping
  <1>2. PICK t \in Threads : /\ stage[t] = "none"
                         /\ consumers' = [consumers EXCEPT ![t] = 1]
                         /\ th' = [th EXCEPT ![Main] = t]
                         /\ stage' = [stage EXCEPT ![t] = "wrapping"]
    OBVIOUS
  <1>3. \A u \in Threads : Listed(u)' <=> Listed(u)
    BY DEF IInv, Roles, Role, Listed, HeldAt
  <1>4. \A u \in Threads : Referred(u)' <=> u = t \/ Referred(u)
    BY <1>2 DEF IInv, Shape, Referred, HeldAt
  <1>5. ~Referred(t) /\ t \notin handles
    BY <1>2 DEF IInv, Roles, Role, Refs, Referred, HeldAt
  <1>6. Shape'
    BY DEF IInv, Shape, Places, Stages
  <1>7. Owned'
    BY DEF IInv, Owned
  <1>8. Roles'
    BY DEF IInv, Shape, Roles, Role, Alive
  <1>9. Exclusive'
    BY DEF IInv, Roles, Role, Exclusive, Alive
  <1>10. First'
    BY DEF IInv, Shape, First, Wrapping
  <1>11. Static'
    BY DEF IInv, Shape, Roles, Role, Wrapping, Static, Kept, Alive
  <1>12. Membership'
    BY DEF IInv, Roles, Role, Membership, Linked, HeldAt
  <1>13. Counting'
    BY DEF IInv, Counting
  <1>14. Listing'
    BY <1>3 DEF IInv, Listing
  <1>15. Refs'
    <2>1. consumers' \in [Threads -> Nat]
      BY <1>2 DEF IInv, Refs
    <2>2. \A u \in handles' : stage'[u] \notin {"none", "cached"}
      BY <1>2 DEF IInv, Refs
    <2>3. \A b \in Actors : pc'[b] = "cache" => th'[b] \notin handles' /\ consumers'[th'[b]] = 0
      BY <1>2 DEF IInv, Roles, Role, Refs
    <2>4. \A u \in Threads :
            consumers'[u] = (IF u \in handles' THEN 1 ELSE 0) + (IF Referred(u)' THEN 1 ELSE 0)
      BY <1>1, <1>2, <1>4, <1>5 DEF IInv, Refs
    <2>. QED
      BY <2>1, <2>2, <2>3, <2>4 DEF Refs
  <1>16. Stopped'
    BY DEF IInv, Stopped
  <1>. QED
    BY <1>6, <1>7, <1>8, <1>9, <1>10, <1>11, <1>12, <1>13, <1>14, <1>15, <1>16 DEF IInv

LEMMA WrapDoneStep ==
  ASSUME IInv, WrapDone
  PROVE  IInv'
  <1>. USE DEF WrapDone, global, inGroup, inThread, local, main
  <1>1. \A u \in Threads : Listed(u)' <=> Listed(u)
    BY DEF IInv, Shape, Listed, HeldAt
  <1>2. \A u \in Threads : Referred(u)' <=> Referred(u)
    BY DEF Referred, HeldAt
  <1>3. Shape'
    BY DEF IInv, Shape, Roles, Role, Places, Stages
  <1>4. Owned'
    BY DEF IInv, Owned
  <1>5. Roles'
    BY DEF IInv, Shape, Roles, Role, Exclusive, Alive
  <1>6. Exclusive'
    BY DEF IInv, Roles, Role, Exclusive, Alive
  <1>7. First'
    BY DEF IInv, Shape, First, Wrapping
  <1>8. Static'
    BY DEF IInv, Shape, Owned, Roles, Role, First, Wrapping, Static, Membership, Linked, HeldAt
  <1>9. Membership'
    BY DEF IInv, Shape, Membership, Linked, HeldAt
  <1>10. Counting'
    BY DEF IInv, Counting
  <1>11. Listing'
    BY <1>1 DEF IInv, Listing
  <1>12. Refs'
    BY <1>2 DEF IInv, Refs
  <1>13. Stopped'
    BY DEF IInv, Stopped
  <1>. QED
    BY <1>3, <1>4, <1>5, <1>6, <1>7, <1>8, <1>9, <1>10, <1>11, <1>12, <1>13 DEF IInv

LEMMA FreeHandleStep ==
  ASSUME IInv, FreeHandle
  PROVE  IInv'
  <1>. USE DEF FreeHandle, global, inGroup, inThread, local, main
  <1>1. PICK t \in handles :
         /\ handles' = handles \ {t}
         /\ consumers' = [consumers EXCEPT ![t] = consumers[t] - 1]
         /\ IF consumers[t] = 1
            THEN pc' = [pc EXCEPT ![Main] = "cache"] /\ th' = [th EXCEPT ![Main] = t]
            ELSE UNCHANGED <<pc, th>>
    OBVIOUS
  <1>2. consumers[t] = 1 => stage[t] = "ended" /\ ~Referred(t) /\ \A b \in Actors : th[b] # t
    BY DEF IInv, Shape, Stages, Roles, Role, Refs, Referred, HeldAt
  <1>3. \A u \in Threads : Listed(u)' <=> Listed(u)
    BY <1>1, <1>2 DEF IInv, Shape, Listed, HeldAt
  <1>4. \A u \in Threads : Linked(u)' <=> Linked(u)
    BY <1>1, <1>2 DEF IInv, Shape, Linked, HeldAt
  <1>5. \A u \in Threads : Referred(u)' <=> Referred(u)
    BY <1>1, <1>2 DEF IInv, Shape, Referred, HeldAt
  <1>6. Shape'
    BY DEF IInv, Shape, Places
  <1>7. Owned'
    BY DEF IInv, Shape, Owned
  <1>8. Roles'
    BY <1>1, <1>2 DEF IInv, Shape, Roles, Role, Alive
  <1>9. Exclusive'
    BY <1>1, <1>2 DEF IInv, Shape, Exclusive, Alive
  <1>10. First'
    BY DEF IInv, Shape, First, Wrapping
  <1>11. Static'
    BY DEF IInv, Shape, First, Static, Kept, Alive
  <1>12. Membership'
    BY <1>1, <1>4 DEF IInv, Shape, Membership
  <1>13. Counting'
    BY DEF IInv, Counting
  <1>14. Listing'
    BY <1>3 DEF IInv, Listing
  <1>15. Refs'
    BY <1>1, <1>2, <1>5 DEF IInv, Shape, Refs
  <1>16. Stopped'
    BY DEF Stopped
  <1>. QED
    BY <1>6, <1>7, <1>8, <1>9, <1>10, <1>11, <1>12, <1>13, <1>14, <1>15, <1>16 DEF IInv

LEMMA DestroyStep ==
  ASSUME IInv, Destroy
  PROVE  IInv'
  <1>. USE DEF Destroy, global, inGroup, inThread, local, main
  <1>1. \A u \in Threads : Listed(u)' <=> Listed(u)
    BY DEF Listed, HeldAt
  <1>2. \A u \in Threads : Referred(u)' <=> Referred(u)
    BY DEF Referred, HeldAt
  <1>3. Shape'
    BY DEF IInv, Shape, Places
  <1>4. Owned'
    BY DEF IInv, Owned
  <1>5. Roles'
    BY DEF IInv, Roles, Role, Alive
  <1>6. Exclusive'
    BY DEF IInv, Exclusive, Alive
  <1>7. First'
    BY DEF First, Wrapping
  <1>8. Static'
    BY DEF IInv, First, Static, Kept, Alive
  <1>9. Membership'
    BY DEF IInv, Membership, Linked, HeldAt
  <1>10. Counting'
    BY DEF IInv, Counting
  <1>11. Listing'
    BY <1>1 DEF IInv, Listing
  <1>12. Refs'
    BY <1>2 DEF IInv, Refs
  <1>13. Stopped'
    BY DEF Stopped
  <1>. QED
    BY <1>3, <1>4, <1>5, <1>6, <1>7, <1>8, <1>9, <1>10, <1>11, <1>12, <1>13 DEF IInv

LEMMA PollStep ==
  ASSUME IInv, Poll
  PROVE  IInv'
  <1>. USE DEF Poll, global, inGroup, inThread, local, main
  <1>1. \A u \in Threads : Listed(u)' <=> Listed(u)
    BY DEF Listed, HeldAt
  <1>2. \A u \in Threads : Referred(u)' <=> Referred(u)
    BY DEF Referred, HeldAt
  <1>3. Shape'
    BY DEF IInv, Shape, Places
  <1>4. Owned'
    BY DEF IInv, Owned
  <1>5. Roles'
    BY DEF IInv, Roles, Role, Alive
  <1>6. Exclusive'
    BY DEF IInv, Exclusive, Alive
  <1>7. First'
    BY DEF First, Wrapping
  <1>8. Static'
    BY DEF IInv, Roles, Role, First, Static, Kept, Alive
  <1>9. Membership'
    <2>1. own \in groups /\ members[own] = {}
      BY Counted DEF IInv, Owned, Roles, Role
    <2>2. \A u \in Threads : Linked(u)' <=> Linked(u)
      BY DEF Linked, HeldAt
    <2>. QED
      BY <2>1, <2>2 DEF IInv, Membership
  <1>10. Counting'
    BY DEF IInv, Counting
  <1>11. Listing'
    BY <1>1 DEF IInv, Listing
  <1>12. Refs'
    BY <1>2 DEF IInv, Refs
  <1>13. Stopped'
    BY DEF IInv, Stopped
  <1>. QED
    BY <1>3, <1>4, <1>5, <1>6, <1>7, <1>8, <1>9, <1>10, <1>11, <1>12, <1>13 DEF IInv

LEMMA DeleteStep ==
  ASSUME IInv, Delete
  PROVE  IInv'
  <1>. USE DEF Delete, global, inGroup, inThread, local, main
  <1>1. \A u \in Threads : Listed(u)' <=> Listed(u)
    BY DEF Listed, HeldAt
  <1>2. \A u \in Threads : Referred(u)' <=> Referred(u)
    BY DEF Referred, HeldAt
  <1>3. Shape'
    BY DEF IInv, Shape, Roles, Role, Places
  <1>4. Owned'
    BY DEF IInv, Owned, Static
  <1>5. Roles'
    <2>1. \A b \in Actors : pc[b] \in {"take", "wrap"} \cup InStart => gr[b] # own
      BY DEF IInv, Shape, Roles, Role, Wrapping, Static, Kept, Alive, Membership, Linked,
         HeldAt
    <2>. QED
      BY <2>1 DEF IInv, Shape, Roles, Role, Alive
  <1>6. Exclusive'
    BY DEF IInv, Exclusive, Alive
  <1>7. First'
    BY DEF First, Wrapping
  <1>8. Static'
    BY DEF IInv, Roles, Role, First, Static, Kept, Alive
  <1>9. Membership'
    BY DEF IInv, Shape, Membership, Linked, HeldAt
  <1>10. Counting'
    BY DEF IInv, Counting
  <1>11. Listing'
    BY <1>1 DEF IInv, Listing
  <1>12. Refs'
    BY <1>2 DEF IInv, Refs
  <1>13. Stopped'
    BY DEF IInv, Stopped
  <1>. QED
    BY <1>3, <1>4, <1>5, <1>6, <1>7, <1>8, <1>9, <1>10, <1>11, <1>12, <1>13 DEF IInv

LEMMA ShutdownStep ==
  ASSUME IInv, Shutdown
  PROVE  IInv'
  <1>. USE DEF Shutdown, global, inGroup, inThread, local, main
  <1>1. \A u \in Threads : Listed(u)' <=> Listed(u)
    BY DEF Listed, HeldAt
  <1>2. \A u \in Threads : Referred(u)' <=> Referred(u)
    BY DEF Referred, HeldAt
  <1>3. Shape'
    BY DEF IInv, Shape, Places
  <1>4. Owned'
    BY DEF IInv, Owned
  <1>5. Roles'
    BY DEF IInv, Roles, Role, Alive
  <1>6. Exclusive'
    BY DEF IInv, Exclusive, Alive
  <1>7. First'
    BY DEF First, Wrapping
  <1>8. Static'
    BY DEF IInv, Wrapping, Static, Kept, Alive
  <1>9. Membership'
    BY DEF IInv, Membership, Linked, HeldAt
  <1>10. Counting'
    BY DEF IInv, Counting
  <1>11. Listing'
    BY <1>1 DEF IInv, Listing
  <1>12. Refs'
    BY <1>2 DEF IInv, Refs
  <1>13. Stopped'
    <2>1. threadList = <<>>
      <3>1. threadList \in Seq(Threads) /\ Len(threadList) = 0
        BY DEF IInv, Listing
      <3>. QED
        BY <3>1
    <2>2. \A u \in Threads : ~Listed(u)
      BY <2>1 DEF IInv, Listing, Contains
    <2>3. \A b \in Actors : ~Alive(b)
      BY <2>1, LivesOn
    <2>4. \A b \in Actors : pc[b] \notin InStart \cup {"unlink"}
      BY <2>2, <2>3 DEF IInv, Shape, Roles, Role, Alive, Listed, HeldAt
    <2>5. \A u \in Threads : ~Linked(u)
      BY <2>2, <2>4 DEF Linked, Listed, HeldAt
    <2>6. staticGroup = Null
      BY <2>4, <2>5 DEF IInv, Shape, Owned, Static, Membership, Wrapping
    <2>. QED
      BY <2>1, <2>6 DEF IInv, Shape, Stopped
  <1>. QED
    BY <1>3, <1>4, <1>5, <1>6, <1>7, <1>8, <1>9, <1>10, <1>11, <1>12, <1>13 DEF IInv

LEMMA EmptyStep ==
  ASSUME IInv, Empty
  PROVE  IInv'
  <1>. USE DEF Empty, global, inGroup, inThread, local, main
  <1>1. \A u \in Threads : Listed(u)' <=> Listed(u)
    BY DEF IInv, Shape, Listed, HeldAt
  <1>2. \A u \in Threads : Referred(u)' <=> Referred(u)
    BY DEF IInv, Shape, Referred, HeldAt
  <1>3. Shape'
    BY DEF IInv, Shape, Places, Stages
  <1>4. Owned'
    BY DEF IInv, Owned
  <1>5. Roles'
    BY DEF IInv, Shape, Roles, Role, Alive
  <1>6. Exclusive'
    BY DEF IInv, Exclusive, Alive
  <1>7. First'
    BY DEF First, Wrapping
  <1>8. Static'
    BY DEF IInv, Wrapping, Static, Kept, Alive
  <1>9. Membership'
    BY DEF IInv, Shape, Membership, Linked, HeldAt
  <1>10. Counting'
    BY DEF IInv, Counting
  <1>11. Listing'
    BY <1>1 DEF IInv, Listing
  <1>12. Refs'
    BY <1>2 DEF IInv, Shape, Refs
  <1>13. Stopped'
    BY DEF IInv, Stopped
  <1>. QED
    BY <1>3, <1>4, <1>5, <1>6, <1>7, <1>8, <1>9, <1>10, <1>11, <1>12, <1>13 DEF IInv

-----------------------------------------------------------------------------
LEMMA InitHolds ==
  ASSUME Init, Wrapped
  PROVE  IInv
  <1>. USE DEF Init
  <1>. USE DEF Places, Stages
  <1>1. Shape
    <2>1. pc \in [Actors -> Places] /\ stage \in [Threads -> Stages] /\ starts \in 0 .. MaxStarts
      OBVIOUS
    <2>2. cache = {t \in Threads : stage[t] = "cached"}
      OBVIOUS
    <2>. QED
      BY <2>1, <2>2 DEF Shape
  <1>0. Owned
    BY DEF Owned
  <1>2. Roles /\ Exclusive /\ First
    BY DEF Roles, Role, Alive, Exclusive, First
  <1>3. \A t \in Threads : ~Linked(t) /\ ~Listed(t) /\ ~Referred(t)
    BY DEF Linked, Listed, Referred, HeldAt
  <1>4. Static /\ Membership
    BY <1>3 DEF Static, Alive, Membership
  <1>5. Counting /\ Listing
    BY <1>3 DEF Counting, Listing, Contains, IsInjective
  <1>6. Refs /\ Stopped
    BY <1>3 DEF Refs, Stopped
  <1>. QED
    BY <1>0, <1>1, <1>2, <1>4, <1>5, <1>6 DEF IInv

LEMMA StutterHolds ==
  ASSUME IInv, UNCHANGED vars
  PROVE  IInv'
  <1>. USE DEF vars, global, inGroup, inThread, local, main
  <1>1. Shape' /\ Owned' /\ Roles' /\ Exclusive' /\ First'
    BY DEF IInv, Shape, Owned, Roles, Role, Alive, Exclusive, First, Wrapping
  <1>2. \A t \in Threads : /\ Linked(t)' <=> Linked(t)
                           /\ Listed(t)' <=> Listed(t)
                           /\ Referred(t)' <=> Referred(t)
    BY DEF Linked, Listed, Referred, HeldAt
  <1>3. Static'
    BY DEF IInv, Static, Kept, Alive, Wrapping
  <1>4. Membership' /\ Counting' /\ Listing' /\ Refs' /\ Stopped'
    BY <1>2 DEF IInv, Membership, Counting, Listing, Refs, Stopped
  <1>. QED
    BY <1>1, <1>3, <1>4 DEF IInv

LEMMA NextHolds ==
  ASSUME IInv, [Next]_vars, Wrapped
  PROVE  IInv'
  <1>1. ASSUME NEW a \in Actors, Start(a) \/ Starting(a)
        PROVE  IInv'
    BY <1>1, StartInGroupStep, StartStaticStep, TakeStep, LinkStep, ListStep, ScheduleStep,
       CreateThreadStep DEF Start, Starting
  <1>2. ASSUME NEW a \in Actors, Abandon(a) \/ End(a) \/ Leaving(a)
        PROVE  IInv'
    BY <1>2, AbandonStep, EndStep, UnlistStep, UnlinkStep, CleanStep, ReleaseStep,
       CacheStep, RestStep DEF Leaving
  <1>3. ASSUME NEW w \in Workers, NEW t \in Threads, Begin(w, t)
        PROVE  IInv'
    BY <1>3, BeginStep
  <1>4. CASE ByMain
    BY <1>4, GroupCreateStep, WrapStaticStep, TakeWrapStep, WrapDoneStep, FreeHandleStep,
       DestroyStep, PollStep, DeleteStep, ShutdownStep, EmptyStep DEF ByMain
  <1>5. CASE UNCHANGED vars
    BY <1>5, StutterHolds
  <1>. QED
    BY <1>1, <1>2, <1>3, <1>4, <1>5 DEF Next

LEMMA Invariance ==
  ASSUME Wrapped
  PROVE  Spec => []IInv
  <1>1. Init => IInv
    BY InitHolds
  <1>2. IInv /\ [Next]_vars => IInv'
    BY NextHolds
  <1>. QED
    BY <1>1, <1>2, PTL DEF Spec
-----------------------------------------------------------------------------
(* What follows for every state *)

\* All variables keep their types: no counter goes below zero, of a group, of
\* the library or of the references to a structure.
THEOREM TypeCorrect ==
  ASSUME Wrapped
  PROVE  Spec => []TypeOK
  <1>1. ASSUME IInv
        PROVE  TypeOK
    <2>1. groups \subseteq Groups /\ allocated \subseteq Groups /\ cache \subseteq Threads
      BY <1>1 DEF IInv, Shape, Owned, Roles, Role
    <2>2. /\ members \in [Groups -> SUBSET Threads] /\ count \in [Groups -> Nat]
          /\ threadList \in Seq(Threads) /\ threads \in Nat /\ consumers \in [Threads -> Nat]
      BY <1>1 DEF IInv, Membership, Counting, Listing, Refs
    <2>. QED
      BY <1>1, <2>1, <2>2 DEF IInv, Shape, TypeOK
  <1>. QED
    BY <1>1, Invariance, PTL

\* No system thread follows a pointer to a group that has been freed, neither
\* the one that starts a thread nor the one that ends it (thread.c:1131-1138,
\* 664-677, 692-714, 1076-1097).
THEOREM GroupsAreSafe ==
  ASSUME Wrapped
  PROVE  Spec => []GroupSafe
  <1>1. ASSUME IInv
        PROVE  GroupSafe
    <2>1. \A a \in Actors : pc[a] \in {"take", "wrap", "link", "schedule", "create", "clean"}
                              => gr[a] \in allocated
      BY <1>1 DEF IInv, Owned, Roles, Role
    <2>2. ASSUME NEW a \in Actors, pc[a] = "unlist"
          PROVE  gr[a] \in allocated
      BY <1>1, <2>2 DEF IInv, Shape, Owned, Roles, Role, Membership, Linked, HeldAt
    <2>3. \A t \in Threads : stage[t] \in {"queued", "running"} => group[t] \in allocated
      BY <1>1 DEF IInv, Owned, Membership, Linked
    <2>4. (own # Null => own \in allocated) /\ groups \subseteq allocated
      BY <1>1 DEF IInv, Owned
    <2>. QED
      BY <2>1, <2>2, <2>3, <2>4 DEF GroupSafe, At
  <1>. QED
    BY <1>1, Invariance, PTL

\* The counters that the library tests are those of its lists, and a shutdown
\* leaves no thread and no group (thread.c:676, 690, 1076, 622, 631-633).
THEOREM CountersAreSound ==
  ASSUME Wrapped
  PROVE  Spec => []CountsAgree
  <1>1. ASSUME IInv
        PROVE  CountsAgree
    <2>1. \A g \in groups : count[g] = Cardinality(members[g])
      BY <1>1 DEF IInv, Counting
    <2>2. threads = Len(threadList)
      BY <1>1 DEF IInv, Listing
    <2>3. \A i, j \in DOMAIN threadList : threadList[i] = threadList[j] => i = j
      BY <1>1 DEF IInv, Listing, IsInjective
    <2>4. shutdown => threadList = <<>> /\ staticGroup = Null /\ groups = {}
      BY <1>1 DEF IInv, Owned, Stopped
    <2>. QED
      BY <2>1, <2>2, <2>3, <2>4 DEF CountsAgree
  <1>. QED
    BY <1>1, Invariance, PTL

\* The consumers of a structure are those who refer to it, and none does when
\* it is kept for reuse (thread.c:1198, 1228, 1364-1385).
THEOREM ReferencesAreSound ==
  ASSUME Wrapped
  PROVE  Spec => []RefsSound
  <1>1. ASSUME IInv
        PROVE  RefsSound
    <2>1. \A t \in Threads : WorkerRefers(t) <=> Referred(t)
      BY DEF WorkerRefers, Referred, HeldAt, At
    <2>2. shutdown \/ \A t \in Threads :
            consumers[t] = (IF t \in handles THEN 1 ELSE 0) + (IF WorkerRefers(t) THEN 1 ELSE 0)
      BY <1>1, <2>1 DEF IInv, Refs
    <2>3. ASSUME NEW t \in cache
          PROVE  /\ t \notin handles /\ ~WorkerRefers(t)
                 /\ \A i \in DOMAIN threadList : threadList[i] # t
                 /\ \A g \in groups : t \notin members[g]
      <3>1. t \in Threads /\ stage[t] = "cached"
        BY <1>1 DEF IInv, Shape
      <3>2. ~Referred(t) /\ ~Linked(t) /\ ~Listed(t)
        BY <1>1, <3>1 DEF IInv, Roles, Role, Referred, Linked, Listed, HeldAt
      <3>. QED
        BY <1>1, <2>1, <3>1, <3>2 DEF IInv, Refs, Membership, Listing, Contains
    <2>. QED
      BY <2>2, <2>3 DEF RefsSound
  <1>. QED
    BY <1>1, Invariance, PTL

\* What _XplThreadDestroy looks for is there, as its assertions say: the thread in
\* the list of its group, the thread in the global list, and the static group in
\* the list of groups (thread.c:674, 688, 710).
Found ==
  \A a \in Actors :
    /\ pc[a] = "unlist" => th[a] \in members[gr[a]]
    /\ pc[a] = "unlink" => \E i \in DOMAIN threadList : threadList[i] = th[a]
    /\ pc[a] = "unlink" /\ gr[a] = staticGroup => gr[a] \in groups

THEOREM ThreadsAreFound ==
  ASSUME Wrapped
  PROVE  Spec => []Found
  <1>1. ASSUME IInv
        PROVE  Found
    <2>1. ASSUME NEW a \in Actors, pc[a] = "unlist"
          PROVE  th[a] \in members[gr[a]]
      BY <1>1, <2>1 DEF IInv, Shape, Roles, Role, Membership, Linked, HeldAt
    <2>2. ASSUME NEW a \in Actors, pc[a] = "unlink"
          PROVE  \E i \in DOMAIN threadList : threadList[i] = th[a]
      <3>1. th[a] \in Threads /\ Listed(th[a])
        BY <1>1, <2>2 DEF IInv, Shape, Roles, Role, Listed, HeldAt
      <3>2. DOMAIN threadList = 1 .. Len(threadList)
        BY <1>1
      <3>. QED
        BY <1>1, <3>1, <3>2 DEF IInv, Listing, Contains
    <2>3. ASSUME NEW a \in Actors, pc[a] = "unlink", gr[a] = staticGroup
          PROVE  gr[a] \in groups
      BY <1>1, <2>3 DEF IInv, Owned, Roles, Role
    <2>. QED
      BY <2>1, <2>2, <2>3 DEF Found
  <1>. QED
    BY <1>1, Invariance, PTL

=============================================================================
