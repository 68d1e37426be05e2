---------------------------- MODULE InputsProofs ----------------------------
(***************************************************************************)
(* Theorems about two of the pure parts, for inputs of any size: the       *)
(* search with a depth, and the way from the answers given to init, from   *)
(* config.yaml and from the skills to jobs and watched directories.  What  *)
(* the search does is defined by recursion over the hops, so first that    *)
(* such hops exist, and then what holds after each of them; both by way of *)
(* the least number of hops of which it would not be so.                   *)
(***************************************************************************)
EXTENDS Search, Settings, TLAPS, WellFoundedInduction

LEMMA LeastOf ==
  ASSUME NEW S \in SUBSET Nat, S # {}
  PROVE  \E x \in S : \A y \in S : x <= y
<1>1. PICK x \in S : \A y \in S : ~ (<<y, x>> \in OpToRel(<, Nat))
  BY NatLessThanWellFounded, WFMin
<1>2. \A y \in S : ~ (y < x)
  BY <1>1 DEF OpToRel
<1> QED  BY <1>2

Start(seeds) == [seen |-> seeds, frontier |-> seeds, out |-> {<<n, 0>> : n \in seeds}]

\* The hops from the seeds on.
AreHops(f, seeds, depth, includeHidden) ==
    f = [h \in 0 .. depth |-> IF h = 0 THEN Start(seeds) ELSE Hop(f[h - 1], h, includeHidden)]

LEMMA HopsExist ==
  ASSUME NEW seeds, NEW includeHidden, NEW depth \in Nat
  PROVE  \E f : AreHops(f, seeds, depth, includeHidden)
<1> DEFINE Bad == {d \in Nat : ~ \E f : AreHops(f, seeds, d, includeHidden)}
<1> SUFFICES ASSUME Bad # {}  PROVE FALSE
  OBVIOUS
<1>1. PICK d \in Bad : \A e \in Bad : d <= e
  BY LeastOf
<1>2. CASE d = 0
  <2> DEFINE f == [h \in 0 .. 0 |-> Start(seeds)]
  <2>1. AreHops(f, seeds, 0, includeHidden)
    BY DEF AreHops
  <2> QED  BY <1>1, <1>2, <2>1
<1>3. CASE d # 0
  <2>1. d - 1 \in Nat /\ d - 1 \notin Bad
    BY <1>1, <1>3
  <2>2. PICK f : AreHops(f, seeds, d - 1, includeHidden)
    BY <2>1
  <2> DEFINE g == [h \in 0 .. d |-> IF h = d THEN Hop(f[d - 1], d, includeHidden) ELSE f[h]]
  <2>3. ASSUME NEW h \in 0 .. d
        PROVE  g[h] = IF h = 0 THEN Start(seeds) ELSE Hop(g[h - 1], h, includeHidden)
    <3>1. CASE h = d
      <4>1. d - 1 \in 0 .. d /\ d - 1 # d
        BY <2>1
      <4>2. g[h - 1] = f[d - 1]
        BY <3>1, <4>1
      <4> QED  BY <1>3, <3>1, <4>2
    <3>2. CASE h # d
      <4>1. h \in 0 .. (d - 1) /\ g[h] = f[h]
        BY <2>1, <3>2
      <4>2. f[h] = IF h = 0 THEN Start(seeds) ELSE Hop(f[h - 1], h, includeHidden)
        BY <2>2, <4>1 DEF AreHops
      <4>3. h # 0 => g[h - 1] = f[h - 1]
        BY <2>1, <4>1
      <4> QED  BY <4>1, <4>2, <4>3
    <3> QED  BY <3>1, <3>2
  <2>4. g = [h \in 0 .. d |-> g[h]]
    OBVIOUS
  <2> HIDE DEF g
  <2>5. AreHops(g, seeds, d, includeHidden)
    BY <2>3, <2>4 DEF AreHops
  <2> QED  BY <1>1, <2>5
<1> QED  BY <1>2, <1>3

\* The search shows what the last of them has reached.
LEMMA ExpandIsLastHop ==
  ASSUME NEW seeds, NEW includeHidden, NEW depth \in Nat
  PROVE  \E f : AreHops(f, seeds, depth, includeHidden) /\ Expand(seeds, depth, includeHidden) = f[depth].out
<1> DEFINE f == CHOOSE f : AreHops(f, seeds, depth, includeHidden)
<1>1. AreHops(f, seeds, depth, includeHidden)
  BY HopsExist
<1>2. Expand(seeds, depth, includeHidden) = f[depth].out
  BY DEF Expand, AreHops, Start
<1> QED  BY <1>1, <1>2

---------------------------------------------------------------------------
(* After h hops: what is seen is what is shown, the frontier is what came  *)
(* last, and what is shown is as it should be but for the last hop, whose  *)
(* references are still to be followed.                                    *)

Followed(r, n, k, includeHidden) ==
    \A m \in CollectOutgoingNamedRefs(n) :
        MayShow(m, includeHidden) => \E l \in 0 .. k + 1 : <<m, l>> \in r.out

Reached(r, h, seeds, includeHidden) ==
    /\ \A x \in r.out : \E n : \E k \in 0 .. h : x = <<n, k>>
    /\ \A n : n \in r.seen <=> \E k \in 0 .. h : <<n, k>> \in r.out
    /\ \A n : n \in r.frontier <=> <<n, h>> \in r.out
    /\ \A n : \A k, l \in 0 .. h : <<n, k>> \in r.out /\ <<n, l>> \in r.out => k = l
    /\ \A n : n \in r.seen => MayShow(n, includeHidden)
    /\ \A n : <<n, 0>> \in r.out <=> n \in seeds
    /\ \A n : \A k \in 1 .. h :
          <<n, k>> \in r.out => \E m : <<m, k - 1>> \in r.out /\ n \in CollectOutgoingNamedRefs(m)
    /\ \A n : \A k \in 0 .. h - 1 : <<n, k>> \in r.out => Followed(r, n, k, includeHidden)

LEMMA StartReached ==
  ASSUME NEW seeds, NEW includeHidden, \A n \in seeds : MayShow(n, includeHidden)
  PROVE  Reached(Start(seeds), 0, seeds, includeHidden)
<1> DEFINE r == Start(seeds)
<1>1. /\ r.seen = seeds /\ r.frontier = seeds
      /\ \A x : x \in r.out <=> \E n \in seeds : x = <<n, 0>>
  BY DEF Start
<1> HIDE DEF r
<1>2. \A n, k : <<n, k>> \in r.out <=> n \in seeds /\ k = 0
  BY <1>1
<1>3. 0 .. 0 = {0} /\ 1 .. 0 = {} /\ 0 .. (0 - 1) = {}
  OBVIOUS
<1>4. Reached(r, 0, seeds, includeHidden)
  BY <1>1, <1>2, <1>3 DEF Reached
<1> QED  BY <1>4 DEF r

LEMMA HopReached ==
  ASSUME NEW seeds, NEW includeHidden, NEW h \in Nat, NEW r, Reached(r, h, seeds, includeHidden)
  PROVE  Reached(Hop(r, h + 1, includeHidden), h + 1, seeds, includeHidden)
<1> DEFINE s == Hop(r, h + 1, includeHidden)
           next == {n \in Ahead(r) : MayShow(n, includeHidden)}
<1>1. \A n : n \in next <=> /\ \E m : <<m, h>> \in r.out /\ n \in CollectOutgoingNamedRefs(m)
                            /\ n \notin r.seen /\ MayShow(n, includeHidden)
  <2>1. \A m : m \in r.frontier <=> <<m, h>> \in r.out
    BY DEF Reached
  <2>2. \A n : n \in Ahead(r) <=> (\E m \in r.frontier : n \in CollectOutgoingNamedRefs(m)) /\ n \notin r.seen
    BY DEF Ahead
  <2>3. \A n : n \in next <=> n \in Ahead(r) /\ MayShow(n, includeHidden)
    BY Zenon
  <2> HIDE DEF next
  <2> QED  BY <2>1, <2>2, <2>3, Zenon
<1>2. s.seen = r.seen \cup next /\ s.frontier = next /\ s.out = r.out \cup {<<n, h + 1>> : n \in next}
  BY DEF Hop
<1> HIDE DEF s, next
<1>3. \A x \in r.out : \E n : \E k \in 0 .. h : x = <<n, k>>
  BY DEF Reached
<1>4. \A n, k : <<n, k>> \in r.out => k \in 0 .. h /\ k # h + 1
  BY <1>3
<1>5. \A n, k : <<n, k>> \in s.out <=> (<<n, k>> \in r.out \/ (k = h + 1 /\ n \in next))
  BY <1>2
<1>6. \A x \in s.out : \E n : \E k \in 0 .. h + 1 : x = <<n, k>>
  <2>1. h + 1 \in 0 .. h + 1 /\ \A k \in 0 .. h : k \in 0 .. h + 1
    OBVIOUS
  <2> QED  BY <1>2, <1>3, <2>1
<1>7. \A n : n \in s.seen <=> \E k \in 0 .. h + 1 : <<n, k>> \in s.out
  <2>1. h + 1 \in 0 .. h + 1 /\ \A k \in 0 .. h : k \in 0 .. h + 1
    OBVIOUS
  <2>2. \A n : n \in r.seen <=> \E k \in 0 .. h : <<n, k>> \in r.out
    BY DEF Reached
  <2> QED  BY <1>2, <1>4, <1>5, <2>1, <2>2
<1>8. \A n : n \in s.frontier <=> <<n, h + 1>> \in s.out
  BY <1>2, <1>4, <1>5
<1>9. \A n : \A k, l \in 0 .. h + 1 : <<n, k>> \in s.out /\ <<n, l>> \in s.out => k = l
  <2>1. \A n : \A k, l \in 0 .. h : <<n, k>> \in r.out /\ <<n, l>> \in r.out => k = l
    BY DEF Reached
  <2>2. \A n, k : n \in next => <<n, k>> \notin r.out
    <3>1. \A n, k : <<n, k>> \in r.out => n \in r.seen
      BY <1>4 DEF Reached
    <3> QED  BY <1>1, <3>1
  <2> QED  BY <1>4, <1>5, <2>1, <2>2
<1>10. \A n : n \in s.seen => MayShow(n, includeHidden)
  BY <1>1, <1>2 DEF Reached
<1>11. \A n : <<n, 0>> \in s.out <=> n \in seeds
  <2>1. 0 # h + 1
    OBVIOUS
  <2>2. \A n : <<n, 0>> \in r.out <=> n \in seeds
    BY DEF Reached
  <2>3. \A n : <<n, 0>> \in s.out <=> <<n, 0>> \in r.out
    BY <1>5, <2>1
  <2> QED  BY <2>2, <2>3
<1>12. \A n : \A k \in 1 .. h + 1 :
          <<n, k>> \in s.out => \E m : <<m, k - 1>> \in s.out /\ n \in CollectOutgoingNamedRefs(m)
  <2> SUFFICES ASSUME NEW n, NEW k \in 1 .. h + 1, <<n, k>> \in s.out
               PROVE  \E m : <<m, k - 1>> \in s.out /\ n \in CollectOutgoingNamedRefs(m)
    OBVIOUS
  <2>1. CASE <<n, k>> \in r.out
    <3>1. k \in 1 .. h
      BY <1>4, <2>1
    <3>2. PICK m : <<m, k - 1>> \in r.out /\ n \in CollectOutgoingNamedRefs(m)
      BY <2>1, <3>1 DEF Reached
    <3> QED  BY <1>5, <3>2
  <2>2. CASE k = h + 1 /\ n \in next
    <3>1. k - 1 = h
      BY <2>2
    <3> QED  BY <1>1, <1>5, <2>2, <3>1
  <2> QED  BY <1>5, <2>1, <2>2
<1>13. \A n : \A k \in 0 .. (h + 1) - 1 : <<n, k>> \in s.out => Followed(s, n, k, includeHidden)
  <2>0. (h + 1) - 1 = h
    OBVIOUS
  <2> SUFFICES ASSUME NEW n, NEW k \in 0 .. h, <<n, k>> \in s.out,
                      NEW m \in CollectOutgoingNamedRefs(n), MayShow(m, includeHidden)
               PROVE  \E l \in 0 .. k + 1 : <<m, l>> \in s.out
    BY <2>0 DEF Followed
  <2>1. <<n, k>> \in r.out
    BY <1>5
  <2>2. CASE k # h
    <3>1. k \in 0 .. h - 1
      BY <2>2
    <3>2. Followed(r, n, k, includeHidden)
      BY <2>1, <3>1 DEF Reached
    <3>3. PICK l \in 0 .. k + 1 : <<m, l>> \in r.out
      BY <3>2 DEF Followed
    <3> QED  BY <1>5, <3>3
  <2>3. CASE k = h /\ m \in r.seen
    <3>1. PICK l \in 0 .. h : <<m, l>> \in r.out
      BY <2>3 DEF Reached
    <3>2. l \in 0 .. k + 1
      BY <2>3
    <3> QED  BY <1>5, <3>1, <3>2
  <2>4. CASE k = h /\ m \notin r.seen
    <3>1. m \in next
      BY <1>1, <2>1, <2>4
    <3>2. h + 1 \in 0 .. k + 1
      BY <2>4
    <3> QED  BY <1>5, <3>1, <3>2
  <2> QED  BY <2>2, <2>3, <2>4
<1>14. Reached(s, h + 1, seeds, includeHidden)
  BY <1>6, <1>7, <1>8, <1>9, <1>10, <1>11, <1>12, <1>13 DEF Reached
<1> QED  BY <1>14 DEF s

LEMMA AlwaysReached ==
  ASSUME NEW seeds, NEW includeHidden, \A n \in seeds : MayShow(n, includeHidden), NEW depth \in Nat, NEW f,
         AreHops(f, seeds, depth, includeHidden)
  PROVE  \A h \in 0 .. depth : Reached(f[h], h, seeds, includeHidden)
<1> DEFINE Bad == {h \in 0 .. depth : ~Reached(f[h], h, seeds, includeHidden)}
<1> SUFFICES ASSUME Bad # {}  PROVE FALSE
  OBVIOUS
<1>0. Bad \in SUBSET Nat
  OBVIOUS
<1>1. PICK d \in Bad : \A e \in Bad : d <= e
  BY <1>0, LeastOf
<1>2. f[d] = IF d = 0 THEN Start(seeds) ELSE Hop(f[d - 1], d, includeHidden)
  BY <1>1 DEF AreHops
<1>3. CASE d = 0
  BY <1>1, <1>2, <1>3, StartReached
<1>4. CASE d # 0
  <2>1. d - 1 \in Nat /\ d - 1 \in 0 .. depth /\ (d - 1) + 1 = d /\ d - 1 \notin Bad
    BY <1>1, <1>4
  <2>2. Reached(f[d - 1], d - 1, seeds, includeHidden)
    BY <2>1
  <2>3. Reached(Hop(f[d - 1], (d - 1) + 1, includeHidden), (d - 1) + 1, seeds, includeHidden)
    BY <2>1, <2>2, HopReached
  <2> QED  BY <1>1, <1>2, <1>4, <2>1, <2>3
<1> QED  BY <1>3, <1>4

---------------------------------------------------------------------------
(* Theorem.                                                                *)

\* A search with a depth shows the nodes found, and each node once, at its distance from the nodes found, and never goes through
\* a hidden one, in any graph and to any depth; the nodes found are not hidden because namedParentsOf
\* leaves those out (expandByDepth of nodes.ts).
THEOREM ExpandsByBreadth ==
  ASSUME NEW seeds, NEW depth \in Nat, NEW includeHidden, \A n \in seeds : MayShow(n, includeHidden)
  PROVE  BreadthFirst(Expand(seeds, depth, includeHidden), seeds, depth, includeHidden)
<1>1. PICK f : /\ AreHops(f, seeds, depth, includeHidden)
               /\ Expand(seeds, depth, includeHidden) = f[depth].out
  BY ExpandIsLastHop
<1> DEFINE r == f[depth]
<1>2. Reached(r, depth, seeds, includeHidden)
  <2>1. depth \in 0 .. depth
    OBVIOUS
  <2> QED  BY <1>1, <2>1, AlwaysReached
<1>0. Expand(seeds, depth, includeHidden) = r.out
  BY <1>1
<1> HIDE DEF r
<1>11. \A n \in seeds : <<n, 0>> \in r.out
  BY <1>2 DEF Reached
<1> SUFFICES ASSUME NEW x \in r.out
             PROVE  /\ MayShow(x[1], includeHidden)
                    /\ \A y \in r.out : y[1] = x[1] => y = x
                    /\ IF x[2] = 0 THEN x[1] \in seeds
                       ELSE \E y \in r.out : y[2] = x[2] - 1 /\ x[1] \in CollectOutgoingNamedRefs(y[1])
                    /\ x[2] < depth =>
                         \A m \in CollectOutgoingNamedRefs(x[1]) :
                            MayShow(m, includeHidden) => \E h \in 0 .. x[2] + 1 : <<m, h>> \in r.out
  BY <1>0, <1>11 DEF BreadthFirst
<1>3. PICK n : \E k \in 0 .. depth : x = <<n, k>>
  BY <1>2 DEF Reached
<1>4. PICK k \in 0 .. depth : x = <<n, k>>
  BY <1>3
<1>5. x[1] = n /\ x[2] = k /\ <<n, k>> \in r.out
  BY <1>4
<1>6. MayShow(n, includeHidden)
  BY <1>2, <1>5 DEF Reached
<1>7. ASSUME NEW y \in r.out, y[1] = n  PROVE y = x
  <2>1. PICK m : \E l \in 0 .. depth : y = <<m, l>>
    BY <1>2 DEF Reached
  <2>2. PICK l \in 0 .. depth : y = <<m, l>>
    BY <2>1
  <2>3. m = n
    BY <1>7, <2>2
  <2>4. k = l
    BY <1>2, <1>5, <2>2, <2>3 DEF Reached
  <2> QED  BY <1>4, <2>2, <2>3, <2>4
<1>8. k # 0 => \E y \in r.out : y[2] = k - 1 /\ n \in CollectOutgoingNamedRefs(y[1])
  <2> SUFFICES ASSUME k # 0  PROVE \E y \in r.out : y[2] = k - 1 /\ n \in CollectOutgoingNamedRefs(y[1])
    OBVIOUS
  <2>1. k \in 1 .. depth
    OBVIOUS
  <2>2. \A a : \A l \in 1 .. depth :
           <<a, l>> \in r.out => \E m : <<m, l - 1>> \in r.out /\ a \in CollectOutgoingNamedRefs(m)
    BY <1>2 DEF Reached
  <2>3. PICK m : <<m, k - 1>> \in r.out /\ n \in CollectOutgoingNamedRefs(m)
    BY <1>5, <2>1, <2>2, Zenon
  <2> QED  BY <2>3
<1>9. k < depth => \A m \in CollectOutgoingNamedRefs(n) :
          MayShow(m, includeHidden) => \E h \in 0 .. k + 1 : <<m, h>> \in r.out
  <2>1. k < depth => k \in 0 .. depth - 1
    OBVIOUS
  <2>2. k < depth => Followed(r, n, k, includeHidden)
    BY <1>2, <1>5, <2>1 DEF Reached
  <2> QED  BY <2>2 DEF Followed
<1>10. k = 0 => n \in seeds
  BY <1>2, <1>5 DEF Reached
<1> QED  BY <1>5, <1>6, <1>7, <1>8, <1>9, <1>10

---------------------------------------------------------------------------
(* From settings to jobs.                                                  *)

\* A path keeps at least one segment when its tilde is expanded.
LEMMA ExpandedIsThere ==
  ASSUME NEW S, Home \in Seq(S), Home # <<>>, NEW path \in Seq(S)
  PROVE  ExpandTilde(path) = <<>> <=> path = <<>>
<1>1. CASE path # <<>> /\ path[1] = "~"
  <2>1. Tail(path) \in Seq(S) /\ Len(Home) > 0
    BY <1>1
  <2>2. Len(Home \o Tail(path)) > 0
    BY <2>1
  <2> QED  BY <1>1, <2>2 DEF ExpandTilde
<1>2. CASE ~ (path # <<>> /\ path[1] = "~")
  BY <1>2 DEF ExpandTilde
<1> QED  BY <1>1, <1>2

\* The snapshot supervisor watches exactly the directories that the enabled jobs index, whatever the
\* configuration says or leaves out, although each works the directories out by itself
\* (resolveWatchSpecs of snapshotSupervisor.ts, the builders of registry.ts).
THEOREM WatchesWhatJobsIndex ==
  ASSUME NEW entry, NEW names, NEW S, Home \in Seq(S), Home # <<>>,
         \A n \in names : Get(JobParams(entry, n), "repoPath", <<>>) \in Seq(S),
         Get(JobParams(entry, "plans-claude"), "plansDir", <<>>) \in Seq(S)
  PROVE  ResolveWatchSpecs(entry, names) =
            ({LspRoot(entry, n) : n \in {m \in names \cap LspKeys : On(entry, m)}} \ {<<>>})
            \cup {PlansRoot(entry) : n \in {m \in {"plans-claude"} : On(entry, m)}}
<1> DEFINE root(n) == LET raw == Get(JobParams(entry, n), "repoPath", <<>>)
                      IN IF raw # <<>> THEN ExpandTilde(raw) ELSE entry.repoPath
           plans == Get(JobParams(entry, "plans-claude"), "plansDir", <<>>)
           plansRoot == IF plans # <<>> THEN ExpandTilde(plans) ELSE DefaultPlansDir
<1>1. \A n \in names : root(n) = LspRoot(entry, n)
  BY ExpandedIsThere DEF LspRoot, ReadString
<1>2. plansRoot = PlansRoot(entry)
  BY ExpandedIsThere DEF PlansRoot, ReadString
<1>3. ResolveWatchSpecs(entry, names) =
        ({root(n) : n \in {m \in names \cap LspKeys : On(entry, m)}} \ {<<>>})
        \cup (IF On(entry, "plans-claude") THEN {plansRoot} ELSE {})
  BY DEF ResolveWatchSpecs
<1> HIDE DEF root, plansRoot
<1> QED  BY <1>1, <1>2, <1>3

LEMMA LoadedSkill ==
  ASSUME NEW n, NEW file, NEW c
  PROVE  LoadOneSkill(n, file, c).name = n /\ LoadOneSkill(n, file, c).category = c
<1> DEFINE triggers == IF "job" \in DOMAIN file THEN ParseTriggers(Get(file.job, "triggers", <<>>)) ELSE <<>>
           on == "job" \in DOMAIN file /\ Get(file.job, "defaultEnabled", FALSE)
<1>1. LoadOneSkill(n, file, c) =
        [name |-> n, category |-> c, allowedTools |-> ParseAllowedTools(file.allowed), triggers |-> triggers,
         defaultEnabled |-> on]
  BY Zenon DEF LoadOneSkill
<1> HIDE DEF triggers, on
<1> QED  BY <1>1

\* Each directory of jobs/ that can be read is one job, unless a skill has its name, and no two of these
\* jobs share a name (loadAllSkills of skills.ts, buildJobs of registry.ts).
THEOREM JobDirectoriesBecomeJobs ==
  ASSUME NEW entry, NEW skillsDir, NEW jobsDir
  PROVE  LET skills == LoadAllSkills(skillsDir, jobsDir)
             jobs == {BuildUserSkillJob(s, entry) : s \in {x \in skills : x.category = "job"}}
             isSkill(n) == n \in DOMAIN skillsDir /\ skillsDir[n].frontMatter
         IN /\ {j.name : j \in jobs} = {n \in DOMAIN jobsDir : jobsDir[n].frontMatter /\ ~isSkill(n)}
            /\ \A i, j \in jobs : i.name = j.name => i = j
<1> DEFINE skills == LoadAllSkills(skillsDir, jobsDir)
           user == {x \in skills : x.category = "job"}
           jobs == {BuildUserSkillJob(s, entry) : s \in user}
           isSkill(n) == n \in DOMAIN skillsDir /\ skillsDir[n].frontMatter
           names == {n \in DOMAIN jobsDir : jobsDir[n].frontMatter /\ ~isSkill(n)}
<1>0. \A n, file, c : LoadOneSkill(n, file, c).name = n /\ LoadOneSkill(n, file, c).category = c
  BY LoadedSkill
<1>1. \A dir, c, s : s \in LoadSkillsFromDir(dir, c) <=>
          \E n \in DOMAIN dir : dir[n].frontMatter /\ s = LoadOneSkill(n, dir[n], c)
  BY DEF LoadSkillsFromDir
<1>2. \A n : isSkill(n) <=> \E s \in LoadSkillsFromDir(skillsDir, "skill") : s.name = n
  BY <1>0, <1>1
<1> HIDE DEF isSkill
<1>3. \A s : s \in user <=> \E n \in names : s = LoadOneSkill(n, jobsDir[n], "job")
  <2>1. \A s : s \in skills <=> \/ s \in LoadSkillsFromDir(skillsDir, "skill")
                                 \/ (s \in LoadSkillsFromDir(jobsDir, "job") /\ ~isSkill(s.name))
    BY <1>2 DEF LoadAllSkills
  <2> HIDE DEF skills
  <2>2. \A s : s \in user <=> s \in LoadSkillsFromDir(jobsDir, "job") /\ ~isSkill(s.name)
    BY <1>0, <1>1, <2>1
  <2> HIDE DEF user
  <2> QED  BY <1>0, <1>1, <2>2
<1>4. \A n \in names : LoadOneSkill(n, jobsDir[n], "job").name = n
  BY <1>0
<1>5. \A s : BuildUserSkillJob(s, entry).name = s.name
  BY DEF BuildUserSkillJob
<1> HIDE DEF user, names
<1>6. {j.name : j \in jobs} = names
  BY <1>3, <1>4, <1>5
<1>7. \A i, j \in jobs : i.name = j.name => i = j
  BY <1>3, <1>4, <1>5
<1> QED  BY <1>6, <1>7 DEF names, user, isSkill

---------------------------------------------------------------------------
(* What init writes.                                                       *)

\* The auth that the prompts make is one that loads.
LEMMA PromptedAuthIsValid ==
  /\ \A mode \in StaticProviders \cup {"openai-oauth"} : ValidAuth(AgentAuth(mode))
  /\ \A provider \in {"openai", "openrouter"} :
        ValidAuth(EmbedAuth(provider)) /\ EmbedWorks([auth |-> EmbedAuth(provider)])
<1>1. ASSUME NEW p \in StaticProviders
      PROVE  ValidAuth([authType |-> "apiKey", provider |-> p, model |-> "m", apiKey |-> "k"])
  <2> DEFINE a == [authType |-> "apiKey", provider |-> p, model |-> "m", apiKey |-> "k"]
  <2>1. Get(a, "authType", "") = "apiKey" /\ Get(a, "model", "") = "m" /\ Get(a, "apiKey", "") = "k"
    BY DEF Get
  <2>2. Get(a, "provider", "") = p /\ Get(a, "url", "") = "" /\ p # ""
    BY DEF Get, StaticProviders
  <2> QED  BY <2>1, <2>2 DEF ValidAuth, Given
<1>2. ValidAuth([authType |-> "openai-oauth"])
  BY DEF ValidAuth, Get
<1>3. \A p \in {"openai", "openrouter"} : EmbedWorks([auth |-> EmbedAuth(p)])
  BY DEF EmbedWorks, EmbedAuth, Get
<1> QED  BY <1>1, <1>2, <1>3 DEF AgentAuth, EmbedAuth, StaticProviders

\* The entry that init writes loads, and each job it enables is one that the daemon builds and that
\* finds its settings, whichever agent, provider and paths the user chose (init.ts, validateAllAuthBlocks
\* of config.ts, registry.ts).
THEOREM WhatInitWritesRuns ==
  ASSUME NEW S, Home \in Seq(S), Home # <<>>,
         "lsp" \in LspKeys, LspKeys \cap {"span-link", "indexer", "plans-claude", "claude", "codex", "pi"} = {},
         NEW params, params.repoPath \in Seq(S), params.repoPath # <<>>, params.path \in Seq(S),
         params.kind \in {"claude", "codex", "pi"} => params.path # <<>>,
         NEW m \in StaticProviders \cup {"openai-oauth"}, params.indexerAuth = AgentAuth(m),
         NEW n \in StaticProviders \cup {"openai-oauth"}, params.uiAuth = AgentAuth(n),
         NEW p \in {"openai", "openrouter"}, params.embedAuth = EmbedAuth(p)
  PROVE  LET entry == WriteInitConfig(params)
         IN /\ ValidateAllAuthBlocks(entry) /\ EmbedWorks(entry.embed)
            /\ \A job \in DOMAIN entry.jobs :
                  On(entry, job) => FindsItsSettings(entry, job) /\ \E j \in BuiltinJobs(entry) : j.name = job
<1> DEFINE entry == WriteInitConfig(params)
           names == {"lsp", "span-link", "indexer", "plans-claude", "claude", "codex", "pi"}
           jobs == BuildJobsConfig(params)
<1>1. /\ entry.jobs = jobs /\ DOMAIN jobs = names
      /\ entry.repoPath = params.repoPath
      /\ entry.embed = [auth |-> EmbedAuth(p)] /\ entry.agent = [auth |-> AgentAuth(n)]
  BY DEF WriteInitConfig, BuildJobsConfig
<1>2. /\ JobParams(entry, "lsp") = [repoPath |-> params.repoPath]
      /\ JobParams(entry, "indexer") = [auth |-> AgentAuth(m)]
      /\ JobParams(entry, "span-link") = NoFields
      /\ JobParams(entry, "plans-claude") = [plansDir |-> DefaultPlansDir]
  BY <1>1 DEF JobParams, JobEntry, Get, BuildJobsConfig
<1>3. /\ JobParams(entry, "claude") = IF params.kind = "claude" THEN [path |-> params.path] ELSE NoFields
      /\ JobParams(entry, "codex") = IF params.kind = "codex" THEN [statePath |-> params.path] ELSE NoFields
      /\ JobParams(entry, "pi") = IF params.kind = "pi" THEN [sessionsPath |-> params.path] ELSE NoFields
  BY <1>1 DEF JobParams, JobEntry, Get, BuildJobsConfig
<1>4. /\ On(entry, "claude") <=> params.kind = "claude"
      /\ On(entry, "pi") <=> params.kind = "pi"
  <2>1. ASSUME NEW kind, NEW on, NEW parameters,
               JobEntry(entry, kind) = [enabled |-> on, parameters |-> parameters]
        PROVE  On(entry, kind) = on
    BY <2>1 DEF On, Get
  <2> DEFINE claude == params.kind = "claude"
             pi == params.kind = "pi"
  <2>2. /\ JobEntry(entry, "claude") = jobs["claude"] /\ JobEntry(entry, "pi") = jobs["pi"]
    BY <1>1 DEF JobEntry, Get
  <2>3. jobs["claude"] = [enabled |-> claude, parameters |-> IF claude THEN [path |-> params.path] ELSE NoFields]
    BY DEF BuildJobsConfig
  <2>4. jobs["pi"] = [enabled |-> pi, parameters |-> IF pi THEN [sessionsPath |-> params.path] ELSE NoFields]
    BY DEF BuildJobsConfig
  <2> HIDE DEF jobs, entry, claude, pi
  <2>5. On(entry, "claude") = claude  BY <2>1, <2>2, <2>3
  <2>6. On(entry, "pi") = pi  BY <2>1, <2>2, <2>4
  <2>7. (On(entry, "claude") <=> claude) /\ (On(entry, "pi") <=> pi)  BY Zenon, <2>5, <2>6
  <2> QED  BY Zenon, <2>7 DEF claude, pi
<1> HIDE DEF jobs, entry
<1>5. ValidateAllAuthBlocks(entry) /\ EmbedWorks(entry.embed)
  <2>1. \A job \in names : "auth" \in DOMAIN JobParams(entry, job) => job = "indexer"
    BY <1>2, <1>3 DEF NoFields
  <2> QED  BY <1>1, <1>2, <2>1, PromptedAuthIsValid DEF ValidateAllAuthBlocks
<1>6. ASSUME NEW job \in names, On(entry, job) PROVE FindsItsSettings(entry, job)
  <2>1. CASE job = "lsp"
    <3>1. ReadString(JobParams(entry, "lsp"), "repoPath") # <<>>
      BY <1>2, ExpandedIsThere DEF ReadString, Get
    <3> QED  BY <2>1, <3>1 DEF FindsItsSettings, LspRoot
  <2>2. CASE job = "claude"
    <3>1. ClaudeRoot(entry) # <<>>
      BY <1>3, <1>4, <1>6, <2>2, ExpandedIsThere DEF ClaudeRoot, ReadString, Get
    <3> QED  BY <2>2, <3>1 DEF FindsItsSettings
  <2>3. CASE job = "pi"
    <3>1. PiRoot(entry) # <<>>
      BY <1>3, <1>4, <1>6, <2>3, ExpandedIsThere DEF PiRoot, ReadString, Get
    <3> QED  BY <2>3, <3>1 DEF FindsItsSettings
  <2>4. CASE job \in {"codex", "plans-claude", "span-link"} BY <2>4 DEF FindsItsSettings
  <2>5. CASE job = "indexer" BY <1>2, <2>5 DEF FindsItsSettings
  <2> QED  BY <2>1, <2>2, <2>3, <2>4, <2>5
<1>7. ASSUME NEW job \in names PROVE \E j \in BuiltinJobs(entry) : j.name = job
  <2>1. \A name, triggers : BuiltinJob(name, triggers).name = name
    BY DEF BuiltinJob
  <2>2. CASE job = "lsp"
    <3>1. BuiltinJob("lsp", <<OnSpan("extracted")>>) \in BuiltinJobs(entry)
      BY DEF BuiltinJobs, LspJobs, DiscoverLspJobNames
    <3> QED  BY <2>1, <2>2, <3>1
  <2>3. CASE job \in {"claude", "codex", "pi"}
    <3>1. AgentLogJob(entry, job) \in BuiltinJobs(entry) BY <2>3 DEF BuiltinJobs
    <3> QED  BY <2>1, <3>1 DEF AgentLogJob
  <2>4. CASE job = "plans-claude"
    <3>1. PlansClaudeJob(entry) \in BuiltinJobs(entry) BY DEF BuiltinJobs
    <3> QED  BY <2>1, <2>4, <3>1 DEF PlansClaudeJob
  <2>5. CASE job = "span-link"
    <3>1. SpanLinkJob \in BuiltinJobs(entry) BY DEF BuiltinJobs
    <3> QED  BY <2>1, <2>5, <3>1 DEF SpanLinkJob
  <2>6. CASE job = "indexer"
    <3>1. IndexerJob(entry) \in BuiltinJobs(entry) BY DEF BuiltinJobs
    <3> QED  BY <2>1, <2>6, <3>1 DEF IndexerJob
  <2> QED  BY <2>2, <2>3, <2>4, <2>5, <2>6
<1> QED  BY <1>1, <1>5, <1>6, <1>7 DEF entry

\* Where the user stands picks a project unless none is enabled around it, and one directory only:
\* the innermost (resolveProjectByCwd of config.ts).
THEOREM InnermostProject ==
  ASSUME NEW S, NEW cwd \in Seq(S), NEW projects,
         \A n \in DOMAIN projects : projects[n].repoPath \in Seq(S)
  PROVE  LET found == ResolveProjectByCwd(projects, cwd)
             around(n) == /\ n \in DOMAIN projects /\ Get(projects[n], "enabled", TRUE)
                          /\ projects[n].repoPath # <<>> /\ IsPrefix(projects[n].repoPath, cwd)
         IN /\ (\E n : around(n)) => found # {}
            /\ \A m, n \in found : projects[m].repoPath = projects[n].repoPath
            /\ \A n \in found : around(n) /\ \A m : around(m) => IsPrefix(projects[m].repoPath, projects[n].repoPath)
<1> DEFINE found == ResolveProjectByCwd(projects, cwd)
           path(n) == projects[n].repoPath
           around(n) == /\ n \in DOMAIN projects /\ Get(projects[n], "enabled", TRUE)
                        /\ path(n) # <<>> /\ IsPrefix(path(n), cwd)
<1>1. \A n : n \in found <=> around(n) /\ \A m : around(m) => Len(path(m)) <= Len(path(n))
  BY DEF ResolveProjectByCwd
<1>2. \A n : around(n) => path(n) \in Seq(S) /\ IsPrefix(path(n), cwd)
  OBVIOUS
<1> HIDE DEF found, path, around
<1>3. ASSUME NEW n, around(n) PROVE found # {}
  <2> DEFINE Left == {Len(cwd) - Len(path(k)) : k \in {x \in DOMAIN projects : around(x)}}
  <2>0. \A k : around(k) => k \in DOMAIN projects BY DEF around
  <2>1. \A k : around(k) => Len(path(k)) \in Nat /\ Len(path(k)) <= Len(cwd) /\ Len(cwd) \in Nat
    BY <1>2 DEF IsPrefix
  <2>2. Left \in SUBSET Nat /\ Left # {}
    BY <1>3, <2>0, <2>1
  <2>3. PICK x \in Left : \A y \in Left : x <= y
    <3> HIDE DEF Left
    <3> QED  BY <2>2, LeastOf
  <2>4. PICK k : around(k) /\ x = Len(cwd) - Len(path(k))
    BY <2>3
  <2>5. ASSUME NEW l, around(l) PROVE Len(path(l)) <= Len(path(k))
    <3>1. x <= Len(cwd) - Len(path(l)) BY <2>0, <2>3, <2>5
    <3> QED  BY <2>1, <2>4, <2>5, <3>1
  <2> QED  BY <1>1, <2>4, <2>5
<1>4. ASSUME NEW s \in Seq(S), NEW t \in Seq(S), IsPrefix(s, cwd), IsPrefix(t, cwd), Len(s) <= Len(t)
      PROVE  IsPrefix(s, t) /\ (Len(s) = Len(t) => s = t)
  <2>1. /\ Len(s) <= Len(cwd) /\ Len(t) <= Len(cwd) /\ Len(s) \in Nat /\ Len(t) \in Nat /\ Len(cwd) \in Nat
        /\ SubSeq(s, 1, Len(s)) = SubSeq(cwd, 1, Len(s)) /\ SubSeq(t, 1, Len(t)) = SubSeq(cwd, 1, Len(t))
    BY <1>4 DEF IsPrefix
  <2>2. \A i \in 1 .. Len(s) : s[i] = cwd[i]
    <3> SUFFICES ASSUME NEW i \in 1 .. Len(s) PROVE s[i] = cwd[i]  OBVIOUS
    <3>1. SubSeq(s, 1, Len(s))[i] = s[i] /\ SubSeq(cwd, 1, Len(s))[i] = cwd[i] BY <2>1
    <3> QED  BY <2>1, <3>1
  <2>3. \A i \in 1 .. Len(t) : t[i] = cwd[i]
    <3> SUFFICES ASSUME NEW i \in 1 .. Len(t) PROVE t[i] = cwd[i]  OBVIOUS
    <3>1. SubSeq(t, 1, Len(t))[i] = t[i] /\ SubSeq(cwd, 1, Len(t))[i] = cwd[i] BY <2>1
    <3> QED  BY <2>1, <3>1
  <2>4. \A i \in 1 .. Len(s) : s[i] = t[i] BY <1>4, <2>1, <2>2, <2>3
  <2>5. SubSeq(s, 1, Len(s)) = SubSeq(t, 1, Len(s)) BY <1>4, <2>1, <2>4
  <2>6. Len(s) = Len(t) => s = t BY <2>1, <2>4
  <2> QED  BY <1>4, <2>5, <2>6 DEF IsPrefix
<1>5. \A n \in found : around(n) /\ \A m : around(m) => IsPrefix(path(m), path(n))
  BY <1>1, <1>2, <1>4
<1>6. \A m, n \in found : path(m) = path(n)
  <2> SUFFICES ASSUME NEW m \in found, NEW n \in found PROVE path(m) = path(n)  OBVIOUS
  <2>1. around(m) /\ around(n) /\ Len(path(m)) <= Len(path(n)) /\ Len(path(n)) <= Len(path(m)) BY <1>1
  <2>2. Len(path(m)) = Len(path(n)) BY <1>2, <2>1
  <2> QED  BY <1>2, <1>4, <2>1, <2>2
<1> QED  BY <1>3, <1>5, <1>6 DEF found, path, around
=============================================================================
