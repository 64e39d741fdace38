------------------------ MODULE SessionTracker_proofs ------------------------
(***************************************************************************)
(* What the session tracker guarantees for any sessions, identifiers, runs, *)
(* routes and hooks.  TrackerInv says of a tracker that its records are     *)
(* sound, that its indexes say what the records say, and that no strong     *)
(* identifier is held twice; every operation of the tracker keeps it.  The  *)
(* invariants about sessions need in addition whose a record is.            *)
(***************************************************************************)
EXTENDS SessionTracker, FiniteSetTheorems, WellFoundedInduction, TLAPS

\* Observations of routes, and the records that have them.
RouteMaps == UNION {[S -> [seen : Nat, runs : SUBSET Runs]] : S \in SUBSET Routes}
Record ==
  [ids : SUBSET Names, keys : SUBSET Names, runs : SUBSET Runs, routes : RouteMaps]

\* The index of identifiers N over records D, when record r holds h[r].
IndexOf(N, D, h) == [n \in N |-> {r \in D : n \in h[r]}]

Ids(rec) == [r \in DOMAIN rec |-> rec[r].ids]
Keys(rec) == [r \in DOMAIN rec |-> rec[r].keys]
RunsOf(rec) == [r \in DOMAIN rec |-> rec[r].runs]

\* The records of a tracker; the indexes follow from them.
Recorded(t) ==
  /\ t = [rec |-> t.rec, byId |-> t.byId, byKey |-> t.byKey, byRun |-> t.byRun]
  /\ t.rec \in [DOMAIN t.rec -> Record] /\ DOMAIN t.rec \subseteq Recs
Indexed(t) ==
  /\ t.byId = IndexOf(Names, DOMAIN t.rec, Ids(t.rec))
  /\ t.byKey = IndexOf(Names, DOMAIN t.rec, Keys(t.rec))
  /\ t.byRun = IndexOf(Runs, DOMAIN t.rec, RunsOf(t.rec))

\* What every record keeps to itself at time now.
Sound(record, now) ==
  /\ \A n \in record.ids : LooksLikeKey(n) => n \in record.keys
  /\ \A o \in DOMAIN record.routes :
       record.routes[o].seen <= now /\ record.routes[o].runs \subseteq record.runs

\* Two records share at most the alias.
Apart(a, b) == a.ids \cap b.ids = {} /\ a.keys \cap b.keys \subseteq {Alias} /\ a.runs \cap b.runs = {}

TrackerInv(t, now) ==
  /\ Recorded(t) /\ Indexed(t)
  /\ \A r \in DOMAIN t.rec : Sound(t.rec[r], now)
  /\ \A p, r \in DOMAIN t.rec : p # r => Apart(t.rec[p], t.rec[r])

\* A record without a name is one that was just created.
Named(t, D) == \A r \in D : t.rec[r].ids \cup t.rec[r].keys # {}

-----------------------------------------------------------------------------
(* The indexes *)

\* What names the records of R hold.
HeldBy(h, R) == UNION {h[r] : r \in R}

\* There are finitely many record ids.
LEMMA FiniteRecs == IsFiniteSet(Recs)
<1>1. MaxRecords \in Nat
  BY SessionConstants DEF SessionConstants
<1>2. QED
  BY <1>1, FS_Interval DEF Recs

\* What a set of records holds, field by field.
LEMMA AllHeld ==
  ASSUME NEW t, NEW R, R \subseteq DOMAIN t.rec
  PROVE  /\ AllOf(t, R, "ids") = HeldBy(Ids(t.rec), R)
         /\ AllOf(t, R, "keys") = HeldBy(Keys(t.rec), R)
         /\ AllOf(t, R, "runs") = HeldBy(RunsOf(t.rec), R)
BY DEF AllOf, HeldBy, Ids, Keys, RunsOf

\* An index after its records R were removed (removeIndexEntry).
LEMMA IndexRemoved ==
  ASSUME NEW N, NEW D, NEW h, NEW R, R \subseteq D
  PROVE  Replaced(IndexOf(N, D, h), HeldBy(h, R), R, {}) = IndexOf(N, D \ R, h)
BY DEF Replaced, IndexOf, HeldBy

\* ... and after they became one of them (mergeRecords).
LEMMA IndexMerged ==
  ASSUME NEW N, NEW D, NEW h, NEW R, R \subseteq D, NEW p \in R, NEW g,
         g[p] = HeldBy(h, R), \A r \in D \ R : g[r] = h[r]
  PROVE  Replaced(IndexOf(N, D, h), HeldBy(h, R \ {p}), R \ {p}, {p}) = IndexOf(N, D \ (R \ {p}), g)
BY DEF Replaced, IndexOf, HeldBy

\* ... and after one of them got more names (addIndexEntry).
LEMMA IndexNoted ==
  ASSUME NEW N, NEW D, NEW h, NEW p \in D, NEW more, NEW g,
         g[p] = h[p] \cup more, \A r \in D \ {p} : g[r] = h[r]
  PROVE  Replaced(IndexOf(N, D, h), more, {}, {p}) = IndexOf(N, D, g)
BY DEF Replaced, IndexOf

-----------------------------------------------------------------------------
(* Observations of routes *)

\* Every nonempty set of naturals has a least element.
LEMMA LeastElement == ASSUME NEW T, T \subseteq Nat, T # {} PROVE \E x \in T : \A y \in T : ~(y < x)
<1> DEFINE R == OpToRel(<, Nat)
<1>1. IsWellFoundedOn(R, Nat)
  BY NatLessThanWellFounded, Zenon
<1>2. \A x, y \in Nat : y < x => <<y, x>> \in R
  BY DEF OpToRel
<1>3. \E x \in T : \A y \in T : ~(<<y, x>> \in R)
  <2> HIDE DEF R
  <2> QED
    BY <1>1, WFMin
<1>4. QED
  BY <1>2, <1>3

\* The latest of times that have been.
LEMMA Latest ==
  ASSUME NEW now \in Nat, NEW T, T # {}, T \subseteq 0..now
  PROVE  Max(T) \in T
<1> DEFINE U == {n \in Nat : \A y \in T : y <= n}
<1>1. now \in U
  OBVIOUS
<1>2. PICK x \in U : \A y \in U : ~(y < x)
  <2> HIDE DEF U
  <2>1. U \subseteq Nat /\ U # {}
    BY <1>1 DEF U
  <2>2. QED
    BY <2>1, LeastElement
<1>3. x \in T
  <2>1. SUFFICES ASSUME x \notin T PROVE FALSE
    OBVIOUS
  <2>2. PICK y \in T : TRUE
    OBVIOUS
  <2>3. x - 1 \in U
    BY <2>1, <2>2
  <2>4. QED
    BY <1>2, <2>3
<1>4. \A y \in T : x >= y
  OBVIOUS
<1>5. QED
  BY <1>3, <1>4 DEF Max

\* The observations of a record, without the set of routes they are about.
LEMMA MapOfRoutes ==
  ASSUME NEW m
  PROVE  m \in RouteMaps <=> /\ DOMAIN m \subseteq Routes
                             /\ m \in [DOMAIN m -> [seen : Nat, runs : SUBSET Runs]]
BY DEF RouteMaps

\* Several maps in one say nothing later and nothing of other runs than they did.
LEMMA RoutesMerged ==
  ASSUME NEW now \in Nat, NEW runs, NEW M, M \subseteq RouteMaps,
         \A m \in M : \A o \in DOMAIN m : m[o].seen <= now /\ m[o].runs \subseteq runs
  PROVE  /\ MergedRoutes(M) \in RouteMaps
         /\ DOMAIN MergedRoutes(M) = UNION {DOMAIN m : m \in M}
         /\ \A o \in DOMAIN MergedRoutes(M) :
              MergedRoutes(M)[o].seen <= now /\ MergedRoutes(M)[o].runs \subseteq runs
<1> DEFINE all == UNION {DOMAIN m : m \in M}
           found(o) == {m[o] : m \in {x \in M : o \in DOMAIN x}}
           entry(o) == [seen |-> Max({f.seen : f \in found(o)}), runs |-> UNION {f.runs : f \in found(o)}]
<1>1. MergedRoutes(M) = [o \in all |-> entry(o)]
  BY DEF MergedRoutes
<1>2. all \subseteq Routes
  BY MapOfRoutes
<1>3. ASSUME NEW o \in all
      PROVE  /\ entry(o) \in [seen : Nat, runs : SUBSET Runs]
             /\ entry(o).seen <= now /\ entry(o).runs \subseteq runs
  <2> DEFINE times == {f.seen : f \in found(o)}
  <2>1. \A f \in found(o) : f.seen \in 0..now /\ f.runs \subseteq runs /\ f.runs \subseteq Runs
    BY MapOfRoutes
  <2>2. found(o) # {}
    OBVIOUS
  <2> HIDE DEF found
  <2>3. times # {} /\ times \subseteq 0..now
    BY <2>1, <2>2
  <2> HIDE DEF times
  <2>4. Max(times) \in times
    BY <2>3, Latest
  <2>5. Max(times) \in 0..now
    BY <2>3, <2>4
  <2>6. UNION {f.runs : f \in found(o)} \subseteq runs \cap Runs
    BY <2>1
  <2>7. QED
    BY <2>5, <2>6 DEF times
<1> HIDE DEF all, entry
<1>4. QED
  BY <1>1, <1>2, <1>3, MapOfRoutes DEF all

-----------------------------------------------------------------------------
(* The operations of the tracker *)

\* removeRecord takes the records away, with their index entries.
LEMMA RemovedInv ==
  ASSUME NEW t, NEW now, TrackerInv(t, now), NEW R, R \subseteq DOMAIN t.rec
  PROVE  /\ TrackerInv(Removed(t, R), now)
         /\ DOMAIN Removed(t, R).rec = DOMAIN t.rec \ R
         /\ \A r \in DOMAIN t.rec \ R : Removed(t, R).rec[r] = t.rec[r]
<1> DEFINE u == Removed(t, R)
<1>1. /\ u = [rec |-> u.rec, byId |-> u.byId, byKey |-> u.byKey, byRun |-> u.byRun]
      /\ u.rec = [r \in DOMAIN t.rec \ R |-> t.rec[r]]
      /\ u.byId = Replaced(t.byId, AllOf(t, R, "ids"), R, {})
      /\ u.byKey = Replaced(t.byKey, AllOf(t, R, "keys"), R, {})
      /\ u.byRun = Replaced(t.byRun, AllOf(t, R, "runs"), R, {})
  BY DEF Removed, Restrict
<1> HIDE DEF u
<1>2. DOMAIN u.rec = DOMAIN t.rec \ R /\ \A r \in DOMAIN t.rec \ R : u.rec[r] = t.rec[r]
  BY <1>1
<1>3. Recorded(u)
  BY <1>1, <1>2 DEF TrackerInv, Recorded
<1>4. Indexed(u)
  <2>1. /\ u.byId = IndexOf(Names, DOMAIN u.rec, Ids(t.rec))
        /\ u.byKey = IndexOf(Names, DOMAIN u.rec, Keys(t.rec))
        /\ u.byRun = IndexOf(Runs, DOMAIN u.rec, RunsOf(t.rec))
    BY <1>1, <1>2, AllHeld, IndexRemoved DEF TrackerInv, Indexed
  <2>2. QED
    BY <1>2, <2>1 DEF Indexed, IndexOf, Ids, Keys, RunsOf
<1>5. QED
  BY <1>2, <1>3, <1>4 DEF TrackerInv, u

\* The record that several become is as sound as they were.
LEMMA CombinedSound ==
  ASSUME NEW t, NEW now \in Nat, TrackerInv(t, now), NEW R, R \subseteq DOMAIN t.rec, NEW p \in R
  PROVE  Combined(t, p, R) \in Record /\ Sound(Combined(t, p, R), now)
<1> DEFINE maps == {t.rec[r].routes : r \in R}
           runs == AllOf(t, R, "runs")
<1>1. /\ \A r \in R : t.rec[r] \in Record
      /\ \A r \in R : Sound(t.rec[r], now)
  BY DEF TrackerInv, Recorded
<1>2. /\ AllOf(t, R, "ids") \subseteq Names /\ AllOf(t, R, "keys") \subseteq Names
      /\ runs \subseteq Runs /\ maps \subseteq RouteMaps
  BY <1>1 DEF AllOf, Record
<1>3. \A m \in maps : \A o \in DOMAIN m : m[o].seen <= now /\ m[o].runs \subseteq runs
  BY <1>1 DEF AllOf, Sound
<1>4. \A n \in AllOf(t, R, "ids") : LooksLikeKey(n) => n \in AllOf(t, R, "keys")
  BY <1>1 DEF AllOf, Sound
<1> HIDE DEF maps, runs
<1>5. /\ MergedRoutes(maps) \in RouteMaps
      /\ \A o \in DOMAIN MergedRoutes(maps) :
           MergedRoutes(maps)[o].seen <= now /\ MergedRoutes(maps)[o].runs \subseteq runs
  BY <1>2, <1>3, RoutesMerged
<1>6. Combined(t, p, R) =
        [ids |-> AllOf(t, R, "ids"), keys |-> AllOf(t, R, "keys"), runs |-> runs, routes |-> MergedRoutes(maps)]
  BY DEF Combined, maps, runs
<1>7. QED
  BY <1>2, <1>4, <1>5, <1>6 DEF Record, Sound

\* What mergeRecords does to the records.
Joined(t, u, p, R) ==
  /\ DOMAIN u.rec = DOMAIN t.rec \ (R \ {p})
  /\ u.rec[p] = Combined(t, p, R)
  /\ \A r \in DOMAIN t.rec \ R : u.rec[r] = t.rec[r]

\* mergeRecords keeps the tracker sound.
LEMMA MergedInv ==
  ASSUME NEW t, NEW now \in Nat, TrackerInv(t, now), NEW R, R \subseteq DOMAIN t.rec, NEW p \in R
  PROVE  TrackerInv(Merged(t, p, R), now) /\ Joined(t, Merged(t, p, R), p, R)
<1> DEFINE u == Merged(t, p, R)
           c == Combined(t, p, R)
           D == DOMAIN t.rec \ (R \ {p})
<1>1. /\ u = [rec |-> u.rec, byId |-> u.byId, byKey |-> u.byKey, byRun |-> u.byRun]
      /\ u.rec = [r \in D |-> IF r = p THEN c ELSE t.rec[r]]
      /\ u.byId = Replaced(t.byId, AllOf(t, R \ {p}, "ids"), R \ {p}, {p})
      /\ u.byKey = Replaced(t.byKey, AllOf(t, R \ {p}, "keys"), R \ {p}, {p})
      /\ u.byRun = Replaced(t.byRun, AllOf(t, R \ {p}, "runs"), R \ {p}, {p})
  BY DEF Merged
<1>2. c \in Record /\ Sound(c, now)
  BY CombinedSound
<1>3. /\ c.ids = AllOf(t, R, "ids") /\ c.keys = AllOf(t, R, "keys") /\ c.runs = AllOf(t, R, "runs")
  BY DEF Combined
<1> HIDE DEF u, c
<1>4. /\ DOMAIN u.rec = D /\ p \in D /\ u.rec[p] = c /\ D \subseteq DOMAIN t.rec
      /\ \A r \in DOMAIN t.rec \ R : r \in D /\ r # p /\ u.rec[r] = t.rec[r]
      /\ \A r \in D : r = p \/ r \in DOMAIN t.rec \ R
  BY <1>1
<1> HIDE DEF D
<1>5. Recorded(u)
  <2>1. \A r \in DOMAIN u.rec : u.rec[r] \in Record
    BY <1>2, <1>4 DEF TrackerInv, Recorded
  <2>2. DOMAIN u.rec \subseteq Recs
    BY <1>4 DEF TrackerInv, Recorded
  <2>3. u.rec = [r \in DOMAIN u.rec |-> u.rec[r]]
    BY <1>1
  <2>4. QED
    BY <1>1, <2>1, <2>2, <2>3 DEF Recorded
<1>6. Indexed(u)
  <2>1. R \ {p} \subseteq DOMAIN t.rec /\ D = DOMAIN t.rec \ (R \ {p})
    BY DEF D
  <2>2. /\ u.byId = Replaced(IndexOf(Names, DOMAIN t.rec, Ids(t.rec)), HeldBy(Ids(t.rec), R \ {p}), R \ {p}, {p})
        /\ u.byKey = Replaced(IndexOf(Names, DOMAIN t.rec, Keys(t.rec)), HeldBy(Keys(t.rec), R \ {p}), R \ {p}, {p})
        /\ u.byRun = Replaced(IndexOf(Runs, DOMAIN t.rec, RunsOf(t.rec)), HeldBy(RunsOf(t.rec), R \ {p}), R \ {p}, {p})
    BY <1>1, <2>1, AllHeld DEF TrackerInv, Indexed
  <2>3. /\ Ids(u.rec)[p] = HeldBy(Ids(t.rec), R) /\ \A r \in DOMAIN t.rec \ R : Ids(u.rec)[r] = Ids(t.rec)[r]
        /\ Keys(u.rec)[p] = HeldBy(Keys(t.rec), R) /\ \A r \in DOMAIN t.rec \ R : Keys(u.rec)[r] = Keys(t.rec)[r]
        /\ RunsOf(u.rec)[p] = HeldBy(RunsOf(t.rec), R) /\ \A r \in DOMAIN t.rec \ R : RunsOf(u.rec)[r] = RunsOf(t.rec)[r]
    <3>1. /\ Ids(u.rec)[p] = c.ids /\ Keys(u.rec)[p] = c.keys /\ RunsOf(u.rec)[p] = c.runs
      BY <1>4 DEF Ids, Keys, RunsOf
    <3>2. \A r \in DOMAIN t.rec \ R : /\ Ids(u.rec)[r] = Ids(t.rec)[r] /\ Keys(u.rec)[r] = Keys(t.rec)[r]
                                     /\ RunsOf(u.rec)[r] = RunsOf(t.rec)[r]
      BY <1>4 DEF Ids, Keys, RunsOf
    <3>3. QED
      BY <1>3, <3>1, <3>2, AllHeld
  <2>4. u.byId = IndexOf(Names, DOMAIN t.rec \ (R \ {p}), Ids(u.rec))
    BY <2>2, <2>3, IndexMerged
  <2>5. u.byKey = IndexOf(Names, DOMAIN t.rec \ (R \ {p}), Keys(u.rec))
    <3>1. /\ u.byKey = Replaced(IndexOf(Names, DOMAIN t.rec, Keys(t.rec)), HeldBy(Keys(t.rec), R \ {p}), R \ {p}, {p})
          /\ Keys(u.rec)[p] = HeldBy(Keys(t.rec), R) /\ \A r \in DOMAIN t.rec \ R : Keys(u.rec)[r] = Keys(t.rec)[r]
      BY <2>2, <2>3
    <3>2. QED
      BY <3>1, IndexMerged
  <2>6. u.byRun = IndexOf(Runs, DOMAIN t.rec \ (R \ {p}), RunsOf(u.rec))
    BY <2>2, <2>3, IndexMerged
  <2>7. QED
    BY <1>4, <2>1, <2>4, <2>5, <2>6 DEF Indexed
<1>7. \A r \in DOMAIN u.rec : Sound(u.rec[r], now)
  BY <1>2, <1>4 DEF TrackerInv
<1>8. \A r \in DOMAIN t.rec \ R : Apart(c, t.rec[r]) /\ Apart(t.rec[r], c)
  <2>1. \A x \in R : \A r \in DOMAIN t.rec \ R : Apart(t.rec[x], t.rec[r])
    BY DEF TrackerInv
  <2>2. QED
    BY <1>3, <2>1 DEF Apart, AllOf
<1>9. \A r, s \in DOMAIN u.rec : r # s => Apart(u.rec[r], u.rec[s])
  BY <1>4, <1>8 DEF TrackerInv
<1>10. TrackerInv(u, now)
  BY <1>5, <1>6, <1>7, <1>9 DEF TrackerInv
<1>11. QED
  BY <1>4, <1>10 DEF D, u, c, Joined

\* What a query leads to: the records that share a session id, a strong key or the run.
Shares(record, q) ==
  \/ record.ids \cap q.ids # {}
  \/ \E k \in record.keys : k \in AllKeys(q) /\ ~Weak(k)
  \/ q.run \in record.runs

Query == [ids : SUBSET Names, keys : SUBSET Names, run : Runs \cup {NoRun}]

\* What an index entry says, identifier by identifier.
LEMMA Indices ==
  ASSUME NEW t, NEW now, TrackerInv(t, now)
  PROVE  /\ \A n \in Names : t.byId[n] = {r \in DOMAIN t.rec : n \in t.rec[r].ids}
         /\ \A n \in Names : t.byKey[n] = {r \in DOMAIN t.rec : n \in t.rec[r].keys}
         /\ \A n \in Runs : t.byRun[n] = {r \in DOMAIN t.rec : n \in t.rec[r].runs}
BY DEF TrackerInv, Indexed, IndexOf, Ids, Keys, RunsOf

\* findMatchingRecords, strongOnly: the records that share a strong identifier.
LEMMA StrongMeans ==
  ASSUME NEW t, NEW now, TrackerInv(t, now), NEW q \in Query
  PROVE  StrongMatches(t, q) = {r \in DOMAIN t.rec : Shares(t.rec[r], q)}
<1>1. /\ q.ids \subseteq Names /\ AllKeys(q) \subseteq Names
  BY DEF Query, AllKeys
<1>2. \A r \in DOMAIN t.rec : t.rec[r].runs \subseteq Runs
  BY DEF TrackerInv, Recorded, Record
<1>3. ASSUME NEW r \in DOMAIN t.rec
      PROVE  r \in StrongMatches(t, q) <=> Shares(t.rec[r], q)
  <2>1. (\E n \in q.ids : r \in t.byId[n]) <=> t.rec[r].ids \cap q.ids # {}
    BY <1>1, Indices
  <2>2. (\E k \in AllKeys(q) : ~Weak(k) /\ r \in t.byKey[k])
          <=> \E k \in t.rec[r].keys : k \in AllKeys(q) /\ ~Weak(k)
    BY <1>1, Indices
  <2>3. (\E n \in {q.run} \cap Runs : r \in t.byRun[n]) <=> q.run \in t.rec[r].runs
    BY <1>2, Indices
  <2>4. r \in StrongMatches(t, q) <=> \/ \E n \in q.ids : r \in t.byId[n]
                                      \/ \E k \in AllKeys(q) : ~Weak(k) /\ r \in t.byKey[k]
                                      \/ \E n \in {q.run} \cap Runs : r \in t.byRun[n]
    <3> DEFINE A == {t.byId[n] : n \in q.ids}
               B == {t.byKey[k] : k \in {n \in AllKeys(q) : ~Weak(n)}}
               C == {t.byRun[n] : n \in {q.run} \cap Runs}
    <3>1. /\ (\E x \in A : r \in x) <=> \E n \in q.ids : r \in t.byId[n]
          /\ (\E x \in B : r \in x) <=> \E k \in AllKeys(q) : ~Weak(k) /\ r \in t.byKey[k]
          /\ (\E x \in C : r \in x) <=> \E n \in {q.run} \cap Runs : r \in t.byRun[n]
      OBVIOUS
    <3>2. StrongMatches(t, q) = (UNION (A \cup B \cup C)) \cap DOMAIN t.rec
      BY DEF StrongMatches
    <3> HIDE DEF A, B, C
    <3>3. r \in StrongMatches(t, q) <=> (\E x \in A : r \in x) \/ (\E x \in B : r \in x) \/ (\E x \in C : r \in x)
      BY <3>2
    <3>4. QED
      BY <3>1, <3>3
  <2>5. Shares(t.rec[r], q) <=> \/ t.rec[r].ids \cap q.ids # {}
                                \/ \E k \in t.rec[r].keys : k \in AllKeys(q) /\ ~Weak(k)
                                \/ q.run \in t.rec[r].runs
    BY DEF Shares
  <2>6. QED
    BY <2>1, <2>2, <2>3, <2>4, <2>5
<1>4. QED
  BY <1>3 DEF StrongMatches

\* ... and those that share the alias.
LEMMA WeakMeans ==
  ASSUME NEW t, NEW now, TrackerInv(t, now), NEW q \in Query
  PROVE  WeakMatches(t, q) = {r \in DOMAIN t.rec : \E k \in t.rec[r].keys : k \in AllKeys(q) /\ Weak(k)}
<1>1. AllKeys(q) \subseteq Names
  BY DEF Query, AllKeys
<1>2. ASSUME NEW r \in DOMAIN t.rec
      PROVE  r \in WeakMatches(t, q) <=> \E k \in t.rec[r].keys : k \in AllKeys(q) /\ Weak(k)
  <2>1. r \in WeakMatches(t, q) <=> \E k \in AllKeys(q) : Weak(k) /\ r \in t.byKey[k]
    BY DEF WeakMatches
  <2>2. QED
    BY <1>1, <2>1, Indices
<1>3. QED
  BY <1>2 DEF WeakMatches

\* The merged record takes the place of the ones the query led to.
LEMMA CandidatesMerged ==
  ASSUME NEW t, NEW now \in Nat, TrackerInv(t, now), NEW q \in Query, ~Ambiguous(t, q),
         NEW p \in Candidates(t, q)
  PROVE  /\ Candidates(t, q) \subseteq DOMAIN t.rec
         /\ \A r \in DOMAIN Merged(t, p, Candidates(t, q)).rec :
              r # p => ~Shares(Merged(t, p, Candidates(t, q)).rec[r], q)
<1> DEFINE R == Candidates(t, q)
<1>1. R \subseteq DOMAIN t.rec
  BY StrongMeans, WeakMeans DEF Candidates
<1>2. StrongMatches(t, q) \subseteq R
  BY DEF Candidates
<1>3. \A r \in DOMAIN t.rec \ R : ~Shares(t.rec[r], q)
  BY <1>2, StrongMeans
<1> HIDE DEF R
<1>4. /\ DOMAIN Merged(t, p, R).rec = DOMAIN t.rec \ (R \ {p})
      /\ \A r \in DOMAIN t.rec \ R : Merged(t, p, R).rec[r] = t.rec[r]
  BY <1>1, MergedInv DEF R, Joined
<1>5. \A r \in DOMAIN Merged(t, p, R).rec : r # p => ~Shares(Merged(t, p, R).rec[r], q)
  BY <1>3, <1>4
<1>6. QED
  BY <1>1, <1>5 DEF R

\* A fresh record id is one.
LEMMA FreshOne ==
  ASSUME NEW t, NEW now, TrackerInv(t, now), Fresh(t) # {}
  PROVE  Min(Fresh(t)) \in Recs \ DOMAIN t.rec
<1>1. Fresh(t) \subseteq Recs \ DOMAIN t.rec /\ Recs \subseteq Nat
  BY DEF Fresh, Recs
<1>2. PICK x \in Fresh(t) : \A y \in Fresh(t) : ~(y < x)
  BY <1>1, LeastElement
<1>3. \A y \in Fresh(t) : x <= y
  <2>1. x \in Nat /\ \A y \in Fresh(t) : y \in Nat
    BY <1>1
  <2>2. QED
    BY <1>2, <2>1
<1>4. Min(Fresh(t)) \in Fresh(t)
  BY <1>3 DEF Min
<1>5. QED
  BY <1>1, <1>4

Blank == [ids |-> {}, keys |-> {}, runs |-> {}, routes |-> [o \in {} |-> {}]]

\* createRecord adds a record that no index names.
LEMMA CreatedInv ==
  ASSUME NEW t, NEW now, TrackerInv(t, now), NEW p \in Recs \ DOMAIN t.rec
  PROVE  /\ TrackerInv(Created(t, p), now)
         /\ DOMAIN Created(t, p).rec = DOMAIN t.rec \cup {p}
         /\ Created(t, p).rec[p] = Blank
         /\ \A r \in DOMAIN t.rec : Created(t, p).rec[r] = t.rec[r]
<1> DEFINE u == Created(t, p)
<1>1. /\ u = [rec |-> u.rec, byId |-> u.byId, byKey |-> u.byKey, byRun |-> u.byRun]
      /\ u.rec = [r \in DOMAIN t.rec \cup {p} |-> IF r = p THEN Blank ELSE t.rec[r]]
      /\ u.byId = t.byId /\ u.byKey = t.byKey /\ u.byRun = t.byRun
  <2>1. t = [rec |-> t.rec, byId |-> t.byId, byKey |-> t.byKey, byRun |-> t.byRun]
    BY DEF TrackerInv, Recorded
  <2>2. u = [t EXCEPT !.rec = [r \in DOMAIN t.rec \cup {p} |-> IF r = p THEN Blank ELSE t.rec[r]]]
    BY DEF Created, Blank
  <2> HIDE DEF u
  <2>3. QED
    BY <2>1, <2>2
<1> HIDE DEF u
<1>2. /\ DOMAIN u.rec = DOMAIN t.rec \cup {p} /\ u.rec[p] = Blank
      /\ \A r \in DOMAIN t.rec : u.rec[r] = t.rec[r] /\ r # p
  BY <1>1
<1>3. Blank \in Record /\ Sound(Blank, now) /\ \A a : Apart(Blank, a) /\ Apart(a, Blank)
  <2>1. [o \in {} |-> {}] \in RouteMaps
    BY MapOfRoutes
  <2>2. QED
    BY <2>1 DEF Blank, Record, Sound, Apart
<1>4. Recorded(u)
  <2>1. \A r \in DOMAIN u.rec : u.rec[r] \in Record
    BY <1>2, <1>3 DEF TrackerInv, Recorded
  <2>2. u.rec = [r \in DOMAIN u.rec |-> u.rec[r]]
    BY <1>1
  <2>3. DOMAIN u.rec \subseteq Recs
    BY <1>2 DEF TrackerInv, Recorded
  <2>4. QED
    BY <1>1, <2>1, <2>2, <2>3 DEF Recorded
<1>5. Indexed(u)
  <2>1. Blank.ids = {} /\ Blank.keys = {} /\ Blank.runs = {}
    BY DEF Blank
  <2>2. QED
    BY <1>1, <1>2, <2>1 DEF TrackerInv, Indexed, IndexOf, Ids, Keys, RunsOf
<1>6. QED
  BY <1>2, <1>3, <1>4, <1>5 DEF TrackerInv, u

\* What a record becomes when a query and a route are noted in it.
Observed(record, q, route) ==
  [ids |-> record.ids \cup q.ids, keys |-> record.keys \cup AllKeys(q),
   runs |-> record.runs \cup ({q.run} \cap Runs),
   routes |-> MergedRoutes({record.routes,
                [o \in {route} \cap Routes |-> [seen |-> clock, runs |-> {q.run} \cap Runs]]})]

\* ... which is as sound as the record was.
LEMMA ObservedSound ==
  ASSUME clock \in Nat, NEW record \in Record, Sound(record, clock), NEW q \in Query, NEW route
  PROVE  /\ Observed(record, q, route) \in Record /\ Sound(Observed(record, q, route), clock)
         /\ DOMAIN Observed(record, q, route).routes = DOMAIN record.routes \cup ({route} \cap Routes)
<1> DEFINE runs == {q.run} \cap Runs
           seen == [o \in {route} \cap Routes |-> [seen |-> clock, runs |-> runs]]
           maps == {record.routes, seen}
           all == record.runs \cup runs
<1>1. seen \in RouteMaps /\ DOMAIN seen = {route} \cap Routes
  BY MapOfRoutes
<1>2. /\ record.routes \in RouteMaps /\ record.ids \subseteq Names /\ record.keys \subseteq Names
      /\ all \subseteq Runs
  BY DEF Record
<1>3. AllKeys(q) \subseteq Names /\ q.ids \subseteq Names
  BY DEF AllKeys, Query
<1>4. \A m \in maps : \A o \in DOMAIN m : m[o].seen <= clock /\ m[o].runs \subseteq all
  BY DEF Sound
<1>5. Observed(record, q, route) =
        [ids |-> record.ids \cup q.ids, keys |-> record.keys \cup AllKeys(q),
         runs |-> all, routes |-> MergedRoutes(maps)]
  BY DEF Observed
<1>6. maps \subseteq RouteMaps /\ UNION {DOMAIN m : m \in maps} = DOMAIN record.routes \cup ({route} \cap Routes)
  BY <1>1, <1>2
<1> HIDE DEF maps, all
<1>7. /\ MergedRoutes(maps) \in RouteMaps
      /\ DOMAIN MergedRoutes(maps) = UNION {DOMAIN m : m \in maps}
      /\ \A o \in DOMAIN MergedRoutes(maps) :
           MergedRoutes(maps)[o].seen <= clock /\ MergedRoutes(maps)[o].runs \subseteq all
  BY <1>4, <1>6, RoutesMerged
<1>8. \A n \in record.ids \cup q.ids : LooksLikeKey(n) => n \in record.keys \cup AllKeys(q)
  BY DEF Sound, AllKeys
<1>9. QED
  BY <1>2, <1>3, <1>5, <1>6, <1>7, <1>8 DEF Record, Sound

\* Identifiers that no other record shares can be noted.
LEMMA NotedInv ==
  ASSUME clock \in Nat, NEW t, TrackerInv(t, clock), NEW p \in DOMAIN t.rec, NEW q \in Query, NEW route,
         \A r \in DOMAIN t.rec : r # p => ~Shares(t.rec[r], q)
  PROVE  /\ TrackerInv(Noted(t, p, q, route), clock)
         /\ DOMAIN Noted(t, p, q, route).rec = DOMAIN t.rec
         /\ Noted(t, p, q, route).rec[p] = Observed(t.rec[p], q, route)
         /\ \A r \in DOMAIN t.rec \ {p} : Noted(t, p, q, route).rec[r] = t.rec[r]
<1> DEFINE u == Noted(t, p, q, route)
           e == Observed(t.rec[p], q, route)
           runs == {q.run} \cap Runs
<1>1. /\ u = [rec |-> u.rec, byId |-> u.byId, byKey |-> u.byKey, byRun |-> u.byRun]
      /\ u.rec = [t.rec EXCEPT ![p] = e]
      /\ u.byId = Replaced(t.byId, q.ids, {}, {p})
      /\ u.byKey = Replaced(t.byKey, AllKeys(q), {}, {p})
      /\ u.byRun = Replaced(t.byRun, runs, {}, {p})
  BY DEF Noted, Observed
<1>2. e.ids = t.rec[p].ids \cup q.ids /\ e.keys = t.rec[p].keys \cup AllKeys(q) /\ e.runs = t.rec[p].runs \cup runs
  BY DEF Observed
<1>3. t.rec[p] \in Record /\ Sound(t.rec[p], clock)
  BY DEF TrackerInv, Recorded
<1>4. e \in Record /\ Sound(e, clock)
  BY <1>3, ObservedSound
<1> HIDE DEF u, e
<1>5. t.rec = [r \in DOMAIN t.rec |-> t.rec[r]]
  BY DEF TrackerInv, Recorded
<1>6. /\ DOMAIN u.rec = DOMAIN t.rec /\ u.rec[p] = e
      /\ \A r \in DOMAIN t.rec \ {p} : u.rec[r] = t.rec[r]
  BY <1>1, <1>5
<1>7. Recorded(u)
  <2>1. \A r \in DOMAIN u.rec : u.rec[r] \in Record
    BY <1>4, <1>6 DEF TrackerInv, Recorded
  <2>2. u.rec = [r \in DOMAIN u.rec |-> u.rec[r]]
    BY <1>1, <1>5
  <2>3. DOMAIN u.rec \subseteq Recs
    BY <1>6 DEF TrackerInv, Recorded
  <2>4. QED
    BY <1>1, <2>1, <2>2, <2>3 DEF Recorded
<1>8. Indexed(u)
  <2>1. /\ Ids(u.rec)[p] = Ids(t.rec)[p] \cup q.ids
        /\ \A r \in DOMAIN t.rec \ {p} : Ids(u.rec)[r] = Ids(t.rec)[r]
    BY <1>2, <1>6 DEF Ids
  <2>2. /\ Keys(u.rec)[p] = Keys(t.rec)[p] \cup AllKeys(q)
        /\ \A r \in DOMAIN t.rec \ {p} : Keys(u.rec)[r] = Keys(t.rec)[r]
    BY <1>2, <1>6 DEF Keys
  <2>3. /\ RunsOf(u.rec)[p] = RunsOf(t.rec)[p] \cup runs
        /\ \A r \in DOMAIN t.rec \ {p} : RunsOf(u.rec)[r] = RunsOf(t.rec)[r]
    BY <1>2, <1>6 DEF RunsOf
  <2>4. /\ u.byId = Replaced(IndexOf(Names, DOMAIN t.rec, Ids(t.rec)), q.ids, {}, {p})
        /\ u.byKey = Replaced(IndexOf(Names, DOMAIN t.rec, Keys(t.rec)), AllKeys(q), {}, {p})
        /\ u.byRun = Replaced(IndexOf(Runs, DOMAIN t.rec, RunsOf(t.rec)), runs, {}, {p})
    BY <1>1 DEF TrackerInv, Indexed
  <2> HIDE DEF runs
  <2>5. u.byId = IndexOf(Names, DOMAIN t.rec, Ids(u.rec))
    BY <2>1, <2>4, IndexNoted
  <2>6. u.byKey = IndexOf(Names, DOMAIN t.rec, Keys(u.rec))
    BY <2>2, <2>4, IndexNoted
  <2>7. u.byRun = IndexOf(Runs, DOMAIN t.rec, RunsOf(u.rec))
    BY <2>3, <2>4, IndexNoted
  <2>8. QED
    BY <1>6, <2>5, <2>6, <2>7 DEF Indexed
<1>9. ASSUME NEW r \in DOMAIN t.rec \ {p}
      PROVE  Apart(e, t.rec[r]) /\ Apart(t.rec[r], e)
  <2>1. Apart(t.rec[p], t.rec[r]) /\ ~Shares(t.rec[r], q)
    BY DEF TrackerInv
  <2>2. \A k \in t.rec[r].keys : k \in AllKeys(q) => k = Alias
    BY <2>1 DEF Shares, Weak
  <2>3. t.rec[r].ids \cap q.ids = {} /\ t.rec[r].runs \cap runs = {}
    BY <2>1 DEF Shares
  <2>4. QED
    BY <1>2, <2>1, <2>2, <2>3 DEF Apart
<1>10. /\ \A r \in DOMAIN u.rec : Sound(u.rec[r], clock)
       /\ \A r, s \in DOMAIN u.rec : r # s => Apart(u.rec[r], u.rec[s])
  BY <1>4, <1>6, <1>9 DEF TrackerInv
<1>11. QED
  BY <1>6, <1>7, <1>8, <1>10 DEF TrackerInv, u, e

\* The routes of some records expire.
LEMMA PrunedSound ==
  ASSUME NEW record \in Record, NEW now, Sound(record, now)
  PROVE  /\ Pruned(record) \in Record /\ Sound(Pruned(record), now)
         /\ Pruned(record).ids = record.ids /\ Pruned(record).keys = record.keys
         /\ Pruned(record).runs = record.runs
         /\ DOMAIN Pruned(record).routes = {o \in DOMAIN record.routes : clock - record.routes[o].seen <= RouteTtl}
         /\ \A o \in DOMAIN Pruned(record).routes : Pruned(record).routes[o] = record.routes[o]
<1> DEFINE kept == {o \in DOMAIN record.routes : clock - record.routes[o].seen <= RouteTtl}
           routes == [o \in kept |-> record.routes[o]]
<1>1. Pruned(record) = [record EXCEPT !.routes = routes]
  BY DEF Pruned, Restrict
<1>2. record.routes \in RouteMaps
  BY DEF Record
<1>3. routes \in RouteMaps
  BY <1>2, MapOfRoutes
<1>4. DOMAIN routes = kept /\ kept \subseteq DOMAIN record.routes /\ \A o \in kept : routes[o] = record.routes[o]
  OBVIOUS
<1> HIDE DEF routes, kept
<1>5. /\ Pruned(record) \in Record /\ Pruned(record).ids = record.ids /\ Pruned(record).keys = record.keys
      /\ Pruned(record).runs = record.runs /\ Pruned(record).routes = routes
  BY <1>1, <1>3 DEF Record
<1>6. Sound(Pruned(record), now)
  BY <1>4, <1>5 DEF Sound
<1>7. QED
  BY <1>4, <1>5, <1>6 DEF kept

\* Records that change in nothing but their routes leave the indexes alone.
Alike(t, u) ==
  /\ u = [rec |-> u.rec, byId |-> t.byId, byKey |-> t.byKey, byRun |-> t.byRun]
  /\ u.rec = [r \in DOMAIN t.rec |-> u.rec[r]]
  /\ \A r \in DOMAIN t.rec : u.rec[r] = t.rec[r] \/ u.rec[r] = Pruned(t.rec[r])

\* ... and keep the tracker sound.
LEMMA AlikeInv ==
  ASSUME NEW t, NEW now, TrackerInv(t, now), NEW u, Alike(t, u)
  PROVE  /\ TrackerInv(u, now) /\ DOMAIN u.rec = DOMAIN t.rec
         /\ \A r \in DOMAIN t.rec : /\ u.rec[r].ids = t.rec[r].ids /\ u.rec[r].keys = t.rec[r].keys
                                   /\ u.rec[r].runs = t.rec[r].runs
                                   /\ DOMAIN u.rec[r].routes \subseteq DOMAIN t.rec[r].routes
<1>1. /\ DOMAIN u.rec = DOMAIN t.rec
      /\ u = [rec |-> u.rec, byId |-> u.byId, byKey |-> u.byKey, byRun |-> u.byRun]
      /\ u.byId = t.byId /\ u.byKey = t.byKey /\ u.byRun = t.byRun
      /\ u.rec = [r \in DOMAIN u.rec |-> u.rec[r]]
  BY DEF Alike
<1>2. \A r \in DOMAIN t.rec : t.rec[r] \in Record /\ Sound(t.rec[r], now)
  BY DEF TrackerInv, Recorded
<1>3. ASSUME NEW r \in DOMAIN t.rec
      PROVE  /\ u.rec[r].ids = t.rec[r].ids /\ u.rec[r].keys = t.rec[r].keys
             /\ u.rec[r].runs = t.rec[r].runs
             /\ DOMAIN u.rec[r].routes \subseteq DOMAIN t.rec[r].routes
             /\ u.rec[r] \in Record /\ Sound(u.rec[r], now)
  <2>1. CASE u.rec[r] = t.rec[r]
    BY <1>2, <2>1
  <2>2. CASE u.rec[r] = Pruned(t.rec[r])
    BY <1>2, <2>2, PrunedSound
  <2>3. QED
    BY <2>1, <2>2 DEF Alike
<1>4. Recorded(u)
  <2>1. DOMAIN t.rec \subseteq Recs
    BY DEF TrackerInv, Recorded
  <2>2. \A r \in DOMAIN u.rec : u.rec[r] \in Record
    BY <1>1, <1>3
  <2>3. QED
    BY <1>1, <2>1, <2>2 DEF Recorded
<1>5. Indexed(u)
  <2>1. \A r \in DOMAIN t.rec : /\ Ids(u.rec)[r] = Ids(t.rec)[r] /\ Keys(u.rec)[r] = Keys(t.rec)[r]
                                /\ RunsOf(u.rec)[r] = RunsOf(t.rec)[r]
    BY <1>1, <1>3 DEF Ids, Keys, RunsOf
  <2>2. /\ IndexOf(Names, DOMAIN u.rec, Ids(u.rec)) = IndexOf(Names, DOMAIN t.rec, Ids(t.rec))
        /\ IndexOf(Names, DOMAIN u.rec, Keys(u.rec)) = IndexOf(Names, DOMAIN t.rec, Keys(t.rec))
        /\ IndexOf(Runs, DOMAIN u.rec, RunsOf(u.rec)) = IndexOf(Runs, DOMAIN t.rec, RunsOf(t.rec))
    BY <1>1, <2>1 DEF IndexOf
  <2>3. QED
    BY <1>1, <2>2 DEF TrackerInv, Indexed
<1>6. \A p, r \in DOMAIN u.rec : p # r => Apart(u.rec[p], u.rec[r])
  BY <1>1, <1>3 DEF TrackerInv, Apart
<1>7. \A r \in DOMAIN u.rec : Sound(u.rec[r], now)
  BY <1>1, <1>3
<1>8. QED
  BY <1>1, <1>3, <1>4, <1>5, <1>6, <1>7 DEF TrackerInv

-----------------------------------------------------------------------------
(* observeSession *)

\* The tracker right before the identifiers are noted in record p.
Prepared(t, q, v, p) ==
  \/ Candidates(t, q) = {} /\ p \in Recs \ DOMAIN t.rec /\ v = Created(t, p)
  \/ ~Ambiguous(t, q) /\ p \in Candidates(t, q) /\ v = Merged(t, p, Candidates(t, q))

\* observeSession leaves the tracker as it is, or prepares a record and notes the identifiers.
LEMMA ObserveCases ==
  ASSUME NEW t, NEW now, TrackerInv(t, now), NEW q, NEW route, NEW u \in ObserveSession(t, q, route)
  PROVE  \/ u = t /\ (~Observable(t, q) \/ Ambiguous(t, q))
         \/ Observable(t, q) /\ \E v, p : Prepared(t, q, v, p) /\ u = Noted(v, p, q, route)
<1>1. CASE ~Observable(t, q) \/ Ambiguous(t, q)
  BY <1>1 DEF ObserveSession
<1>2. CASE Observable(t, q) /\ ~Ambiguous(t, q) /\ Candidates(t, q) = {}
  <2>1. Fresh(t) # {} /\ u = Noted(Created(t, Min(Fresh(t))), Min(Fresh(t)), q, route)
    BY <1>2 DEF ObserveSession
  <2>2. Prepared(t, q, Created(t, Min(Fresh(t))), Min(Fresh(t)))
    BY <1>2, <2>1, FreshOne DEF Prepared
  <2>3. QED
    BY <1>2, <2>1, <2>2
<1>3. CASE Observable(t, q) /\ ~Ambiguous(t, q) /\ Candidates(t, q) # {}
  <2>1. PICK p \in Candidates(t, q) : u = Noted(Merged(t, p, Candidates(t, q)), p, q, route)
    BY <1>3 DEF ObserveSession
  <2>2. Prepared(t, q, Merged(t, p, Candidates(t, q)), p)
    BY <1>3 DEF Prepared
  <2>3. QED
    BY <1>3, <2>1, <2>2
<1>4. QED
  BY <1>1, <1>2, <1>3

\* No record but the prepared one shares a strong identifier with the query.
LEMMA PreparedInv ==
  ASSUME NEW t, NEW now \in Nat, TrackerInv(t, now), NEW q \in Query, NEW v, NEW p, Prepared(t, q, v, p)
  PROVE  /\ TrackerInv(v, now) /\ p \in DOMAIN v.rec
         /\ \A r \in DOMAIN v.rec \ {p} : r \in DOMAIN t.rec /\ v.rec[r] = t.rec[r] /\ ~Shares(v.rec[r], q)
         /\ \/ v.rec[p] = Blank /\ Candidates(t, q) = {}
            \/ /\ ~Ambiguous(t, q) /\ p \in Candidates(t, q) /\ Candidates(t, q) \subseteq DOMAIN t.rec
               /\ v.rec[p] = Combined(t, p, Candidates(t, q))
<1>1. CASE Candidates(t, q) = {} /\ p \in Recs \ DOMAIN t.rec /\ v = Created(t, p)
  <2>1. \A r \in DOMAIN t.rec : ~Shares(t.rec[r], q)
    BY <1>1, StrongMeans DEF Candidates
  <2>2. QED
    BY <1>1, <2>1, CreatedInv
<1>2. CASE ~Ambiguous(t, q) /\ p \in Candidates(t, q) /\ v = Merged(t, p, Candidates(t, q))
  <2>1. /\ Candidates(t, q) \subseteq DOMAIN t.rec
        /\ \A r \in DOMAIN v.rec : r # p => ~Shares(v.rec[r], q)
    BY <1>2, CandidatesMerged
  <2>2. /\ TrackerInv(v, now)
        /\ DOMAIN v.rec = DOMAIN t.rec \ (Candidates(t, q) \ {p})
        /\ v.rec[p] = Combined(t, p, Candidates(t, q))
        /\ \A r \in DOMAIN t.rec \ Candidates(t, q) : v.rec[r] = t.rec[r]
    <3> DEFINE R == Candidates(t, q)
    <3>0. v = Merged(t, p, R)
      BY <1>2
    <3>1. R \subseteq DOMAIN t.rec /\ p \in R
      BY <1>2, <2>1
    <3> HIDE DEF R
    <3>2. TrackerInv(v, now) /\ Joined(t, v, p, R)
      BY <3>0, <3>1, MergedInv
    <3>3. QED
      BY <3>2 DEF R, Joined
  <2>3. QED
    BY <1>2, <2>1, <2>2
<1>3. QED
  BY <1>1, <1>2 DEF Prepared

AllNames(t) == UNION {t.rec[r].ids \cup t.rec[r].keys : r \in DOMAIN t.rec}

\* The three of a record that Observed describes.
LEMMA ObservedNames ==
  ASSUME NEW record, NEW q \in Query, NEW route
  PROVE  /\ Observed(record, q, route).ids = record.ids \cup q.ids
         /\ Observed(record, q, route).keys = record.keys \cup AllKeys(q)
         /\ Observed(record, q, route).runs = record.runs \cup ({q.run} \cap Runs)
         /\ q.keys \subseteq AllKeys(q) /\ AllKeys(q) \subseteq q.ids \cup q.keys
BY DEF Observed, AllKeys

\* observeSession keeps the tracker sound, and invents no name.
LEMMA ObserveInv ==
  ASSUME clock \in Nat, NEW t, TrackerInv(t, clock), Named(t, DOMAIN t.rec),
         NEW q \in Query, q.ids \cup q.keys # {}, NEW route, NEW u \in ObserveSession(t, q, route)
  PROVE  /\ TrackerInv(u, clock) /\ Named(u, DOMAIN u.rec)
         /\ AllNames(u) \subseteq AllNames(t) \cup q.ids \cup q.keys
<1>1. CASE u = t
  BY <1>1
<1>2. ASSUME NEW v, NEW p, Prepared(t, q, v, p), u = Noted(v, p, q, route)
      PROVE  /\ TrackerInv(u, clock) /\ Named(u, DOMAIN u.rec)
             /\ AllNames(u) \subseteq AllNames(t) \cup q.ids \cup q.keys
  <2>1. /\ TrackerInv(v, clock) /\ p \in DOMAIN v.rec
        /\ \A r \in DOMAIN v.rec \ {p} : r \in DOMAIN t.rec /\ v.rec[r] = t.rec[r] /\ ~Shares(v.rec[r], q)
        /\ \/ v.rec[p] = Blank /\ Candidates(t, q) = {}
           \/ /\ ~Ambiguous(t, q) /\ p \in Candidates(t, q) /\ Candidates(t, q) \subseteq DOMAIN t.rec
              /\ v.rec[p] = Combined(t, p, Candidates(t, q))
    BY <1>2, PreparedInv
  <2>2. /\ TrackerInv(u, clock) /\ DOMAIN u.rec = DOMAIN v.rec
        /\ u.rec[p] = Observed(v.rec[p], q, route)
        /\ \A r \in DOMAIN v.rec \ {p} : u.rec[r] = v.rec[r]
    BY <1>2, <2>1, NotedInv
  <2>3. v.rec[p].ids \cup v.rec[p].keys \subseteq AllNames(t)
    BY <2>1 DEF Blank, Combined, AllOf, AllNames
  <2>4. /\ u.rec[p].ids \cup u.rec[p].keys # {}
        /\ u.rec[p].ids \cup u.rec[p].keys \subseteq AllNames(t) \cup q.ids \cup q.keys
    BY <2>2, <2>3, ObservedNames
  <2>5. ASSUME NEW r \in DOMAIN u.rec \ {p}
        PROVE  u.rec[r].ids \cup u.rec[r].keys # {} /\ u.rec[r].ids \cup u.rec[r].keys \subseteq AllNames(t)
    <3>1. r \in DOMAIN t.rec /\ u.rec[r] = t.rec[r]
      BY <2>1, <2>2
    <3>2. QED
      BY <3>1 DEF AllNames, Named
  <2>6. Named(u, DOMAIN u.rec)
    BY <2>4, <2>5 DEF Named
  <2>7. AllNames(u) \subseteq AllNames(t) \cup q.ids \cup q.keys
    <3>1. ASSUME NEW n \in AllNames(u) PROVE n \in AllNames(t) \cup q.ids \cup q.keys
      <4>1. PICK r \in DOMAIN u.rec : n \in u.rec[r].ids \cup u.rec[r].keys
        BY DEF AllNames
      <4>2. QED
        BY <2>4, <2>5, <4>1
    <3>2. QED
      BY <3>1
  <2>8. QED
    BY <2>2, <2>6, <2>7
<1>3. QED
  BY <1>1, <1>2, ObserveCases

-----------------------------------------------------------------------------
(* Whose records are *)

NamesOf(s) == {Id(s), Key(s)}

\* The record is one of session s, and of no other.
Of(record, s) ==
  /\ record.ids \subseteq NamesOf(s) /\ record.keys \subseteq NamesOf(s) \cup {Alias}
  /\ \A n \in record.runs : RunOf[n] = s
  /\ \A o \in DOMAIN record.routes : RouteOf[o] = s

Separate(t) == \A r \in DOMAIN t.rec : \E s \in Sessions : Of(t.rec[r], s)

\* The query is one of session s, which does not take the alias for an id.
Asks(q, s) ==
  /\ q.ids \subseteq NamesOf(s) /\ q.keys \subseteq NamesOf(s) \cup {Alias}
  /\ q.run \in Runs => RunOf[q.run] = s

\* The alias alone leads to the record.
ByAliasAlone(t, q) == Cardinality(WeakMatches(t, q)) = 1 /\ StrongMatches(t, q) = {}

\* A name is one of one session, and the alias of none.
LEMMA OwnNames == \A x, y : /\ NamesOf(x) \cap NamesOf(y) # {} => x = y
                            /\ x # Nobody => Alias \notin NamesOf(x)
BY DEF NamesOf, Id, Key, Alias

\* The alias is the name of no session.
LEMMA AliasIsNoName == \A s \in Sessions : Alias \notin NamesOf(s)
BY OwnNames, SessionConstants DEF SessionConstants

\* A record that shares a strong identifier with a query of s is one of s.
LEMMA SharedOwner ==
  ASSUME NEW record, NEW s, NEW x, Of(record, x), NEW q \in Query, Asks(q, s), Shares(record, q),
         record.runs \subseteq Runs
  PROVE  x = s
<1>1. AllKeys(q) \subseteq NamesOf(s) \cup {Alias}
  BY DEF AllKeys, Asks
<1>2. CASE record.ids \cap q.ids # {}
  BY <1>2, OwnNames DEF Of, Asks
<1>3. CASE \E k \in record.keys : k \in AllKeys(q) /\ ~Weak(k)
  BY <1>1, <1>3, OwnNames DEF Of, Weak
<1>4. CASE q.run \in record.runs
  BY <1>4 DEF Of, Asks
<1>5. QED
  BY <1>2, <1>3, <1>4 DEF Shares

\* The record that several of s become is one of s.
LEMMA CombinedOwner ==
  ASSUME NEW t, NEW R, NEW p, NEW s, \A r \in R : Of(t.rec[r], s), \A r \in R : t.rec[r] \in Record
  PROVE  Of(Combined(t, p, R), s)
<1> DEFINE c == Combined(t, p, R)
           maps == {t.rec[r].routes : r \in R}
<1>1. /\ c.ids = AllOf(t, R, "ids") /\ c.keys = AllOf(t, R, "keys") /\ c.runs = AllOf(t, R, "runs")
      /\ c.routes = MergedRoutes(maps)
  BY DEF Combined
<1>2. DOMAIN MergedRoutes(maps) = UNION {DOMAIN m : m \in maps}
  BY DEF MergedRoutes
<1>3. \A o \in UNION {DOMAIN m : m \in maps} : RouteOf[o] = s
  BY DEF Of
<1> HIDE DEF c, maps
<1>4. \A o \in DOMAIN c.routes : RouteOf[o] = s
  BY <1>1, <1>2, <1>3
<1>5. /\ AllOf(t, R, "ids") \subseteq NamesOf(s) /\ AllOf(t, R, "keys") \subseteq NamesOf(s) \cup {Alias}
      /\ \A n \in AllOf(t, R, "runs") : RunOf[n] = s
  BY DEF AllOf, Of
<1>6. QED
  BY <1>1, <1>4, <1>5 DEF Of, c

\* A record of s stays one of s when it is observed for s.
LEMMA ObservedOwner ==
  ASSUME clock \in Nat, NEW record \in Record, Sound(record, clock), NEW s, Of(record, s),
         NEW q \in Query, Asks(q, s), NEW route, route \in Routes => RouteOf[route] = s
  PROVE  Of(Observed(record, q, route), s)
<1>1. DOMAIN Observed(record, q, route).routes = DOMAIN record.routes \cup ({route} \cap Routes)
  BY ObservedSound
<1>2. AllKeys(q) \subseteq NamesOf(s) \cup {Alias}
  BY DEF AllKeys, Asks
<1>3. QED
  BY <1>1, <1>2, ObservedNames DEF Of, Asks

\* Unless the alias alone leads to it, a record that a query of s leads to is one of s.
LEMMA CandidatesOwned ==
  ASSUME NEW t, NEW now, TrackerInv(t, now), Separate(t), NEW q \in Query, NEW s, Asks(q, s),
         ~Ambiguous(t, q), ~ByAliasAlone(t, q)
  PROVE  \A r \in Candidates(t, q) : r \in DOMAIN t.rec /\ Of(t.rec[r], s)
<1>1. CASE StrongMatches(t, q) # {}
  <2>1. ASSUME NEW r \in Candidates(t, q) PROVE r \in DOMAIN t.rec /\ Of(t.rec[r], s)
    <3>1. r \in DOMAIN t.rec /\ Shares(t.rec[r], q)
      BY <1>1, StrongMeans DEF Candidates
    <3>2. PICK x \in Sessions : Of(t.rec[r], x)
      BY <3>1 DEF Separate
    <3>3. t.rec[r].runs \subseteq Runs
      BY <3>1 DEF TrackerInv, Recorded, Record
    <3>4. QED
      BY <3>1, <3>2, <3>3, SharedOwner
  <2>2. QED
    BY <2>1
<1>2. CASE StrongMatches(t, q) = {}
  <2>1. WeakMatches(t, q) \subseteq Recs /\ IsFiniteSet(Recs)
    <3>1. IsFiniteSet(Recs)
      BY FiniteRecs
    <3>2. DOMAIN t.rec \subseteq Recs
      BY DEF TrackerInv, Recorded
    <3>3. QED
      BY <3>1, <3>2 DEF WeakMatches
  <2>2. IsFiniteSet(WeakMatches(t, q)) /\ Cardinality(WeakMatches(t, q)) \in Nat
    BY <2>1, FS_Subset, FS_CardinalityType
  <2>3. Cardinality(WeakMatches(t, q)) = 0
    BY <1>2, <2>2 DEF Ambiguous, ByAliasAlone
  <2>4. WeakMatches(t, q) = {}
    BY <2>2, <2>3, FS_EmptySet
  <2>5. QED
    BY <1>2, <2>4 DEF Candidates
<1>3. QED
  BY <1>1, <1>2

\* Unless the alias alone leads to a record, observeSession mixes no sessions.
LEMMA ObserveSeparate ==
  ASSUME clock \in Nat, NEW t, TrackerInv(t, clock), Separate(t),
         NEW q \in Query, NEW s \in Sessions, Asks(q, s), ~ByAliasAlone(t, q),
         NEW route, route \in Routes => RouteOf[route] = s, NEW u \in ObserveSession(t, q, route)
  PROVE  Separate(u)
<1>1. CASE u = t
  BY <1>1
<1>2. ASSUME NEW v, NEW p, Prepared(t, q, v, p), u = Noted(v, p, q, route)
      PROVE  Separate(u)
  <2>1. /\ TrackerInv(v, clock) /\ p \in DOMAIN v.rec
        /\ \A r \in DOMAIN v.rec \ {p} : r \in DOMAIN t.rec /\ v.rec[r] = t.rec[r] /\ ~Shares(v.rec[r], q)
        /\ \/ v.rec[p] = Blank /\ Candidates(t, q) = {}
           \/ /\ ~Ambiguous(t, q) /\ p \in Candidates(t, q) /\ Candidates(t, q) \subseteq DOMAIN t.rec
              /\ v.rec[p] = Combined(t, p, Candidates(t, q))
    BY <1>2, PreparedInv
  <2>2. /\ DOMAIN u.rec = DOMAIN v.rec
        /\ u.rec[p] = Observed(v.rec[p], q, route)
        /\ \A r \in DOMAIN v.rec \ {p} : u.rec[r] = v.rec[r]
    BY <1>2, <2>1, NotedInv
  <2>3. Of(v.rec[p], s)
    <3>1. CASE v.rec[p] = Blank
      BY <3>1 DEF Blank, Of
    <3>2. CASE /\ ~Ambiguous(t, q) /\ p \in Candidates(t, q) /\ Candidates(t, q) \subseteq DOMAIN t.rec
               /\ v.rec[p] = Combined(t, p, Candidates(t, q))
      <4>1. \A r \in Candidates(t, q) : r \in DOMAIN t.rec /\ Of(t.rec[r], s)
        BY <3>2, CandidatesOwned
      <4>2. \A r \in Candidates(t, q) : t.rec[r] \in Record
        BY <4>1 DEF TrackerInv, Recorded
      <4>3. QED
        BY <3>2, <4>1, <4>2, CombinedOwner
    <3>3. QED
      BY <2>1, <3>1, <3>2
  <2>4. v.rec[p] \in Record /\ Sound(v.rec[p], clock)
    BY <2>1 DEF TrackerInv, Recorded
  <2>5. Of(u.rec[p], s)
    BY <2>2, <2>3, <2>4, ObservedOwner
  <2>6. \A r \in DOMAIN u.rec \ {p} : \E x \in Sessions : Of(u.rec[r], x)
    BY <2>1, <2>2 DEF Separate
  <2>7. QED
    BY <2>5, <2>6 DEF Separate
<1>3. QED
  BY <1>1, <1>2, ObserveCases

\* What was observed is found by its strong identifiers.
LEMMA ObservedFound ==
  ASSUME clock \in Nat, NEW t, TrackerInv(t, clock), NEW q \in Query, NEW route,
         NEW u \in ObserveSession(t, q, route), ~ByAliasAlone(t, q)
  PROVE  ~ByAliasAlone(u, q)
<1>1. CASE u = t
  BY <1>1
<1>2. ASSUME Observable(t, q), NEW v, NEW p, Prepared(t, q, v, p), u = Noted(v, p, q, route)
      PROVE  ~ByAliasAlone(u, q)
  <2>1. /\ TrackerInv(v, clock) /\ p \in DOMAIN v.rec
        /\ \A r \in DOMAIN v.rec \ {p} : ~Shares(v.rec[r], q)
    BY <1>2, PreparedInv
  <2>2. /\ TrackerInv(u, clock) /\ DOMAIN u.rec = DOMAIN v.rec
        /\ u.rec[p] = Observed(v.rec[p], q, route)
    BY <1>2, <2>1, NotedInv
  <2>3. /\ q.ids \subseteq u.rec[p].ids /\ AllKeys(q) \subseteq u.rec[p].keys /\ q.keys \subseteq AllKeys(q)
        /\ {q.run} \cap Runs \subseteq u.rec[p].runs
    <3> DEFINE e == Observed(v.rec[p], q, route)
    <3>1. /\ e.ids = v.rec[p].ids \cup q.ids /\ e.keys = v.rec[p].keys \cup AllKeys(q)
          /\ e.runs = v.rec[p].runs \cup ({q.run} \cap Runs) /\ q.keys \subseteq AllKeys(q)
      BY ObservedNames
    <3> HIDE DEF e
    <3>2. QED
      BY <2>2, <3>1 DEF e
  <2>4. Shares(u.rec[p], q)
    BY <1>2, <2>3 DEF Observable, Shares
  <2>5. p \in StrongMatches(u, q)
    BY <2>1, <2>2, <2>4, StrongMeans
  <2>6. QED
    BY <2>5 DEF ByAliasAlone
<1>3. QED
  BY <1>1, <1>2, ObserveCases

-----------------------------------------------------------------------------
(* getSessionProvenance *)

\* Records that become one have no new names.
LEMMA JoinedNames ==
  ASSUME NEW t, Named(t, DOMAIN t.rec), NEW R, R \subseteq DOMAIN t.rec, NEW p \in R, NEW u, Joined(t, u, p, R)
  PROVE  Named(u, DOMAIN u.rec) /\ AllNames(u) \subseteq AllNames(t) /\ p \in DOMAIN u.rec
<1>1. /\ u.rec[p].ids = AllOf(t, R, "ids") /\ u.rec[p].keys = AllOf(t, R, "keys")
      /\ p \in DOMAIN u.rec
  BY DEF Joined, Combined
<1>2. u.rec[p].ids \cup u.rec[p].keys # {} /\ u.rec[p].ids \cup u.rec[p].keys \subseteq AllNames(t)
  <2>1. /\ \A n \in AllOf(t, R, "ids") : \E r \in R : n \in t.rec[r].ids
        /\ \A n \in AllOf(t, R, "keys") : \E r \in R : n \in t.rec[r].keys
        /\ t.rec[p].ids \subseteq AllOf(t, R, "ids") /\ t.rec[p].keys \subseteq AllOf(t, R, "keys")
    BY DEF AllOf
  <2>2. t.rec[p].ids \cup t.rec[p].keys # {}
    BY DEF Named
  <2>3. \A r \in R : t.rec[r].ids \subseteq AllNames(t) /\ t.rec[r].keys \subseteq AllNames(t)
    BY DEF AllNames
  <2>4. QED
    BY <1>1, <2>1, <2>2, <2>3
<1>3. ASSUME NEW r \in DOMAIN u.rec, r # p
      PROVE  u.rec[r].ids \cup u.rec[r].keys # {} /\ u.rec[r].ids \cup u.rec[r].keys \subseteq AllNames(t)
  <2>1. r \in DOMAIN t.rec /\ u.rec[r] = t.rec[r]
    BY <1>3 DEF Joined
  <2>2. QED
    BY <2>1 DEF Named, AllNames
<1>4. Named(u, DOMAIN u.rec)
  BY <1>2, <1>3 DEF Named
<1>5. \A n \in AllNames(u) : n \in AllNames(t)
  BY <1>2, <1>3 DEF AllNames
<1>6. QED
  BY <1>1, <1>4, <1>5

\* Records that differ in their routes only have the same names.
LEMMA AlikeNames ==
  ASSUME NEW t, NEW now, TrackerInv(t, now), Named(t, DOMAIN t.rec), NEW u, Alike(t, u)
  PROVE  Named(u, DOMAIN u.rec) /\ AllNames(u) = AllNames(t)
<1>1. /\ DOMAIN u.rec = DOMAIN t.rec
      /\ \A r \in DOMAIN t.rec : u.rec[r].ids = t.rec[r].ids /\ u.rec[r].keys = t.rec[r].keys
  BY AlikeInv
<1>2. QED
  BY <1>1 DEF Named, AllNames

\* What an ambiguous query does to the routes.
LEMMA AmbiguousProvenance ==
  ASSUME NEW t, NEW now, TrackerInv(t, now), NEW q, Ambiguous(t, q), NEW a \in GetSessionProvenance(t, q)
  PROVE  Alike(t, a.tracker) /\ a.route = NoRoute
<1> DEFINE rec == [r \in DOMAIN t.rec |-> IF r \in WeakMatches(t, q) THEN Pruned(t.rec[r]) ELSE t.rec[r]]
           u == [t EXCEPT !.rec = rec]
<1>1. a.tracker = u /\ a.route = NoRoute
  BY DEF GetSessionProvenance, NoProvenance
<1>2. t = [rec |-> t.rec, byId |-> t.byId, byKey |-> t.byKey, byRun |-> t.byRun]
  BY DEF TrackerInv, Recorded
<1>3. /\ rec = [r \in DOMAIN t.rec |-> rec[r]]
      /\ \A r \in DOMAIN t.rec : rec[r] = t.rec[r] \/ rec[r] = Pruned(t.rec[r])
  OBVIOUS
<1> HIDE DEF rec
<1>4. u = [rec |-> rec, byId |-> t.byId, byKey |-> t.byKey, byRun |-> t.byRun]
  BY <1>2
<1>5. QED
  BY <1>1, <1>3, <1>4 DEF Alike

\* The answer for a primary record: its routes that are not too old are the only ones told.
LEMMA ProvenanceOfRecord ==
  ASSUME clock \in Nat, NEW t, TrackerInv(t, clock), NEW q, NEW p \in Candidates(t, q),
         Candidates(t, q) \subseteq DOMAIN t.rec, NEW a, a = Provenance(t, p, q)
  PROVE  \E m : /\ TrackerInv(m, clock) /\ Joined(t, m, p, Candidates(t, q)) /\ Alike(m, a.tracker)
                /\ \/ a.route = NoRoute
                   \/ a.route \in DOMAIN Pruned(m.rec[p]).routes /\ a.age = clock - m.rec[p].routes[a.route].seen
<1> DEFINE R == Candidates(t, q)
           m == Merged(t, p, R)
           e == Pruned(m.rec[p])
           u == [m EXCEPT !.rec[p] = e]
           found == RouteCandidates(u.rec[p], q.run)
<1>1. TrackerInv(m, clock) /\ Joined(t, m, p, R)
  <2> HIDE DEF R
  <2>1. R \subseteq DOMAIN t.rec /\ p \in R
    BY DEF R
  <2>2. QED
    BY <2>1, MergedInv
<1>2. /\ a.tracker = u
      /\ a.route = IF Cardinality(found) = 1 THEN CHOOSE o \in found : TRUE ELSE NoRoute
      /\ a.age = IF Cardinality(found) = 1 THEN clock - u.rec[p].routes[CHOOSE o \in found : TRUE].seen ELSE 0
  BY DEF Provenance
<1>3. p \in DOMAIN m.rec
  BY <1>1 DEF Joined
<1> HIDE DEF m, found
<1>4. /\ m = [rec |-> m.rec, byId |-> m.byId, byKey |-> m.byKey, byRun |-> m.byRun]
      /\ m.rec = [r \in DOMAIN m.rec |-> m.rec[r]] /\ m.rec[p] \in Record /\ Sound(m.rec[p], clock)
  BY <1>1, <1>3 DEF TrackerInv, Recorded
<1> HIDE DEF e
<1>5. /\ u = [rec |-> [m.rec EXCEPT ![p] = e], byId |-> m.byId, byKey |-> m.byKey, byRun |-> m.byRun]
      /\ u.rec[p] = e /\ u.rec = [m.rec EXCEPT ![p] = e]
  BY <1>3, <1>4
<1>6. Alike(m, u)
  <2>1. /\ u.rec = [r \in DOMAIN m.rec |-> u.rec[r]]
        /\ \A r \in DOMAIN m.rec : u.rec[r] = m.rec[r] \/ u.rec[r] = e
    BY <1>3, <1>4, <1>5
  <2> HIDE DEF u
  <2>2. u = [rec |-> u.rec, byId |-> m.byId, byKey |-> m.byKey, byRun |-> m.byRun]
    BY <1>5
  <2>3. QED
    BY <1>3, <1>5, <2>1, <2>2 DEF Alike, e
<1> HIDE DEF u
<1>7. ASSUME Cardinality(found) = 1
      PROVE  a.route \in DOMAIN e.routes /\ a.age = clock - m.rec[p].routes[a.route].seen
  <2>1. found # {}
    BY <1>7, FS_EmptySet
  <2>2. found \subseteq DOMAIN e.routes
    BY <1>5 DEF found, RouteCandidates
  <2>3. a.route \in found /\ a.age = clock - e.routes[a.route].seen
    BY <1>2, <1>5, <1>7, <2>1
  <2>4. e.routes[a.route] = m.rec[p].routes[a.route]
    BY <1>4, <2>2, <2>3, PrunedSound DEF e
  <2>5. QED
    BY <2>2, <2>3, <2>4
<1>8. QED
  BY <1>1, <1>2, <1>6, <1>7 DEF e, R

\* The tracker after the call is as sound as before and has no new names, and a route that
\* is told has been seen in time.
LEMMA ProvenanceInv ==
  ASSUME clock \in Nat, NEW t, TrackerInv(t, clock), Named(t, DOMAIN t.rec), NEW q \in Query,
         NEW a \in GetSessionProvenance(t, q)
  PROVE  /\ TrackerInv(a.tracker, clock) /\ Named(a.tracker, DOMAIN a.tracker.rec)
         /\ AllNames(a.tracker) \subseteq AllNames(t)
         /\ a.route # NoRoute => a.age <= RouteTtl
<1>1. CASE Ambiguous(t, q)
  BY <1>1, AmbiguousProvenance, AlikeInv, AlikeNames
<1>2. CASE ~Ambiguous(t, q) /\ Candidates(t, q) = {}
  BY <1>2 DEF GetSessionProvenance, NoProvenance
<1>3. ASSUME NEW p \in Candidates(t, q), a = Provenance(t, p, q)
      PROVE  /\ TrackerInv(a.tracker, clock) /\ Named(a.tracker, DOMAIN a.tracker.rec)
             /\ AllNames(a.tracker) \subseteq AllNames(t)
             /\ a.route # NoRoute => a.age <= RouteTtl
  <2>1. Candidates(t, q) \subseteq DOMAIN t.rec
    BY DEF Candidates, StrongMatches, WeakMatches
  <2>2. PICK m : /\ TrackerInv(m, clock) /\ Joined(t, m, p, Candidates(t, q)) /\ Alike(m, a.tracker)
                 /\ \/ a.route = NoRoute
                    \/ a.route \in DOMAIN Pruned(m.rec[p]).routes /\ a.age = clock - m.rec[p].routes[a.route].seen
    BY <1>3, <2>1, ProvenanceOfRecord
  <2>3. Named(m, DOMAIN m.rec) /\ AllNames(m) \subseteq AllNames(t) /\ p \in DOMAIN m.rec
    BY <2>1, <2>2, JoinedNames
  <2>4. /\ TrackerInv(a.tracker, clock) /\ Named(a.tracker, DOMAIN a.tracker.rec)
        /\ AllNames(a.tracker) = AllNames(m)
    BY <2>2, <2>3, AlikeInv, AlikeNames
  <2>5. a.route # NoRoute => a.age <= RouteTtl
    <3>1. m.rec[p] \in Record /\ Sound(m.rec[p], clock)
      BY <2>2, <2>3 DEF TrackerInv, Recorded
    <3>2. QED
      BY <2>2, <3>1, PrunedSound
  <2>6. QED
    BY <2>3, <2>4, <2>5
<1>4. QED
  BY <1>1, <1>2, <1>3 DEF GetSessionProvenance

\* ... and, unless the alias alone leads to a record, it is one of the session that asks.
LEMMA ProvenanceSeparate ==
  ASSUME clock \in Nat, NEW t, TrackerInv(t, clock), Separate(t),
         NEW q \in Query, NEW s \in Sessions, Asks(q, s), ~ByAliasAlone(t, q),
         NEW a \in GetSessionProvenance(t, q)
  PROVE  Separate(a.tracker) /\ (a.route # NoRoute => RouteOf[a.route] = s)
<1>0. ASSUME NEW v, NEW u, TrackerInv(v, clock), Separate(v), Alike(v, u)
      PROVE  Separate(u)
  <2>1. /\ DOMAIN u.rec = DOMAIN v.rec
        /\ \A r \in DOMAIN v.rec : /\ u.rec[r].ids = v.rec[r].ids /\ u.rec[r].keys = v.rec[r].keys
                                   /\ u.rec[r].runs = v.rec[r].runs
                                   /\ DOMAIN u.rec[r].routes \subseteq DOMAIN v.rec[r].routes
    BY <1>0, AlikeInv
  <2>2. QED
    BY <1>0, <2>1 DEF Separate, Of
<1>1. CASE Ambiguous(t, q)
  BY <1>0, <1>1, AmbiguousProvenance
<1>2. CASE ~Ambiguous(t, q) /\ Candidates(t, q) = {}
  BY <1>2 DEF GetSessionProvenance, NoProvenance
<1>3. ASSUME ~Ambiguous(t, q), NEW p \in Candidates(t, q), a = Provenance(t, p, q)
      PROVE  Separate(a.tracker) /\ (a.route # NoRoute => RouteOf[a.route] = s)
  <2>1. Candidates(t, q) \subseteq DOMAIN t.rec
    BY DEF Candidates, StrongMatches, WeakMatches
  <2>2. PICK m : /\ TrackerInv(m, clock) /\ Joined(t, m, p, Candidates(t, q)) /\ Alike(m, a.tracker)
                 /\ \/ a.route = NoRoute
                    \/ a.route \in DOMAIN Pruned(m.rec[p]).routes /\ a.age = clock - m.rec[p].routes[a.route].seen
    BY <1>3, <2>1, ProvenanceOfRecord
  <2>3. \A r \in Candidates(t, q) : Of(t.rec[r], s)
    BY <1>3, CandidatesOwned
  <2>4. \A r \in Candidates(t, q) : t.rec[r] \in Record
    BY <2>1 DEF TrackerInv, Recorded
  <2>5. /\ p \in DOMAIN m.rec /\ m.rec[p] = Combined(t, p, Candidates(t, q))
        /\ \A r \in DOMAIN m.rec : r # p => r \in DOMAIN t.rec /\ m.rec[r] = t.rec[r]
    BY <2>1, <2>2 DEF Joined
  <2>6. Of(m.rec[p], s)
    BY <2>3, <2>4, <2>5, CombinedOwner
  <2>7. Separate(m)
    BY <2>5, <2>6 DEF Separate
  <2>8. m.rec[p] \in Record /\ Sound(m.rec[p], clock)
    BY <2>2, <2>5 DEF TrackerInv, Recorded
  <2>9. a.route # NoRoute => RouteOf[a.route] = s
    BY <2>2, <2>6, <2>8, PrunedSound DEF Of
  <2>10. QED
    BY <1>0, <2>2, <2>7, <2>9
<1>4. QED
  BY <1>1, <1>2, <1>3 DEF GetSessionProvenance

-----------------------------------------------------------------------------
(* endSession *)

\* endSession only removes records.
LEMMA EndSessionInv ==
  ASSUME NEW t, NEW now, TrackerInv(t, now), Named(t, DOMAIN t.rec), NEW n
  PROVE  /\ TrackerInv(EndSession(t, n), now) /\ Named(EndSession(t, n), DOMAIN EndSession(t, n).rec)
         /\ DOMAIN EndSession(t, n).rec \subseteq DOMAIN t.rec
         /\ \A r \in DOMAIN EndSession(t, n).rec : EndSession(t, n).rec[r] = t.rec[r]
<1>1. CASE Ambiguous(t, Lookup(n))
  BY <1>1 DEF EndSession
<1>2. CASE ~Ambiguous(t, Lookup(n))
  <2> DEFINE R == Candidates(t, Lookup(n))
             u == EndSession(t, n)
  <2>1. R \subseteq DOMAIN t.rec
    BY DEF Candidates, StrongMatches, WeakMatches
  <2>2. u = Removed(t, R)
    BY <1>2 DEF EndSession
  <2> HIDE DEF R, u
  <2>3. /\ TrackerInv(u, now) /\ DOMAIN u.rec = DOMAIN t.rec \ R
        /\ \A r \in DOMAIN t.rec \ R : u.rec[r] = t.rec[r]
    BY <2>1, <2>2, RemovedInv
  <2>4. QED
    BY <2>3 DEF Named, u
<1>3. QED
  BY <1>1, <1>2

\* Nothing that the identifier leads to, nothing that changes.
LEMMA NothingEnded ==
  ASSUME NEW t, NEW now, TrackerInv(t, now)
  PROVE  Removed(t, {}) = t
<1>1. t = [rec |-> t.rec, byId |-> t.byId, byKey |-> t.byKey, byRun |-> t.byRun]
  BY DEF TrackerInv, Recorded
<1>2. t.rec = [r \in DOMAIN t.rec |-> t.rec[r]]
  BY DEF TrackerInv, Recorded
<1>3. /\ Replaced(t.byId, {}, {}, {}) = t.byId /\ Replaced(t.byKey, {}, {}, {}) = t.byKey
      /\ Replaced(t.byRun, {}, {}, {}) = t.byRun
  BY DEF TrackerInv, Indexed, IndexOf, Replaced
<1>4. /\ AllOf(t, {}, "ids") = {} /\ AllOf(t, {}, "keys") = {} /\ AllOf(t, {}, "runs") = {}
  BY DEF AllOf
<1>5. Restrict(t.rec, DOMAIN t.rec \ {}) = t.rec
  BY <1>2 DEF Restrict
<1>6. QED
  BY <1>1, <1>3, <1>4, <1>5 DEF Removed

\* An identifier of a session leads to the records that hold it.
LEMMA EndSessionFinds ==
  ASSUME NEW t, NEW now, TrackerInv(t, now), NEW n \in Names, ~Weak(n)
  PROVE  EndSession(t, n) = Removed(t, {r \in DOMAIN t.rec : n \in t.rec[r].ids \cup t.rec[r].keys})
<1> DEFINE q == Lookup(n)
           found == {r \in DOMAIN t.rec : n \in t.rec[r].ids \cup t.rec[r].keys}
<1>1. q \in Query /\ AllKeys(q) = {n} /\ q.ids = {n} /\ q.run = NoRun
  BY DEF Lookup, Query, AllKeys
<1>2. \A r \in DOMAIN t.rec : t.rec[r].runs \subseteq Runs /\ NoRun \notin t.rec[r].runs
  BY SessionConstants DEF TrackerInv, Recorded, Record, SessionConstants
<1> HIDE DEF q
<1>3. WeakMatches(t, q) = {}
  BY <1>1, WeakMeans
<1>4. StrongMatches(t, q) = found
  <2>1. \A r \in DOMAIN t.rec : Shares(t.rec[r], q) <=> n \in t.rec[r].ids \cup t.rec[r].keys
    BY <1>1, <1>2 DEF Shares
  <2>2. QED
    BY <1>1, <2>1, StrongMeans
<1>5. ~Ambiguous(t, q) /\ Candidates(t, q) = found
  BY <1>3, <1>4, FS_EmptySet DEF Ambiguous, Candidates
<1>6. QED
  BY <1>5 DEF EndSession, q

\* No record has a name of session s.
Forgets(t, s) == NamesOf(s) \cap AllNames(t) = {}

\* session_end forgets a session that is known under one record and asked for by both its names.
LEMMA EndedForgets ==
  ASSUME NEW t, NEW now, TrackerInv(t, now), NEW s \in Sessions, Cardinality(RecordsOf(t, s)) <= 1
  PROVE  Forgets(EndSessionRefs(t, Id(s), Key(s)), s)
<1> DEFINE byId == {r \in DOMAIN t.rec : Id(s) \in t.rec[r].ids \cup t.rec[r].keys}
           byKey == {r \in DOMAIN t.rec : Key(s) \in t.rec[r].ids \cup t.rec[r].keys}
<1>1. /\ Id(s) \in Names /\ Key(s) \in Names /\ ~Weak(Id(s)) /\ ~Weak(Key(s))
  BY AliasIsNoName DEF Names, Weak, NamesOf
<1>2. EndSession(t, Id(s)) = Removed(t, byId) /\ EndSession(t, Key(s)) = Removed(t, byKey)
  BY <1>1, EndSessionFinds
<1>3. RecordsOf(t, s) = byId \cup byKey
  BY DEF RecordsOf
<1>4. byId \subseteq DOMAIN t.rec /\ byKey \subseteq DOMAIN t.rec
  OBVIOUS
<1>5. \A r \in DOMAIN t.rec : /\ r \notin byId => Id(s) \notin t.rec[r].ids \cup t.rec[r].keys
                              /\ r \notin byKey => Key(s) \notin t.rec[r].ids \cup t.rec[r].keys
  OBVIOUS
<1> HIDE DEF byId, byKey
<1>6. ASSUME NEW R, R \subseteq DOMAIN t.rec, \A r \in DOMAIN t.rec \ R : r \notin byId /\ r \notin byKey
      PROVE  Forgets(Removed(t, R), s)
  <2>1. /\ DOMAIN Removed(t, R).rec = DOMAIN t.rec \ R
        /\ \A r \in DOMAIN t.rec \ R : Removed(t, R).rec[r] = t.rec[r]
    BY <1>6, RemovedInv
  <2>2. \A r \in DOMAIN Removed(t, R).rec :
          NamesOf(s) \cap (Removed(t, R).rec[r].ids \cup Removed(t, R).rec[r].keys) = {}
    BY <1>5, <1>6, <2>1 DEF NamesOf
  <2>3. QED
    BY <2>2 DEF Forgets, AllNames
<1>7. CASE byId = {}
  <2>1. EndSession(t, Id(s)) = t
    BY <1>2, <1>7, NothingEnded
  <2>2. EndSessionRefs(t, Id(s), Key(s)) = Removed(t, byKey)
    BY <1>2, <2>1 DEF EndSessionRefs
  <2>3. QED
    BY <1>4, <1>6, <1>7, <2>2
<1>8. CASE byId # {}
  <2>1. DOMAIN Removed(t, byId).rec = DOMAIN t.rec \ byId
    BY <1>4, RemovedInv
  <2>2. EndSession(t, Id(s)) # t
    BY <1>2, <1>4, <1>8, <2>1
  <2>3. EndSessionRefs(t, Id(s), Key(s)) = Removed(t, byId)
    BY <1>2, <2>2 DEF EndSessionRefs
  <2>4. byKey \subseteq byId
    <3>1. IsFiniteSet(RecordsOf(t, s))
      <4>1. IsFiniteSet(Recs) /\ DOMAIN t.rec \subseteq Recs
        BY FiniteRecs DEF TrackerInv, Recorded
      <4>2. RecordsOf(t, s) \subseteq Recs
        BY <1>3, <1>4, <4>1
      <4>3. QED
        BY <4>1, <4>2, FS_Subset
    <3>2. PICK r : r \in byId
      BY <1>8
    <3>3. ASSUME NEW x \in byKey, x # r PROVE FALSE
      <4>1. {x, r} \subseteq RecordsOf(t, s)
        BY <1>3, <3>2
      <4>2. Cardinality({x, r}) = 2
        <5>1. IsFiniteSet({x}) /\ Cardinality({x}) = 1 /\ r \notin {x} /\ {x, r} = {x} \cup {r}
          BY <3>3, FS_Singleton
        <5>2. Cardinality({x} \cup {r}) = Cardinality({x}) + 1
          BY <5>1, FS_AddElement
        <5>3. QED
          BY <5>1, <5>2
      <4>3. Cardinality({x, r}) <= Cardinality(RecordsOf(t, s))
        BY <3>1, <4>1, FS_Subset
      <4>4. Cardinality(RecordsOf(t, s)) \in Nat
        BY <3>1, FS_CardinalityType
      <4>5. QED
        BY <4>2, <4>3, <4>4
    <3>4. QED
      BY <3>2, <3>3
  <2>5. QED
    BY <1>4, <1>6, <2>3, <2>4
<1>9. QED
  BY <1>7, <1>8

-----------------------------------------------------------------------------
(* The steps *)

SessionInv ==
  /\ clock \in Nat /\ late \subseteq Waiting /\ aliasAsId \in BOOLEAN /\ adopted \in BOOLEAN
  /\ TrackerInv(tracker, clock) /\ Named(tracker, DOMAIN tracker.rec)
  /\ aliasAsId \/ adopted \/ Separate(tracker)
  /\ RouteOwnAndFresh
  /\ \A s \in ended \ (scattered \cup revived) : s \in Sessions /\ Forgets(tracker, s)

\* The hooks and what the subagent hooks say of a child.
Carriers == Hooks \cup {Child(s) : s \in Sessions}

\* What they carry.
LEMMA HookOf ==
  ASSUME NEW h \in Carriers
  PROVE  /\ h.by \in Sessions /\ h.ids \subseteq {Id(h.by)} /\ h.keys \subseteq {Key(h.by), Alias}
         /\ h.ids \cup h.keys # {} /\ h.run \in Runs \cup {NoRun}
         /\ h.run \in Runs => RunOf[h.run] = h.by
         /\ h.route \in Routes => RouteOf[h.route] = h.by
<1>1. CASE h \in Hooks
  <2>1. h \in AllHooks
    BY <1>1, SessionConstants DEF SessionConstants
  <2>2. PICK s \in Sessions :
          /\ h \in [by: {s}, ids: SUBSET {Id(s)}, keys: SUBSET {Key(s), Alias},
                    run: {NoRun} \cup {r \in Runs : RunOf[r] = s},
                    route: {NoRoute} \cup {r \in Routes : RouteOf[r] = s}]
          /\ h.ids \cup h.keys # {}
    BY <2>1 DEF AllHooks
  <2>3. QED
    BY <2>2, SessionConstants DEF SessionConstants
<1>2. ASSUME NEW s \in Sessions, h = Child(s)
      PROVE  /\ h.by \in Sessions /\ h.ids \subseteq {Id(h.by)} /\ h.keys \subseteq {Key(h.by), Alias}
             /\ h.ids \cup h.keys # {} /\ h.run \in Runs \cup {NoRun}
             /\ h.run \in Runs => RunOf[h.run] = h.by
             /\ h.route \in Routes => RouteOf[h.route] = h.by
  <2>1. h.by = s /\ h.ids = {} /\ h.keys = {Key(s)} /\ h.run = NoRun /\ h.route = KeyRoute[s]
    BY <1>2 DEF Child
  <2>2. NoRun \notin Runs /\ (KeyRoute[s] \in Routes => RouteOf[KeyRoute[s]] = s)
    BY SessionConstants DEF SessionConstants
  <2>3. QED
    BY <2>1, <2>2
<1>3. QED
  BY <1>1, <1>2 DEF Carriers

\* Handlers that wait carry something.
LEMMA WaitingCarry ==
  ASSUME NEW w \in Waiting
  PROVE  /\ w.hook \in Carriers
         /\ w.handler = "spawned" => w.hook.keys = {Key(w.hook.by)}
BY DEF Waiting, Carriers, Child

\* What a hook asks for names its own session and the alias, if anything.
LEMMA RefsOf ==
  ASSUME NEW h \in Carriers, NEW q \in ResolveSessionRefs(h)
  PROVE  /\ q \in Query /\ q.ids \cup q.keys # {} /\ q.ids \cup q.keys \subseteq NamesOf(h.by) \cup {Alias}
         /\ Alias \notin q.ids => Asks(q, h.by)
<1>1. PICK i \in IF h.ids = {} THEN {{k} : k \in h.keys} ELSE {h.ids} :
        q = [ids |-> i, keys |-> IF h.keys = {} THEN h.ids ELSE h.keys, run |-> h.run]
  BY DEF ResolveSessionRefs
<1>2. i \subseteq h.ids \cup h.keys /\ i # {}
  BY <1>1, HookOf
<1>3. /\ h.by \in Sessions /\ h.ids \cup h.keys \subseteq NamesOf(h.by) \cup {Alias}
      /\ NamesOf(h.by) \cup {Alias} \subseteq Names
  BY HookOf DEF NamesOf, Names
<1>4. QED
  BY <1>1, <1>2, <1>3, HookOf DEF Query, Asks

\* An observation for session s, by whichever handler.
LEMMA ObserveStep ==
  ASSUME SessionInv, NEW s \in Sessions, NEW q \in Query, q.ids \cup q.keys # {},
         q.ids \cup q.keys \subseteq NamesOf(s) \cup {Alias}, Alias \notin q.ids => Asks(q, s),
         NEW route, route \in Routes => RouteOf[route] = s,
         NEW u \in ObserveSession(tracker, q, route), Doors(q)
  PROVE  /\ aliasAsId' \in BOOLEAN /\ adopted' \in BOOLEAN
         /\ (aliasAsId => aliasAsId') /\ (adopted => adopted')
         /\ TrackerInv(u, clock) /\ Named(u, DOMAIN u.rec)
         /\ aliasAsId' \/ adopted' \/ (Separate(u) /\ Asks(q, s) /\ ~ByAliasAlone(u, q))
         /\ \A x \in Sessions \ {s} : Forgets(tracker, x) => Forgets(u, x)
<1>1. /\ clock \in Nat /\ TrackerInv(tracker, clock) /\ Named(tracker, DOMAIN tracker.rec)
      /\ aliasAsId \in BOOLEAN /\ adopted \in BOOLEAN /\ (aliasAsId \/ adopted \/ Separate(tracker))
  BY DEF SessionInv
<1>2. /\ aliasAsId' = (aliasAsId \/ Alias \in q.ids)
      /\ adopted' = (adopted \/ ByAliasAlone(tracker, q))
  BY DEF Doors, ByAliasAlone
<1>3. /\ TrackerInv(u, clock) /\ Named(u, DOMAIN u.rec)
      /\ AllNames(u) \subseteq AllNames(tracker) \cup q.ids \cup q.keys
  BY <1>1, ObserveInv
<1>4. ASSUME ~aliasAsId', ~adopted' PROVE Separate(u) /\ Asks(q, s) /\ ~ByAliasAlone(u, q)
  <2>1. Separate(tracker) /\ Asks(q, s) /\ ~ByAliasAlone(tracker, q)
    BY <1>1, <1>2, <1>4
  <2>2. QED
    BY <1>1, <2>1, ObserveSeparate, ObservedFound
<1>5. ASSUME NEW x \in Sessions \ {s}, Forgets(tracker, x) PROVE Forgets(u, x)
  <2>1. NamesOf(x) \cap (NamesOf(s) \cup {Alias}) = {}
    BY OwnNames, AliasIsNoName
  <2>2. QED
    BY <1>3, <1>5, <2>1 DEF Forgets
<1>6. QED
  BY <1>1, <1>2, <1>3, <1>4, <1>5

\* The records of a tracker that are left are as they were.
LEMMA Fewer ==
  ASSUME NEW t, NEW u, DOMAIN u.rec \subseteq DOMAIN t.rec, \A r \in DOMAIN u.rec : u.rec[r] = t.rec[r]
  PROVE  /\ Separate(t) => Separate(u)
         /\ \A s : Forgets(t, s) => Forgets(u, s)
<1>1. AllNames(u) \subseteq AllNames(t)
  BY DEF AllNames
<1>2. QED
  BY <1>1 DEF Separate, Forgets

\* An answer stays right when no tool hook comes.
LEMMA AnswerStays ==
  ASSUME RouteOwnAndFresh, answer' = answer, aliasAsId => aliasAsId', adopted => adopted'
  PROVE  RouteOwnAndFresh'
BY Zenon DEF RouteOwnAndFresh

\* observeSessionProvenance keeps the invariant.
LEMMA ObserveKeeps == ASSUME SessionInv, NEW s \in Sessions \ ended, NEW h \in Hooks, h.by = s, Observe(h)
                      PROVE  SessionInv'
<1>1. PICK q \in ResolveSessionRefs(h) : tracker' \in ObserveSession(tracker, q, h.route) /\ Doors(q)
  BY DEF Observe
<1>2. UNCHANGED <<late, clock, answer, ended, scattered, revived>>
  BY DEF Observe
<1>3. /\ aliasAsId' \in BOOLEAN /\ adopted' \in BOOLEAN
      /\ (aliasAsId => aliasAsId') /\ (adopted => adopted')
      /\ TrackerInv(tracker', clock) /\ Named(tracker', DOMAIN tracker'.rec)
      /\ aliasAsId' \/ adopted' \/ Separate(tracker')
      /\ \A x \in Sessions \ {s} : Forgets(tracker, x) => Forgets(tracker', x)
  BY <1>1, RefsOf, HookOf, ObserveStep DEF Carriers
<1>4. RouteOwnAndFresh'
  <2>1. RouteOwnAndFresh
    BY DEF SessionInv
  <2>2. answer' = answer
    BY <1>2
  <2>3. (aliasAsId => aliasAsId') /\ (adopted => adopted')
    BY <1>3, Zenon
  <2>4. QED
    BY <2>1, <2>2, <2>3, AnswerStays, Zenon
<1>5. QED
  BY <1>2, <1>3, <1>4 DEF SessionInv

\* A handler that starts to wait keeps it.
LEMMA AwaitsKeeps ==
  ASSUME SessionInv, NEW handler, NEW h, [handler |-> handler, hook |-> h] \in Waiting, Awaits(handler, h)
  PROVE  SessionInv'
<1>1. /\ late' = late \cup {[handler |-> handler, hook |-> h]}
      /\ UNCHANGED <<tracker, clock, answer, aliasAsId, adopted, ended, scattered, revived>>
  BY DEF Awaits
<1>2. late' \subseteq Waiting
  BY <1>1 DEF SessionInv
<1>3. RouteOwnAndFresh'
  BY <1>1, AnswerStays DEF SessionInv
<1>4. QED
  BY <1>1, <1>2, <1>3 DEF SessionInv

\* One that goes on keeps it, though its session may have ended, when it keeps what is said
\* of the tracker and the answer and tells nothing of other sessions.
LEMMA LateKeeps ==
  ASSUME SessionInv, NEW w \in late, NEW handler, Resumes(w, handler), Revives(w.hook.by),
         /\ aliasAsId' \in BOOLEAN /\ adopted' \in BOOLEAN
         /\ TrackerInv(tracker', clock) /\ Named(tracker', DOMAIN tracker'.rec)
         /\ aliasAsId' \/ adopted' \/ Separate(tracker')
         /\ \A x \in Sessions \ {w.hook.by} : Forgets(tracker, x) => Forgets(tracker', x),
         RouteOwnAndFresh'
  PROVE  SessionInv'
<1>1. /\ UNCHANGED <<clock, ended, scattered>> /\ late' = late \ {w}
      /\ revived' = IF w.hook.by \in ended THEN revived \cup {w.hook.by} ELSE revived
  BY DEF Resumes, Revives
<1>2. late' \subseteq Waiting
  BY <1>1 DEF SessionInv
<1>3. \A x \in ended' \ (scattered' \cup revived') : x \in Sessions /\ Forgets(tracker', x)
  BY <1>1 DEF SessionInv
<1>4. QED
  BY <1>1, <1>2, <1>3 DEF SessionInv

\* A message handler that observes after its broadcast keeps it.
LEMMA MessageObservedKeeps == ASSUME SessionInv, NEW w \in late, MessageObserved(w) PROVE SessionInv'
<1>1. w.hook \in Carriers
  BY WaitingCarry DEF SessionInv
<1>2. PICK q \in ResolveSessionRefs(w.hook) : tracker' \in ObserveSession(tracker, q, w.hook.route) /\ Doors(q)
  BY DEF MessageObserved
<1>3. Resumes(w, "message") /\ Revives(w.hook.by) /\ answer' = answer
  BY DEF MessageObserved
<1>4. /\ aliasAsId' \in BOOLEAN /\ adopted' \in BOOLEAN
      /\ (aliasAsId => aliasAsId') /\ (adopted => adopted')
      /\ TrackerInv(tracker', clock) /\ Named(tracker', DOMAIN tracker'.rec)
      /\ aliasAsId' \/ adopted' \/ Separate(tracker')
      /\ \A x \in Sessions \ {w.hook.by} : Forgets(tracker, x) => Forgets(tracker', x)
  BY <1>1, <1>2, RefsOf, HookOf, ObserveStep
<1>5. RouteOwnAndFresh'
  <2>1. RouteOwnAndFresh
    BY DEF SessionInv
  <2>2. (aliasAsId => aliasAsId') /\ (adopted => adopted')
    BY <1>4, Zenon
  <2>3. QED
    BY <1>3, <2>1, <2>2, AnswerStays, Zenon
<1>6. QED
  BY <1>3, <1>4, <1>5, LateKeeps

\* The session key that is told is one of the session that asks, unless the alias alone leads
\* to a record.
LEMMA ParsedOwn ==
  ASSUME NEW t, NEW now, TrackerInv(t, now), Separate(t), NEW q \in Query, NEW s \in Sessions, Asks(q, s),
         ~ByAliasAlone(t, q), NEW n \in ParsedSession(t, q)
  PROVE  OwnerOf(n) \in {s, Nobody}
<1> DEFINE known == IF Ambiguous(t, q) THEN {} ELSE {k \in AllOf(t, Candidates(t, q), "keys") : ~Weak(k)}
<1>1. known \subseteq NamesOf(s) \cup {Alias}
  <2>1. CASE Ambiguous(t, q)
    BY <2>1
  <2>2. CASE ~Ambiguous(t, q)
    <3>1. \A r \in Candidates(t, q) : t.rec[r].keys \subseteq NamesOf(s) \cup {Alias}
      BY <2>2, CandidatesOwned DEF Of
    <3>2. QED
      BY <2>2, <3>1 DEF AllOf
  <2>3. QED
    BY <2>1, <2>2
<1>2. n \in known \cup q.keys
  BY DEF ParsedSession
<1> HIDE DEF known
<1>3. n \in NamesOf(s) \cup {Alias}
  BY <1>1, <1>2 DEF Asks
<1>4. QED
  BY <1>3 DEF NamesOf, Id, Key, Alias, OwnerOf

\* A hook that observes and asks keeps what the invariant says of the tracker and the answer.
LEMMA AskStep ==
  ASSUME SessionInv, NEW h \in Carriers, ObserveAndAsk(h)
  PROVE  /\ aliasAsId' \in BOOLEAN /\ adopted' \in BOOLEAN
         /\ TrackerInv(tracker', clock) /\ Named(tracker', DOMAIN tracker'.rec)
         /\ aliasAsId' \/ adopted' \/ Separate(tracker')
         /\ \A x \in Sessions \ {h.by} : Forgets(tracker, x) => Forgets(tracker', x)
         /\ RouteOwnAndFresh'
<1> DEFINE s == h.by
           Told(q, t, a, n) ==
             /\ Doors(q) /\ tracker' = a.tracker
             /\ answer' = [by |-> h.by, resolution |-> a.resolution, route |-> a.route, age |-> a.age,
                           parsed |-> n]
<1>1. PICK q \in ResolveSessionRefs(h) :
        \E t \in ObserveSession(tracker, q, h.route) :
        \E a \in GetSessionProvenance(t, q) : \E n \in ParsedSession(t, q) : Told(q, t, a, n)
  BY DEF ObserveAndAsk
<1>2. PICK t \in ObserveSession(tracker, q, h.route) :
        \E a \in GetSessionProvenance(t, q) : \E n \in ParsedSession(t, q) : Told(q, t, a, n)
  BY <1>1
<1>3. PICK a \in GetSessionProvenance(t, q) : \E n \in ParsedSession(t, q) : Told(q, t, a, n)
  BY <1>2
<1>4. PICK n \in ParsedSession(t, q) : Told(q, t, a, n)
  BY <1>3
<1>5. q \in Query /\ clock \in Nat /\ s \in Sessions
  BY RefsOf, HookOf DEF SessionInv
<1>6. /\ aliasAsId' \in BOOLEAN /\ adopted' \in BOOLEAN
      /\ TrackerInv(t, clock) /\ Named(t, DOMAIN t.rec)
      /\ aliasAsId' \/ adopted' \/ (Separate(t) /\ Asks(q, s) /\ ~ByAliasAlone(t, q))
      /\ \A x \in Sessions \ {s} : Forgets(tracker, x) => Forgets(t, x)
  BY <1>4, RefsOf, HookOf, ObserveStep
<1>7. /\ TrackerInv(tracker', clock) /\ Named(tracker', DOMAIN tracker'.rec)
      /\ AllNames(tracker') \subseteq AllNames(t)
      /\ a.route # NoRoute => a.age <= RouteTtl
  BY <1>4, <1>5, <1>6, ProvenanceInv
<1>8. \/ aliasAsId' \/ adopted'
      \/ /\ Separate(tracker') /\ (a.route # NoRoute => RouteOf[a.route] = s)
         /\ OwnerOf(n) \in {s, Nobody}
  <2>1. ASSUME ~aliasAsId', ~adopted'
        PROVE  Separate(t) /\ Asks(q, s) /\ ~ByAliasAlone(t, q)
    BY <1>6, <2>1
  <2>2. ASSUME ~aliasAsId', ~adopted'
        PROVE  Separate(tracker') /\ (a.route # NoRoute => RouteOf[a.route] = s)
    BY <1>4, <1>5, <1>6, <2>1, <2>2, ProvenanceSeparate
  <2>3. ASSUME ~aliasAsId', ~adopted'
        PROVE  OwnerOf(n) \in {s, Nobody}
    BY <1>5, <1>6, <2>1, <2>3, ParsedOwn
  <2>4. QED
    BY <2>2, <2>3
<1>9. RouteOwnAndFresh'
  <2>1. answer'.by = s /\ answer'.route = a.route /\ answer'.age = a.age /\ answer'.parsed = n
    BY <1>4
  <2>2. QED
    BY <1>7, <1>8, <2>1 DEF RouteOwnAndFresh
<1>10. \A x \in Sessions \ {s} : Forgets(tracker, x) => Forgets(tracker', x)
  BY <1>6, <1>7 DEF Forgets
<1>11. QED
  BY <1>6, <1>7, <1>8, <1>9, <1>10

\* after_tool_call and tool_result_persist keep the invariant.
LEMMA ToolHookKeeps == ASSUME SessionInv, NEW s \in Sessions \ ended, NEW h \in Hooks, h.by = s, ToolHook(h)
                       PROVE  SessionInv'
<1>1. ObserveAndAsk(h) /\ UNCHANGED <<late, clock, ended, scattered, revived>> /\ h \in Carriers
  BY DEF ToolHook, Carriers
<1>2. /\ aliasAsId' \in BOOLEAN /\ adopted' \in BOOLEAN
      /\ TrackerInv(tracker', clock) /\ Named(tracker', DOMAIN tracker'.rec)
      /\ aliasAsId' \/ adopted' \/ Separate(tracker')
      /\ \A x \in Sessions \ {s} : Forgets(tracker, x) => Forgets(tracker', x)
      /\ RouteOwnAndFresh'
  BY <1>1, AskStep
<1>3. \A x \in ended' \ (scattered' \cup revived') : x \in Sessions /\ Forgets(tracker', x)
  BY <1>1, <1>2 DEF SessionInv
<1>4. QED
  BY <1>1, <1>2, <1>3 DEF SessionInv

\* before_tool_call keeps it when it goes on after the guard.
LEMMA GuardDecidedKeeps == ASSUME SessionInv, NEW w \in late, GuardDecided(w) PROVE SessionInv'
<1>1. /\ w.hook \in Carriers
      /\ Resumes(w, "tool") /\ Revives(w.hook.by) /\ ObserveAndAsk(w.hook)
  BY WaitingCarry DEF SessionInv, GuardDecided
<1>2. QED
  BY <1>1, AskStep, LateKeeps

\* session_end keeps it.
LEMMA SessionEndKeeps == ASSUME SessionInv, NEW s \in Sessions \ ended, NEW h \in Hooks, h.by = s, SessionEnd(h)
                         PROVE  SessionInv'
<1>1. PICK q \in ResolveSessionRefs(h) : \E i \in q.ids, k \in q.keys :
        /\ tracker' = EndSessionRefs(tracker, i, k)
        /\ scattered' = IF Cardinality(RecordsOf(tracker, h.by)) > 1 \/ i # Id(h.by) \/ k # Key(h.by)
                        THEN scattered \cup {h.by} ELSE scattered
  BY DEF SessionEnd
<1>2. PICK i \in q.ids, k \in q.keys :
        /\ tracker' = EndSessionRefs(tracker, i, k)
        /\ scattered' = IF Cardinality(RecordsOf(tracker, s)) > 1 \/ i # Id(s) \/ k # Key(s)
                        THEN scattered \cup {s} ELSE scattered
  BY <1>1
<1>3. /\ UNCHANGED <<late, clock, answer, aliasAsId, adopted, revived>>
      /\ ended' = ended \cup {s}
  BY DEF SessionEnd
<1>4. TrackerInv(tracker, clock) /\ Named(tracker, DOMAIN tracker.rec)
  BY DEF SessionInv
<1>5. PICK n : tracker' = EndSession(tracker, n)
  BY <1>2 DEF EndSessionRefs
<1>6. /\ TrackerInv(tracker', clock) /\ Named(tracker', DOMAIN tracker'.rec)
      /\ DOMAIN tracker'.rec \subseteq DOMAIN tracker.rec
      /\ \A r \in DOMAIN tracker'.rec : tracker'.rec[r] = tracker.rec[r]
  BY <1>4, <1>5, EndSessionInv
<1>7. /\ Separate(tracker) => Separate(tracker')
      /\ \A x : Forgets(tracker, x) => Forgets(tracker', x)
  BY <1>6, Fewer
<1>8. ASSUME s \notin scattered' PROVE Forgets(tracker', s)
  <2>1. i = Id(s) /\ k = Key(s) /\ ~(Cardinality(RecordsOf(tracker, s)) > 1)
    BY <1>2, <1>8
  <2>2. Cardinality(RecordsOf(tracker, s)) <= 1
    <3>1. IsFiniteSet(Recs) /\ DOMAIN tracker.rec \subseteq Recs
      BY <1>4, FiniteRecs DEF TrackerInv, Recorded
    <3>2. RecordsOf(tracker, s) \subseteq Recs
      BY <3>1 DEF RecordsOf
    <3>3. Cardinality(RecordsOf(tracker, s)) \in Nat
      BY <3>1, <3>2, FS_Subset, FS_CardinalityType
    <3>4. QED
      BY <2>1, <3>3
  <2>3. QED
    BY <1>2, <1>4, <2>1, <2>2, EndedForgets
<1>9. scattered \subseteq scattered'
  BY <1>2
<1>10. \A x \in ended' \ (scattered' \cup revived') : x \in Sessions /\ Forgets(tracker', x)
  BY <1>3, <1>7, <1>8, <1>9 DEF SessionInv
<1>11. RouteOwnAndFresh'
  BY <1>3 DEF SessionInv, RouteOwnAndFresh
<1>12. QED
  BY <1>3, <1>6, <1>7, <1>10, <1>11 DEF SessionInv

\* subagent_spawned keeps it when it touches the child's session.
LEMMA ChildTouchedKeeps == ASSUME SessionInv, NEW w \in late, ChildTouched(w) PROVE SessionInv'
<1> DEFINE s == w.hook.by
           q == [ids |-> {}, keys |-> w.hook.keys, run |-> NoRun]
<1>1. /\ Resumes(w, "spawned") /\ Revives(s) /\ answer' = answer
      /\ tracker' \in ObserveSession(tracker, q, w.hook.route) /\ Doors(q)
  BY DEF ChildTouched
<1>2. w.hook \in Carriers /\ w.hook.keys = {Key(s)}
  BY <1>1, WaitingCarry DEF SessionInv, Resumes
<1>3. s \in Sessions /\ (w.hook.route \in Routes => RouteOf[w.hook.route] = s)
  BY <1>2, HookOf
<1>4. /\ q \in Query /\ q.ids \cup q.keys # {} /\ q.ids \cup q.keys \subseteq NamesOf(s) \cup {Alias}
      /\ Asks(q, s)
  BY <1>2, <1>3, SessionConstants DEF Query, Names, NamesOf, Asks, SessionConstants
<1> HIDE DEF q
<1>5. /\ aliasAsId' \in BOOLEAN /\ adopted' \in BOOLEAN
      /\ (aliasAsId => aliasAsId') /\ (adopted => adopted')
      /\ TrackerInv(tracker', clock) /\ Named(tracker', DOMAIN tracker'.rec)
      /\ aliasAsId' \/ adopted' \/ Separate(tracker')
      /\ \A x \in Sessions \ {s} : Forgets(tracker, x) => Forgets(tracker', x)
  BY <1>1, <1>3, <1>4, ObserveStep
<1>6. RouteOwnAndFresh'
  <2>1. RouteOwnAndFresh
    BY DEF SessionInv
  <2>2. (aliasAsId => aliasAsId') /\ (adopted => adopted')
    BY <1>5, Zenon
  <2>3. QED
    BY <1>1, <2>1, <2>2, AnswerStays, Zenon
<1>7. QED
  BY <1>1, <1>5, <1>6, LateKeeps

\* subagent_ended keeps it when it ends the child's session.
LEMMA ChildEndedKeeps == ASSUME SessionInv, NEW w \in late, ChildEnded(w) PROVE SessionInv'
<1>1. /\ tracker' = EndSession(tracker, Key(w.hook.by)) /\ late' = late \ {w}
      /\ UNCHANGED <<clock, answer, aliasAsId, adopted, ended, scattered, revived>>
  BY DEF ChildEnded, Resumes
<1>2. /\ TrackerInv(tracker', clock) /\ Named(tracker', DOMAIN tracker'.rec)
      /\ DOMAIN tracker'.rec \subseteq DOMAIN tracker.rec
      /\ \A r \in DOMAIN tracker'.rec : tracker'.rec[r] = tracker.rec[r]
  BY <1>1, EndSessionInv DEF SessionInv
<1>3. /\ Separate(tracker) => Separate(tracker')
      /\ \A x : Forgets(tracker, x) => Forgets(tracker', x)
  BY <1>2, Fewer
<1>4. RouteOwnAndFresh' /\ late' \subseteq Waiting
  BY <1>1, AnswerStays DEF SessionInv
<1>5. QED
  BY <1>1, <1>2, <1>3, <1>4 DEF SessionInv

\* An empty tracker is sound and knows no one.
LEMMA EmptyInv ==
  ASSUME NEW now
  PROVE  /\ TrackerInv(EmptyTracker, now) /\ Named(EmptyTracker, DOMAIN EmptyTracker.rec)
         /\ Separate(EmptyTracker) /\ \A s : Forgets(EmptyTracker, s)
<1> DEFINE e == EmptyTracker
<1>1. /\ e = [rec |-> e.rec, byId |-> e.byId, byKey |-> e.byKey, byRun |-> e.byRun]
      /\ DOMAIN e.rec = {} /\ e.rec = [r \in {} |-> {}]
      /\ e.byId = [n \in Names |-> {}] /\ e.byKey = [n \in Names |-> {}] /\ e.byRun = [n \in Runs |-> {}]
  BY DEF EmptyTracker
<1> HIDE DEF e
<1>2. Recorded(e) /\ Indexed(e)
  BY <1>1 DEF Recorded, Indexed, IndexOf
<1>3. QED
  BY <1>1, <1>2 DEF TrackerInv, Named, Separate, Forgets, AllNames, e

\* clear() keeps it.
LEMMA ClearKeeps == ASSUME SessionInv, Clear PROVE SessionInv'
<1>1. /\ tracker' = EmptyTracker
      /\ UNCHANGED <<late, clock, answer, aliasAsId, adopted, ended, scattered, revived>>
  BY DEF Clear
<1>2. RouteOwnAndFresh'
  BY <1>1, AnswerStays DEF SessionInv
<1>3. QED
  BY <1>1, <1>2, EmptyInv DEF SessionInv

\* What was seen at one time has been seen at the next.
LEMMA TickKeeps == ASSUME SessionInv, Tick PROVE SessionInv'
<1>1. /\ clock \in Nat /\ clock' = clock + 1 /\ TrackerInv(tracker, clock)
      /\ UNCHANGED <<tracker, late, hooks, answer, aliasAsId, adopted, ended, scattered, revived>>
  BY DEF Tick, SessionInv
<1>2. \A r \in DOMAIN tracker.rec : Sound(tracker.rec[r], clock')
  <2>1. ASSUME NEW r \in DOMAIN tracker.rec PROVE Sound(tracker.rec[r], clock')
    <3>1. tracker.rec[r] \in Record /\ Sound(tracker.rec[r], clock)
      BY <1>1 DEF TrackerInv, Recorded
    <3>2. \A o \in DOMAIN tracker.rec[r].routes : tracker.rec[r].routes[o].seen \in Nat
      BY <3>1, MapOfRoutes DEF Record
    <3>3. QED
      BY <1>1, <3>1, <3>2 DEF Sound
  <2>2. QED
    BY <2>1
<1>3. TrackerInv(tracker', clock')
  BY <1>1, <1>2 DEF TrackerInv
<1>4. RouteOwnAndFresh'
  BY <1>1, AnswerStays DEF SessionInv
<1>5. QED
  BY <1>1, <1>3, <1>4 DEF SessionInv

\* The initial state satisfies the invariant.
LEMMA InitInv == Init => SessionInv
<1>1. SUFFICES ASSUME Init PROVE SessionInv
  OBVIOUS
<1>2. RouteOwnAndFresh
  BY <1>1 DEF Init, RouteOwnAndFresh, OwnerOf, Alias
<1>3. QED
  BY <1>1, <1>2, EmptyInv DEF Init, SessionInv

\* Every step keeps it.
LEMMA NextInv == SessionInv /\ [Next]_vars => SessionInv'
<1>1. SUFFICES ASSUME SessionInv, [Next]_vars PROVE SessionInv'
  OBVIOUS
<1>2. ASSUME NEW s \in Sessions \ ended, NEW h \in Hooks, h.by = s,
             Observe(h) \/ MessageHook(h) \/ ToolHook(h) \/ BeforeToolCall(h) \/ SessionEnd(h)
      PROVE  SessionInv'
  <2>1. CASE MessageHook(h)
    BY <1>1, <2>1, AwaitsKeeps DEF MessageHook, Waiting
  <2>2. CASE BeforeToolCall(h)
    BY <1>1, <2>2, AwaitsKeeps DEF BeforeToolCall, Waiting
  <2>3. QED
    BY <1>1, <1>2, <2>1, <2>2, ObserveKeeps, ToolHookKeeps, SessionEndKeeps
<1>s. ASSUME NEW s \in Sessions, SubagentSpawned(s) \/ SubagentEnded(s) PROVE SessionInv'
  <2>1. CASE SubagentSpawned(s)
    BY <1>1, <2>1, AwaitsKeeps DEF SubagentSpawned, Waiting
  <2>2. CASE SubagentEnded(s)
    BY <1>1, <2>2, AwaitsKeeps DEF SubagentEnded, Waiting
  <2>3. QED
    BY <1>s, <2>1, <2>2
<1>3. ASSUME UNCHANGED vars PROVE SessionInv'
  <2>1. UNCHANGED <<tracker, late, clock, answer, aliasAsId, adopted, ended, scattered, revived>>
    BY <1>3 DEF vars
  <2>2. RouteOwnAndFresh'
    BY <1>1, <2>1, AnswerStays DEF SessionInv
  <2>3. QED
    BY <1>1, <2>1, <2>2 DEF SessionInv
<1>4. QED
  BY <1>1, <1>2, <1>s, <1>3, MessageObservedKeeps, GuardDecidedKeeps, ChildTouchedKeeps, ChildEndedKeeps,
     ClearKeeps, TickKeeps DEF Next

\* The invariant holds in every reachable state.
LEMMA SessionInvariant == Spec => []SessionInv
<1>1. Init => SessionInv
  BY InitInv
<1>2. SessionInv /\ [Next]_vars => SessionInv'
  BY NextInv
<1>3. QED
  BY <1>1, <1>2, PTL DEF Spec

-----------------------------------------------------------------------------
(* What it promises *)

\* The records are sound, an index leads to a record exactly when the record holds the
\* identifier, and no session id, strong key or run is held by two records, after any hooks,
\* merges, expiries and removals (session-tracker-helpers.ts): LookupsAgree.
THEOREM LookupsSound == Spec => []LookupsAgree
<1>1. SessionInv => LookupsAgree
  <2>1. SUFFICES ASSUME SessionInv PROVE LookupsAgree
    OBVIOUS
  <2>2. /\ TrackerInv(tracker, clock) /\ Named(tracker, DOMAIN tracker.rec) /\ clock \in Nat /\ late \subseteq Waiting
        /\ DOMAIN tracker.rec \subseteq Recs
    BY <2>1 DEF SessionInv, TrackerInv, Recorded
  <2>3. ASSUME NEW r \in DOMAIN tracker.rec
        PROVE  /\ tracker.rec[r].ids \subseteq Names /\ tracker.rec[r].keys \subseteq Names
               /\ tracker.rec[r].runs \subseteq Runs
               /\ tracker.rec[r].ids \cup tracker.rec[r].keys # {}
               /\ \A n \in tracker.rec[r].ids : LooksLikeKey(n) => n \in tracker.rec[r].keys
               /\ DOMAIN tracker.rec[r].routes \subseteq Routes
               /\ \A o \in DOMAIN tracker.rec[r].routes :
                    tracker.rec[r].routes[o] \in [seen: 0..clock, runs: SUBSET tracker.rec[r].runs]
    <3>1. tracker.rec[r] \in Record /\ Sound(tracker.rec[r], clock)
      BY <2>2 DEF TrackerInv, Recorded
    <3>2. /\ DOMAIN tracker.rec[r].routes \subseteq Routes
          /\ \A o \in DOMAIN tracker.rec[r].routes : tracker.rec[r].routes[o] \in [seen : Nat, runs : SUBSET Runs]
      BY <3>1, MapOfRoutes DEF Record
    <3>3. QED
      BY <2>2, <3>1, <3>2 DEF Record, Sound, Named
  <2>4. RecordsSound
    BY <2>2, <2>3 DEF RecordsSound
  <2>5. IndexAgrees
    BY <2>2, Indices DEF IndexAgrees
  <2>6. OneRecordPerIdentifier
    BY <2>2 DEF OneRecordPerIdentifier, TrackerInv, Apart
  <2>7. QED
    BY <2>4, <2>5, <2>6 DEF LookupsAgree
<1>2. QED
  BY <1>1, SessionInvariant, PTL

\* Records of two sessions are mixed through the shared alias only (resolveUniqueRecord,
\* resolveSessionRefs): SeparateUnlessAliased.
THEOREM SessionsSeparate == Spec => []SeparateUnlessAliased
<1>1. Separate(tracker) => AliasNeverCollapses
  <2>1. SUFFICES ASSUME Separate(tracker), NEW r \in DOMAIN tracker.rec
                 PROVE  Cardinality(SessionsIn(tracker.rec[r])) <= 1
    BY DEF AliasNeverCollapses
  <2>2. PICK s \in Sessions : Of(tracker.rec[r], s)
    BY <2>1 DEF Separate
  <2>3. SessionsIn(tracker.rec[r]) \subseteq {s}
    <3>1. ASSUME NEW x \in SessionsIn(tracker.rec[r]) PROVE x = s
      <4>1. /\ x \in Sessions /\ NamesOf(x) \cap (tracker.rec[r].ids \cup tracker.rec[r].keys) # {}
        BY DEF SessionsIn, NamesOf
      <4>2. NamesOf(x) \cap NamesOf(s) # {}
        BY <2>2, <4>1, AliasIsNoName DEF Of
      <4>3. QED
        BY <4>2, OwnNames
    <3>2. QED
      BY <3>1
  <2>4. SessionsIn(tracker.rec[r]) = {} \/ SessionsIn(tracker.rec[r]) = {s}
    BY <2>3
  <2>5. Cardinality({}) = 0 /\ Cardinality({s}) = 1
    BY FS_EmptySet, FS_Singleton
  <2>6. QED
    BY <2>4, <2>5
<1>2. SessionInv => SeparateUnlessAliased
  BY <1>1 DEF SessionInv, SeparateUnlessAliased
<1>3. QED
  BY <1>2, SessionInvariant, PTL

\* The route a tool event is told was last seen within routeTtlMs, and it and the session key
\* that fills it up are of another session through the alias only (getSessionProvenance,
\* mergeParsedRoute): RouteOwnAndFresh.
THEOREM RouteTold == Spec => []RouteOwnAndFresh
<1>1. SessionInv => RouteOwnAndFresh
  BY DEF SessionInv
<1>2. QED
  BY <1>1, SessionInvariant, PTL

\* After session_end no record holds a name of the session, but for the doors that scattered
\* and revived note (endSessionRefs): EndedForgotten.
THEOREM EndedStaysForgotten == Spec => []EndedForgotten
<1>1. SessionInv => EndedForgotten
  BY DEF SessionInv, EndedForgotten, Forgets, RecordsOf, NamesOf, AllNames
<1>2. QED
  BY <1>1, SessionInvariant, PTL
=============================================================================
