-------------------------------- MODULE TailorProofs --------------------------------
(***************************************************************************)
(* For any profile, postings and replies of the model, and any caps: a     *)
(* tailored resume states nothing the profile does not, and the PDF an     *)
(* answer calls ready is the resume it shows.  The invariant follows the   *)
(* projects from the choice through every trim.                            *)
(***************************************************************************)
EXTENDS Tailor, DataLemmas

----------------------------------------------------------------------------
(* Lists *)

(* The first n items of a list, or all of them. *)
LEMMA FirstFacts ==
  ASSUME NEW T, NEW s \in Seq(T), NEW n \in Nat
  PROVE  /\ First(s, n) \in Seq(T)
         /\ Len(First(s, n)) = Count(n, Len(s)) /\ Count(n, Len(s)) \in 0..Len(s)
         /\ \A k \in DOMAIN First(s, n) : k \in DOMAIN s /\ First(s, n)[k] = s[k]
<1> DEFINE c == Count(n, Len(s))
<1>1. c \in Nat /\ c <= Len(s) /\ Len(s) \in Nat
  BY DEF Count
<1> HIDE DEF c
<1>2. SubSeq(s, 1, c) \in Seq(T) /\ Len(SubSeq(s, 1, c)) = c
  BY <1>1
<1>3. \A k \in 1..c : k \in DOMAIN s /\ SubSeq(s, 1, c)[k] = s[k]
  BY <1>1
<1>4. First(s, n) = SubSeq(s, 1, c) /\ c = Count(n, Len(s))
  BY DEF First, c
<1> QED BY <1>1, <1>2, <1>3, <1>4

(* Ranking by scores is a strict total order: ties go by position. *)
LEMMA RankedFacts ==
  ASSUME NEW n \in Nat, NEW score \in [1..n -> Nat]
  PROVE  Ranked(score) \in Seq(1..n)
<1> DEFINE ahead == [i \in 1..n |->
             {j \in 1..n : score[j] > score[i] \/ (score[j] = score[i] /\ j < i)}]
<1>1. ahead \in [1..n -> SUBSET (1..n)]
  OBVIOUS
<1>2. \A i, j \in 1..n : i \in ahead[j] <=> score[i] > score[j] \/ (score[i] = score[j] /\ i < j)
  OBVIOUS
<1>3. \A i \in 1..n : score[i] \in Nat /\ i \in Nat
  OBVIOUS
<1>4. Ranked(score) = InOrder(ahead)
  BY DEF Ranked
<1> HIDE DEF ahead
<1>5. \A i \in 1..n : i \notin ahead[i]
  BY <1>2, <1>3
<1>6. \A i, j \in 1..n : i # j => i \in ahead[j] \/ j \in ahead[i]
  BY <1>2, <1>3
<1>7. ASSUME NEW i \in 1..n, NEW j \in 1..n, i \in ahead[j], NEW k \in ahead[i]
      PROVE  k \in ahead[j]
  <2>1. k \in 1..n
    BY <1>1
  <2>2. /\ score[i] > score[j] \/ (score[i] = score[j] /\ i < j)
        /\ score[k] > score[i] \/ (score[k] = score[i] /\ k < i)
    BY <1>2, <1>7, <2>1
  <2>3. score[k] > score[j] \/ (score[k] = score[j] /\ k < j)
    BY <1>3, <2>1, <2>2
  <2> QED BY <1>2, <2>1, <2>3
<1>8. IsFiniteSet(1..n)
  BY FS_Interval
<1>9. Orders(ahead, 1..n)
  BY <1>1, <1>5, <1>6, <1>7, <1>8 DEF Orders
<1> QED BY <1>4, <1>9, InOrderFacts

(* A cap leaves out some items of a finite set, and adds none. *)
LEMMA AtMostFacts ==
  ASSUME NEW S, IsFiniteSet(S), NEW n \in Nat
  PROVE  AtMost(n, S) \subseteq S
<1> DEFINE c == Count(n, Cardinality(S))
<1>1. Cardinality(S) \in Nat /\ ExistsBijection(1..Cardinality(S), S)
  BY FS_CardinalityType
<1>2. c \in Nat /\ c <= Cardinality(S)
  BY <1>1 DEF Count
<1>3. PICK f \in [1..Cardinality(S) -> S] : \A i, j \in 1..Cardinality(S) : f[i] = f[j] => i = j
  BY <1>1 DEF ExistsBijection, Bijection, Injection, IsInjective
<1> HIDE DEF c
<1> DEFINE T == {f[i] : i \in 1..c}
           g == [i \in 1..c |-> f[i]]
<1>4. T \in SUBSET S
  BY <1>1, <1>2, <1>3
<1>5. Cardinality(T) = c
  <2>1. \A i \in 1..c : i \in 1..Cardinality(S)
    BY <1>1, <1>2
  <2>2. g \in [1..c -> T] /\ \A i, j \in 1..c : g[i] = g[j] => i = j
    BY <1>3, <2>1
  <2>3. \A t \in T : \E i \in 1..c : g[i] = t
    OBVIOUS
  <2>4. g \in Bijection(1..c, T)
    BY <2>2, <2>3 DEF Bijection, Injection, Surjection, IsInjective
  <2>5. ExistsBijection(1..c, T)
    BY <2>4 DEF ExistsBijection
  <2> QED BY <1>2, <2>5, FS_CountingElements
<1>6. \E U \in SUBSET S : Cardinality(U) = c
  BY <1>4, <1>5
<1> HIDE DEF T
<1>7. AtMost(n, S) = CHOOSE U \in SUBSET S : Cardinality(U) = c
  BY DEF AtMost, c
<1> QED BY <1>6, <1>7

(* Lists put one after the other are a list of their items.  The function  *)
(* FlattenSeq chooses exists, because a least length without one would be  *)
(* one more than a length that has one.                                    *)
LEMMA FlattenFacts ==
  ASSUME NEW T, NEW seqs \in Seq(Seq(T))
  PROVE  FlattenSeq(seqs) \in Seq(T)
<1> DEFINE n == Len(seqs)
           Step(f, i) == IF i = 1 THEN seqs[i] ELSE f[i - 1] \o seqs[i]
           Joins(m) == \E f \in [1..m -> Seq(T)] : \A i \in 1..m : f[i] = Step(f, i)
           Bad == {m \in 0..n : ~Joins(m)}
<1>1. n \in Nat /\ \A i \in 1..n : seqs[i] \in Seq(T)
  OBVIOUS
<1>2. Joins(0)
  <2> DEFINE f == [i \in 1..0 |-> <<>>]
  <2>1. f \in [1..0 -> Seq(T)] /\ 1..0 = {}
    OBVIOUS
  <2> HIDE DEF f
  <2>2. \A i \in 1..0 : f[i] = Step(f, i)
    BY <2>1
  <2> QED BY <2>1, <2>2
<1>3. ASSUME NEW m \in 1..n, Joins(m - 1) PROVE Joins(m)
  <2>1. PICK f \in [1..(m - 1) -> Seq(T)] : \A i \in 1..(m - 1) : f[i] = Step(f, i)
    BY <1>3
  <2> DEFINE last == IF m = 1 THEN seqs[m] ELSE f[m - 1] \o seqs[m]
             g == [i \in 1..m |-> IF i = m THEN last ELSE f[i]]
  <2>2. m \in Nat /\ m >= 1 /\ (m # 1 => m - 1 \in 1..(m - 1)) /\ seqs[m] \in Seq(T)
    BY <1>1
  <2>3. last \in Seq(T)
    <3>1. CASE m = 1
      BY <2>2, <3>1
    <3>2. CASE m # 1
      <4>1. f[m - 1] \in Seq(T)
        BY <2>2, <3>2
      <4>2. f[m - 1] \o seqs[m] \in Seq(T)
        BY <2>2, <4>1
      <4> QED BY <3>2, <4>2
    <3> QED BY <3>1, <3>2
  <2>4. \A i \in 1..m : i # m => i \in 1..(m - 1) /\ g[i] = f[i]
    BY <2>2
  <2>5. g[m] = last
    BY <2>2
  <2>6. g \in [1..m -> Seq(T)]
    <3> HIDE DEF last
    <3> QED BY <2>3, <2>4
  <2>7. \A i \in 1..m : g[i] = Step(g, i)
    <3> TAKE i \in 1..m
    <3> HIDE DEF g
    <3>1. CASE i = m
      <4>1. m # 1 => g[m - 1] = f[m - 1]
        BY <2>2, <2>4
      <4> QED BY <2>5, <3>1, <4>1
    <3>2. CASE i # m
      <4>1. i \in 1..(m - 1) /\ g[i] = f[i] /\ f[i] = Step(f, i)
        BY <2>1, <2>4, <3>2
      <4>2. i # 1 => g[i - 1] = f[i - 1]
        <5>1. i # 1 => i - 1 \in 1..m /\ i - 1 # m
          BY <2>2, <4>1
        <5> QED BY <2>4, <5>1
      <4> QED BY <4>1, <4>2
    <3> QED BY <3>1, <3>2
  <2> HIDE DEF g
  <2> QED BY <2>6, <2>7
<1> HIDE DEF Joins
<1>4. Bad = {}
  <2> SUFFICES ASSUME Bad # {} PROVE FALSE
    OBVIOUS
  <2>1. Bad \in SUBSET Nat
    BY <1>1
  <2>2. PICK m \in Bad : \A k \in Bad : m <= k
    BY <2>1, LeastMember
  <2>3. m \in 1..n /\ m - 1 \in 0..n /\ m \in Nat
    BY <1>1, <1>2, <2>2
  <2>4. m - 1 \notin Bad
    BY <2>2, <2>3
  <2> QED BY <1>3, <2>2, <2>3, <2>4
<1>5. Joins(n)
  BY <1>1, <1>4
<1>6. CASE n = 0
  BY <1>6 DEF FlattenSeq
<1>7. CASE n # 0
  <2> DEFINE flatten == CHOOSE f : f = [i \in 1..n |-> IF i = 1 THEN seqs[i] ELSE f[i - 1] \o seqs[i]]
  <2>1. PICK f \in [1..n -> Seq(T)] : \A i \in 1..n : f[i] = Step(f, i)
    BY <1>5 DEF Joins
  <2>2. f = [i \in 1..n |-> IF i = 1 THEN seqs[i] ELSE f[i - 1] \o seqs[i]]
    BY <2>1
  <2>3. flatten = [i \in 1..n |-> IF i = 1 THEN seqs[i] ELSE flatten[i - 1] \o seqs[i]]
    BY <2>2
  <2>4. FlattenSeq(seqs) = flatten[n]
    BY <1>7 DEF FlattenSeq
  <2> HIDE DEF flatten
  <2>5. \A i \in 1..n : flatten[i] = IF i = 1 THEN seqs[i] ELSE flatten[i - 1] \o seqs[i]
    BY <2>3
  <2> DEFINE Off == {i \in 1..n : flatten[i] \notin Seq(T)}
  <2>6. Off = {}
    <3> SUFFICES ASSUME Off # {} PROVE FALSE
      OBVIOUS
    <3>1. Off \in SUBSET Nat
      BY <1>1
    <3>2. PICK m \in Off : \A k \in Off : m <= k
      BY <3>1, LeastMember
    <3>3. m \in 1..n /\ m \in Nat /\ seqs[m] \in Seq(T)
      BY <1>1, <3>2
    <3>4. CASE m = 1
      BY <2>5, <3>2, <3>3, <3>4
    <3>5. CASE m # 1
      <4>1. m - 1 \in 1..n /\ m - 1 \notin Off
        BY <1>1, <3>2, <3>3, <3>5
      <4>2. flatten[m - 1] \in Seq(T)
        BY <4>1
      <4>3. flatten[m - 1] \o seqs[m] \in Seq(T)
        BY <3>3, <4>2
      <4> QED BY <2>5, <3>2, <3>3, <3>5, <4>3
    <3> QED BY <3>4, <3>5
  <2>7. n \in 1..n
    BY <1>1, <1>7
  <2> QED BY <2>4, <2>6, <2>7
<1> QED BY <1>6, <1>7

----------------------------------------------------------------------------
(* The profile and the replies *)

(* Every line a project or a reply holds. *)
Lines ==
  (UNION {ToSet(Projects[i].bullets) : i \in DOMAIN Projects})
  \cup (UNION {UNION {ToSet(raw[k].lines) : k \in DOMAIN raw} : raw \in Replies})

Entry == [name : Names, bullets : Seq(Lines)]

(* A list of a set's items is one of any larger set's. *)
LEMMA WiderList ==
  ASSUME NEW S, NEW T, S \subseteq T, NEW s \in Seq(S)
  PROVE  s \in Seq(T)
OBVIOUS

(* A project is the one its name says. *)
LEMMA ProjectFacts ==
  /\ DOMAIN Projects = 1..Len(Projects) /\ Len(Projects) \in Nat
  /\ \A i \in DOMAIN Projects :
       /\ Projects[i].bullets \in Seq(Lines)
       /\ Projects[i].name \in Names
       /\ Source(Projects[i].name) = Projects[i]
  /\ \A name \in Names : \E i \in DOMAIN Projects : Source(name) = Projects[i] /\ Projects[i].name = name
<1>1. DOMAIN Projects = 1..Len(Projects) /\ Len(Projects) \in Nat
  BY ProfileAssumption DEF IsList
<1>2. ASSUME NEW i \in DOMAIN Projects
      PROVE  /\ Projects[i].bullets \in Seq(Lines)
             /\ Projects[i].name \in Names
             /\ Source(Projects[i].name) = Projects[i]
  <2>1. Projects[i].bullets \in Seq(ToSet(Projects[i].bullets))
    BY ProfileAssumption DEF IsList
  <2>2. ToSet(Projects[i].bullets) \subseteq Lines
    BY DEF Lines
  <2>3. Projects[i].bullets \in Seq(Lines)
    BY <2>1, <2>2, WiderList
  <2>4. Projects[i].name \in Names
    BY DEF Names
  <2> DEFINE j == CHOOSE j \in DOMAIN Projects : Projects[j].name = Projects[i].name
  <2>5. j \in DOMAIN Projects /\ Projects[j].name = Projects[i].name
    OBVIOUS
  <2>6. Source(Projects[i].name) = Projects[j]
    BY DEF Source
  <2> HIDE DEF j
  <2>7. j = i
    BY <2>5, ProfileAssumption
  <2> QED BY <2>3, <2>4, <2>6, <2>7
<1>3. \A name \in Names : \E i \in DOMAIN Projects : Source(name) = Projects[i] /\ Projects[i].name = name
  BY <1>2 DEF Names
<1> QED BY <1>1, <1>2, <1>3

(* What a project says of itself is sound. *)
LEMMA OwnBulletsSound ==
  ASSUME NEW p, NEW b \in ToSet(p.bullets)
  PROVE  /\ b.numbers \subseteq _numbers(p.bullets)
         /\ b.names \cap known_tech \subseteq _project_names(p)
BY DEF ToSet, _numbers, _project_names

(* The items a project's entry shows are sound, one by one. *)
SoundLine(b, p) ==
  /\ b.numbers \subseteq _numbers(p.bullets)
  /\ b.names \cap known_tech \subseteq _project_names(p)

(* What is kept of lines that may be shown is sound, and so are the        *)
(* originals that take their place.                                        *)
LEMMA KeptFacts ==
  ASSUME NEW p, p.bullets \in Seq(Lines), NEW allowed \in Seq(Lines),
         \A k \in DOMAIN allowed : SoundLine(allowed[k], p)
  PROVE  /\ Kept(p, allowed) \in Seq(Lines)
         /\ \A k \in DOMAIN Kept(p, allowed) : SoundLine(Kept(p, allowed)[k], p)
<1> DEFINE cap == Count(IF p.bullets = <<>> THEN 1 ELSE Len(p.bullets), MaxBullets)
           some == First(allowed, cap)
<1>1. cap \in Nat
  BY TailorAssumption DEF Count
<1> HIDE DEF cap
<1>2. some \in Seq(Lines) /\ \A k \in DOMAIN some : k \in DOMAIN allowed /\ some[k] = allowed[k]
  BY <1>1, FirstFacts
<1>3. Kept(p, allowed) = IF some = <<>> THEN p.bullets ELSE some
  BY DEF Kept, cap
<1> HIDE DEF some
<1>4. \A k \in DOMAIN p.bullets : SoundLine(p.bullets[k], p)
  BY OwnBulletsSound DEF SoundLine, ToSet
<1>5. CASE some = <<>>
  BY <1>3, <1>4, <1>5
<1>6. CASE some # <<>>
  BY <1>2, <1>3, <1>6
<1> QED BY <1>5, <1>6

(* The guard lets a line of the model's pass only when it is sound.        *)
LEMMA GuardBulletsFacts ==
  ASSUME NEW p, p.bullets \in Seq(Lines), NEW lines \in Seq(Lines)
  PROVE  /\ _guard_bullets(p, lines) \in Seq(Lines)
         /\ \A k \in DOMAIN _guard_bullets(p, lines) : SoundLine(_guard_bullets(p, lines)[k], p)
<1> DEFINE may(b) == /\ b.names \cap (known_tech \ _project_names(p)) = {}
                     /\ b.numbers \subseteq _numbers(p.bullets)
           passing == {i \in DOMAIN lines : may(lines[i])}
           allowed == Picked(lines, passing)
<1>1. passing \in SUBSET DOMAIN lines /\ \A i \in passing : may(lines[i])
  OBVIOUS
<1>2. _guard_bullets(p, lines) = Kept(p, allowed)
  BY DEF _guard_bullets
<1> HIDE DEF passing
<1>3. allowed \in Seq(Lines) /\ \A k \in DOMAIN allowed : \E i \in passing : allowed[k] = lines[i]
  <2>1. passing \in SUBSET DOMAIN lines
    BY <1>1
  <2>2. Picked(lines, passing) \in Seq(Lines)
    BY <2>1, PickedFacts
  <2>3. \A k \in DOMAIN Picked(lines, passing) : \E i \in passing : Picked(lines, passing)[k] = lines[i]
    BY <2>1, PickedFacts
  <2> QED BY <2>2, <2>3
<1> HIDE DEF allowed
<1>4. \A k \in DOMAIN allowed : SoundLine(allowed[k], p)
  BY <1>1, <1>3 DEF SoundLine
<1> QED BY <1>2, <1>3, <1>4, KeptFacts

(* A list of entries that are all sound. *)
SoundProjects(entries) ==
  /\ entries \in Seq(Entry)
  /\ \A k \in DOMAIN entries : \A b \in ToSet(entries[k].bullets) : SoundLine(b, Source(entries[k].name))

(* Without the model a resume shows projects as they are worded.           *)
LEMMA SelectProjectsFacts ==
  ASSUME NEW words
  PROVE  SoundProjects(select_projects(words))
<1> DEFINE score == [i \in DOMAIN Projects |->
                       Cardinality((Projects[i].terms \cup Projects[i].tech) \cap words)]
           order == First(Ranked(score), MaxProjects)
           rows == [k \in DOMAIN order |->
                      [name |-> Projects[order[k]].name, bullets |-> Projects[order[k]].bullets]]
<1>1. score \in [1..Len(Projects) -> Nat]
  <2>1. \A i \in DOMAIN Projects :
          Cardinality((Projects[i].terms \cup Projects[i].tech) \cap words) \in Nat
    <3> TAKE i \in DOMAIN Projects
    <3>1. IsFiniteSet(Projects[i].terms \cup Projects[i].tech)
      BY ProfileAssumption, FS_Union
    <3>2. IsFiniteSet((Projects[i].terms \cup Projects[i].tech) \cap words)
      BY <3>1, FS_Intersection
    <3> QED BY <3>2, FS_CardinalityType
  <2> QED BY <2>1, ProjectFacts
<1>2. select_projects(words) = rows
  BY DEF select_projects
<1> HIDE DEF score
<1>3. Ranked(score) \in Seq(DOMAIN Projects)
  BY <1>1, ProjectFacts, RankedFacts
<1>4. order \in Seq(DOMAIN Projects)
  BY <1>3, FirstFacts, TailorAssumption
<1> HIDE DEF order
<1>5. \A k \in DOMAIN order : order[k] \in DOMAIN Projects
  BY <1>4
<1>6. \A k \in DOMAIN order : rows[k] \in Entry
  BY <1>5, ProjectFacts DEF Entry
<1>7. rows \in Seq(Entry)
  <2>1. DOMAIN order = 1..Len(order) /\ Len(order) \in Nat
    BY <1>4
  <2>2. rows \in [1..Len(order) -> Entry]
    BY <1>6, <2>1
  <2> QED BY <2>1, <2>2
<1>8. ASSUME NEW k \in DOMAIN rows, NEW b \in ToSet(rows[k].bullets)
      PROVE  SoundLine(b, Source(rows[k].name))
  <2>1. /\ k \in DOMAIN order /\ rows[k].name = Projects[order[k]].name
        /\ rows[k].bullets = Projects[order[k]].bullets
    OBVIOUS
  <2>2. Source(rows[k].name) = Projects[order[k]]
    BY <1>5, <2>1, ProjectFacts
  <2> QED BY <1>8, <2>1, <2>2, OwnBulletsSound DEF SoundLine
<1> QED BY <1>2, <1>7, <1>8 DEF SoundProjects

----------------------------------------------------------------------------
(* Skills *)

(* Every item is one the profile lists in that category, or a part of one. *)
Backed(item, category) ==
  \E i \in DOMAIN Skills :
    Skills[i].category = category /\ \E whole \in Skills[i].items : item \subseteq whole

SoundSkills(groups) == \A k \in DOMAIN groups : \A item \in groups[k].items : Backed(item, groups[k].category)

(* The values of a function on a finite set are finitely many. *)
LEMMA FiniteImage ==
  ASSUME NEW S, IsFiniteSet(S), NEW f, DOMAIN f = S
  PROVE  IsFiniteSet({f[x] : x \in S})
<1> DEFINE T == {f[x] : x \in S}
           g == [x \in S |-> f[x]]
<1>1. g \in Surjection(S, T)
  BY DEF Surjection
<1> QED BY <1>1, FS_Surjection

(* What a model's skill line may name is finite. *)
LEMMA AllowedSkillsFinite ==
  ASSUME NEW G, G \subseteq DOMAIN Skills
  PROVE  IsFiniteSet(UNION {Skills[i].items \cup {{n} : n \in UNION Skills[i].items} : i \in G})
<1> DEFINE names(i) == {{n} : n \in UNION Skills[i].items}
           both == [i \in G |-> Skills[i].items \cup names(i)]
<1>1. IsFiniteSet(G)
  <2>1. DOMAIN Skills = 1..Len(Skills) /\ Len(Skills) \in Nat
    BY ProfileAssumption DEF IsList
  <2>2. IsFiniteSet(1..Len(Skills))
    BY <2>1, FS_Interval
  <2> QED BY <2>1, <2>2, FS_Subset
<1>2. ASSUME NEW i \in G PROVE IsFiniteSet(Skills[i].items \cup names(i))
  <2>1. i \in DOMAIN Skills
    OBVIOUS
  <2>2. IsFiniteSet(Skills[i].items) /\ \A item \in Skills[i].items : IsFiniteSet(item)
    BY <2>1, ProfileAssumption
  <2>3. IsFiniteSet(UNION Skills[i].items)
    BY <2>2, FS_UNION
  <2> DEFINE S == UNION Skills[i].items
             f == [n \in S |-> {n}]
  <2>4. IsFiniteSet({f[n] : n \in S})
    BY <2>3, FiniteImage
  <2>5. {f[n] : n \in S} = names(i)
    OBVIOUS
  <2>6. IsFiniteSet(names(i))
    BY <2>4, <2>5
  <2> HIDE DEF names
  <2> QED BY <2>2, <2>6, FS_Union
<1> HIDE DEF names
<1>3. IsFiniteSet({both[i] : i \in G})
  BY <1>1, FiniteImage
<1>4. \A X \in {both[i] : i \in G} : IsFiniteSet(X)
  BY <1>2
<1>5. {both[i] : i \in G} = {Skills[i].items \cup names(i) : i \in G}
  OBVIOUS
<1>6. IsFiniteSet(UNION {Skills[i].items \cup names(i) : i \in G})
  BY <1>3, <1>4, <1>5, FS_UNION
<1> QED BY <1>6 DEF names

(* The keywords choose among the profile's own items. *)
LEMMA SelectSkillsFacts ==
  ASSUME NEW words
  PROVE  SoundSkills(select_skills(words))
<1> DEFINE touching(i) == {item \in Skills[i].items : item \cap words # {}}
           score == [i \in DOMAIN Skills |-> Cardinality(touching(i))]
           order == Ranked(score)
           row(i) == [category |-> Skills[i].category, items |-> AtMost(MaxSkills, touching(i))]
           over == {k \in DOMAIN order : score[order[k]] > 0}
           hit == Picked(order, over)
           groups == [k \in DOMAIN hit |-> row(hit[k])]
           all == [k \in DOMAIN order |-> Skills[order[k]]]
<1>1. DOMAIN Skills = 1..Len(Skills) /\ Len(Skills) \in Nat
  BY ProfileAssumption DEF IsList
<1>2. \A i \in DOMAIN Skills : IsFiniteSet(touching(i)) /\ Cardinality(touching(i)) \in Nat
  <2> TAKE i \in DOMAIN Skills
  <2>1. touching(i) \in SUBSET Skills[i].items /\ IsFiniteSet(Skills[i].items)
    BY ProfileAssumption
  <2> QED BY <2>1, FS_Subset, FS_CardinalityType
<1>3. score \in [1..Len(Skills) -> Nat]
  BY <1>1, <1>2
<1>4. \A i \in DOMAIN Skills :
        /\ row(i).category = Skills[i].category
        /\ \A item \in row(i).items : Backed(item, Skills[i].category)
  <2> TAKE i \in DOMAIN Skills
  <2>1. AtMost(MaxSkills, touching(i)) \subseteq touching(i)
    BY <1>2, AtMostFacts, TailorAssumption
  <2> QED BY <2>1 DEF Backed
<1>5. select_skills(words) = IF hit = <<>> THEN all ELSE First(groups, MaxGroups)
  BY DEF select_skills
<1> HIDE DEF score, row
<1>6. order \in Seq(DOMAIN Skills)
  BY <1>1, <1>3, RankedFacts
<1> HIDE DEF order
<1>7. over \in SUBSET DOMAIN order
  OBVIOUS
<1> HIDE DEF over
<1>8. hit \in Seq(DOMAIN Skills)
  BY <1>6, <1>7, PickedFacts
<1> HIDE DEF hit
<1>9. CASE hit = <<>>
  <2>1. \A k \in DOMAIN all : order[k] \in DOMAIN Skills /\ all[k] = Skills[order[k]]
    BY <1>6
  <2> QED BY <1>5, <1>9, <2>1 DEF SoundSkills, Backed
<1>10. CASE hit # <<>>
  <2> DEFINE T == {row(i) : i \in DOMAIN Skills}
  <2>1. groups \in Seq(T)
    <3>1. DOMAIN hit = 1..Len(hit) /\ Len(hit) \in Nat /\ \A k \in DOMAIN hit : hit[k] \in DOMAIN Skills
      BY <1>8
    <3>2. groups \in [1..Len(hit) -> T]
      BY <3>1
    <3> QED BY <3>1, <3>2
  <2> HIDE DEF groups
  <2>2. First(groups, MaxGroups) \in Seq(T)
    BY <2>1, FirstFacts, TailorAssumption
  <2>3. \A k \in DOMAIN First(groups, MaxGroups) : First(groups, MaxGroups)[k] \in T
    BY <2>2
  <2>4. \A g \in T : \A item \in g.items : Backed(item, g.category)
    BY <1>4
  <2> HIDE DEF T
  <2> QED BY <1>5, <1>10, <2>3, <2>4 DEF SoundSkills
<1> QED BY <1>9, <1>10

(* The guard lets through what the profile lists under the line's category.*)
LEMMA GuardSkillsFacts ==
  ASSUME NEW S, NEW lines \in Seq(S)
  PROVE  SoundSkills(_guard_skills(lines))
<1> DEFINE group(c) == {i \in DOMAIN Skills :
                          /\ Skills[i].category = c
                          /\ \A j \in DOMAIN Skills : j > i => Skills[j].category # c}
           allowed(c) == UNION {Skills[i].items \cup {{n} : n \in UNION Skills[i].items} : i \in group(c)}
           said(c) == UNION {lines[k].items : k \in {k \in DOMAIN lines : lines[k].category = c}}
           cats == [k \in DOMAIN lines |-> lines[k].category]
           named == FirstOfEach(cats)
           backed == {k \in DOMAIN named : allowed(named[k]) \cap said(named[k]) # {}}
           rows == Picked(named, backed)
           row(c) == [category |-> c, items |-> AtMost(MaxSkills, allowed(c) \cap said(c))]
           groups == [k \in DOMAIN rows |-> row(rows[k])]
           C == {lines[k].category : k \in DOMAIN lines}
<1>1. _guard_skills(lines) = First(groups, MaxGroups)
  BY DEF _guard_skills
<1>2. \A c : \A item \in allowed(c) : Backed(item, c)
  <2> SUFFICES ASSUME NEW c, NEW item \in allowed(c) PROVE Backed(item, c)
    OBVIOUS
  <2>1. PICK i \in group(c) : item \in Skills[i].items \/ \E n \in UNION Skills[i].items : item = {n}
    OBVIOUS
  <2>2. \E whole \in Skills[i].items : item \subseteq whole
    BY <2>1
  <2> QED BY <2>1, <2>2 DEF Backed
<1>3. \A c : IsFiniteSet(allowed(c) \cap said(c))
  <2> TAKE c
  <2>1. IsFiniteSet(allowed(c))
    BY AllowedSkillsFinite
  <2> QED BY <2>1, FS_Intersection
<1> HIDE DEF allowed, said
<1>4. \A c : \A item \in row(c).items : Backed(item, row(c).category)
  <2> TAKE c
  <2>1. AtMost(MaxSkills, allowed(c) \cap said(c)) \subseteq allowed(c) \cap said(c)
    BY <1>3, AtMostFacts, TailorAssumption
  <2> QED BY <1>2, <2>1
<1> HIDE DEF row
<1>5. cats \in Seq(C)
  <2>1. DOMAIN lines = 1..Len(lines) /\ Len(lines) \in Nat
    OBVIOUS
  <2>2. cats \in [1..Len(lines) -> C]
    BY <2>1
  <2> QED BY <2>1, <2>2
<1> HIDE DEF cats, C
<1>6. named \in Seq(C)
  <2> DEFINE fresh == {k \in DOMAIN cats : \A m \in 1..(k - 1) : cats[m] # cats[k]}
  <2>1. fresh \in SUBSET DOMAIN cats
    OBVIOUS
  <2>2. named = Picked(cats, fresh)
    BY DEF FirstOfEach
  <2> HIDE DEF fresh, named
  <2> QED BY <1>5, <2>1, <2>2, PickedFacts
<1> HIDE DEF named
<1>7. backed \in SUBSET DOMAIN named
  OBVIOUS
<1> HIDE DEF backed
<1>8. rows \in Seq(C)
  BY <1>6, <1>7, PickedFacts
<1> HIDE DEF rows
<1> DEFINE T == {row(c) : c \in C}
<1>9. groups \in Seq(T)
  <2>1. DOMAIN rows = 1..Len(rows) /\ Len(rows) \in Nat /\ \A k \in DOMAIN rows : rows[k] \in C
    BY <1>8
  <2>2. groups \in [1..Len(rows) -> T]
    BY <2>1
  <2> QED BY <2>1, <2>2
<1> HIDE DEF groups
<1>10. First(groups, MaxGroups) \in Seq(T)
  BY <1>9, FirstFacts, TailorAssumption
<1>11. \A k \in DOMAIN First(groups, MaxGroups) : First(groups, MaxGroups)[k] \in T
  BY <1>10
<1>12. \A g \in T : \A item \in g.items : Backed(item, g.category)
  BY <1>4
<1> HIDE DEF T
<1> QED BY <1>1, <1>11, <1>12 DEF SoundSkills


----------------------------------------------------------------------------
(* The reply *)

(* What is said first of each header is a list of headers.                 *)
LEMMA FirstOfEachFacts ==
  ASSUME NEW C, NEW s \in Seq(C)
  PROVE  FirstOfEach(s) \in Seq(C)
<1> DEFINE fresh == {k \in DOMAIN s : \A m \in 1..(k - 1) : s[m] # s[k]}
<1>1. fresh \in SUBSET DOMAIN s
  OBVIOUS
<1>2. FirstOfEach(s) = Picked(s, fresh)
  BY DEF FirstOfEach
<1> HIDE DEF fresh
<1> QED BY <1>1, <1>2, PickedFacts

(* A reply is a list of sections, each a list of lines.                    *)
LEMMA ReplyFacts ==
  ASSUME NEW raw \in Replies \cup {<<>>}
  PROVE  /\ DOMAIN raw = 1..Len(raw) /\ Len(raw) \in Nat
         /\ \A k \in DOMAIN raw : raw[k].lines \in Seq(Lines)
<1>1. CASE raw = <<>>
  BY <1>1
<1>2. CASE raw \in Replies
  <2>1. raw \in Seq(ToSet(raw))
    BY <1>2, ProfileAssumption DEF IsList
  <2>2. ASSUME NEW k \in DOMAIN raw PROVE raw[k].lines \in Seq(Lines)
    <3>1. raw[k].lines \in Seq(ToSet(raw[k].lines))
      BY <1>2, ProfileAssumption DEF IsList
    <3>2. ToSet(raw[k].lines) \subseteq Lines
      BY <1>2 DEF Lines
    <3> QED BY <3>1, <3>2, WiderList
  <2> QED BY <2>1, <2>2
<1> QED BY <1>1, <1>2

(* All the lines under one header. *)
LEMMA UnderHeader ==
  ASSUME NEW raw \in Replies \cup {<<>>}, NEW h
  PROVE  FlattenSeq([k \in DOMAIN raw |-> IF raw[k].head = h THEN raw[k].lines ELSE <<>>]) \in Seq(Lines)
<1> DEFINE parts == [k \in DOMAIN raw |-> IF raw[k].head = h THEN raw[k].lines ELSE <<>>]
<1>1. DOMAIN raw = 1..Len(raw) /\ Len(raw) \in Nat
  BY ReplyFacts
<1>2. <<>> \in Seq(Lines)
  OBVIOUS
<1>3. \A k \in DOMAIN raw : parts[k] \in Seq(Lines)
  BY <1>2, ReplyFacts
<1>4. parts \in [1..Len(raw) -> Seq(Lines)]
  BY <1>1, <1>3
<1>5. parts \in Seq(Seq(Lines))
  <2> HIDE DEF parts
  <2> QED BY <1>1, <1>4
<1> HIDE DEF parts
<1>6. FlattenSeq(parts) \in Seq(Lines)
  BY <1>5, FlattenFacts
<1> QED BY <1>6 DEF parts

(* The sections of a reply. *)
LEMMA ParseFacts ==
  ASSUME NEW raw \in Replies \cup {<<>>}
  PROVE  \E H : _parse_rewrite(raw) \in Seq([head : H, lines : Seq(Lines)])
<1> DEFINE H == {raw[k].head : k \in DOMAIN raw}
           said == [k \in DOMAIN raw |-> raw[k].head]
           heads == FirstOfEach(said)
           under(h) == FlattenSeq([k \in DOMAIN raw |-> IF raw[k].head = h THEN raw[k].lines ELSE <<>>])
           sections == [k \in DOMAIN heads |-> [head |-> heads[k], lines |-> under(heads[k])]]
<1>1. DOMAIN raw = 1..Len(raw) /\ Len(raw) \in Nat
  BY ReplyFacts
<1>2. said \in [1..Len(raw) -> H]
  BY <1>1
<1>3. said \in Seq(H)
  <2> HIDE DEF said, H
  <2> QED BY <1>1, <1>2
<1>4. \A h : under(h) \in Seq(Lines)
  BY UnderHeader
<1>5. _parse_rewrite(raw) = sections
  BY DEF _parse_rewrite
<1> HIDE DEF said, H, under
<1>6. heads \in Seq(H)
  BY <1>3, FirstOfEachFacts
<1> HIDE DEF heads
<1>7. DOMAIN heads = 1..Len(heads) /\ Len(heads) \in Nat /\ \A k \in DOMAIN heads : heads[k] \in H
  BY <1>6
<1>8. sections \in [1..Len(heads) -> [head : H, lines : Seq(Lines)]]
  BY <1>4, <1>7
<1> HIDE DEF sections
<1>9. sections \in Seq([head : H, lines : Seq(Lines)])
  <2> DEFINE Section == [head : H, lines : Seq(Lines)]
  <2>1. sections \in [1..Len(heads) -> Section]
    BY <1>8
  <2> HIDE DEF Section
  <2>2. sections \in Seq(Section)
    BY <1>7, <2>1
  <2> QED BY <2>2 DEF Section
<1> QED BY <1>5, <1>9

(* Whatever the model answers, the resume states only what is the          *)
(* profile's.                                                              *)
LEMMA TailorResumeFacts ==
  ASSUME NEW raw \in Replies \cup {<<>>}
  PROVE  SoundProjects(tailor_resume(raw).projects) /\ SoundSkills(tailor_resume(raw).skills)
<1> DEFINE sections == _parse_rewrite(raw)
           known == {k \in DOMAIN sections : sections[k].head \in Names}
           ours == Picked(sections, known)
           said == First(ours, MaxProjects)
           rows == FlattenSeq([k \in DOMAIN raw |->
                                 IF raw[k].head = "SKILLS" THEN raw[k].lines ELSE <<>>])
           picked == _guard_skills(rows)
           byKeyword == [projects |-> select_projects(jd), skills |-> select_skills(jd)]
           entry(k) == [name |-> said[k].head,
                        bullets |-> _guard_bullets(Source(said[k].head), said[k].lines)]
           told == [k \in DOMAIN said |-> entry(k)]
           byModel == [projects |-> told,
                       skills |-> IF picked = <<>> THEN select_skills(jd) ELSE picked]
<1>1. tailor_resume(raw) = IF said = <<>> THEN byKeyword ELSE byModel
  BY DEF tailor_resume
<1>2. SoundProjects(byKeyword.projects) /\ SoundSkills(byKeyword.skills)
  BY SelectProjectsFacts, SelectSkillsFacts
<1>3. rows \in Seq(Lines)
  BY UnderHeader
<1> HIDE DEF rows
<1>4. SoundSkills(byModel.skills)
  BY <1>3, GuardSkillsFacts, SelectSkillsFacts
<1> DEFINE Known == [head : Names, lines : Seq(Lines)]
<1>5. said \in Seq(Known)
  <2>1. PICK H : sections \in Seq([head : H, lines : Seq(Lines)])
    BY ParseFacts
  <2> HIDE DEF sections
  <2>2. known \in SUBSET DOMAIN sections
    OBVIOUS
  <2>3. \A k \in known : sections[k] \in Known
    <3> DEFINE Section == [head : H, lines : Seq(Lines)]
    <3>1. sections \in Seq(Section)
      BY <2>1
    <3> HIDE DEF Section
    <3>2. \A k \in DOMAIN sections : sections[k] \in Section
      BY <3>1
    <3>3. ASSUME NEW k \in known PROVE sections[k] \in Known
      <4>1. k \in DOMAIN sections /\ sections[k].head \in Names
        OBVIOUS
      <4>2. sections[k] \in Section
        BY <3>2, <4>1
      <4> QED BY <4>1, <4>2 DEF Section
    <3> QED BY <3>3
  <2> HIDE DEF known
  <2>4. ours \in Seq({sections[k] : k \in known})
    BY <2>1, <2>2, PickedFacts
  <2>5. {sections[k] : k \in known} \subseteq Known
    BY <2>3
  <2>6. ours \in Seq(Known)
    <3> HIDE DEF ours, Known
    <3> QED BY <2>4, <2>5, WiderList
  <2> HIDE DEF ours
  <2> QED BY <2>6, FirstFacts, TailorAssumption
<1> HIDE DEF said
<1>6. DOMAIN said = 1..Len(said) /\ Len(said) \in Nat
  BY <1>5
<1>7. ASSUME NEW k \in DOMAIN said
      PROVE  /\ entry(k) \in Entry
             /\ \A b \in ToSet(entry(k).bullets) : SoundLine(b, Source(entry(k).name))
  <2>1. said[k].head \in Names /\ said[k].lines \in Seq(Lines)
    <3> HIDE DEF Known
    <3>1. said[k] \in Known
      BY <1>5
    <3> QED BY <3>1 DEF Known
  <2>2. Source(said[k].head).bullets \in Seq(Lines)
    BY <2>1, ProjectFacts
  <2> DEFINE p == Source(said[k].head)
             kept == _guard_bullets(p, said[k].lines)
  <2>3. kept \in Seq(Lines) /\ \A i \in DOMAIN kept : SoundLine(kept[i], p)
    BY <2>1, <2>2, GuardBulletsFacts
  <2>4. entry(k) = [name |-> said[k].head, bullets |-> kept]
    OBVIOUS
  <2> HIDE DEF kept, entry
  <2>5. entry(k) \in Entry
    BY <2>1, <2>3, <2>4 DEF Entry
  <2>6. \A b \in ToSet(kept) : SoundLine(b, p)
    BY <2>3 DEF ToSet
  <2> QED BY <2>4, <2>5, <2>6
<1> HIDE DEF entry
<1>8. told \in Seq(Entry)
  <2>1. told \in [1..Len(said) -> Entry]
    BY <1>6, <1>7
  <2> HIDE DEF told
  <2> QED BY <1>6, <2>1
<1>9. SoundProjects(told)
  BY <1>7, <1>8 DEF SoundProjects
<1> HIDE DEF told, byKeyword, picked
<1> QED BY <1>1, <1>2, <1>4, <1>9

----------------------------------------------------------------------------
(* The fitting *)

(* A project that had bullets still has its first and its last.            *)
SameEnds(now, was) ==
  was # <<>> => now # <<>> /\ now[1] = was[1] /\ now[Len(now)] = was[Len(was)]

(* What is left of the projects chosen: the first of them, each with its   *)
(* ends.                                                                   *)
Shortened(now, was) ==
  /\ Count(MinProjects, Len(was)) <= Len(now)
  /\ Len(now) <= Len(was)
  /\ \A k \in DOMAIN now : now[k].name = was[k].name /\ SameEnds(now[k].bullets, was[k].bullets)

(* A list put after another. *)
LEMMA ConcatFacts ==
  ASSUME NEW T, NEW a \in Seq(T), NEW b \in Seq(T)
  PROVE  /\ a \o b \in Seq(T)
         /\ Len(a \o b) = Len(a) + Len(b)
         /\ \A i \in 1..(Len(a) + Len(b)) : (a \o b)[i] = IF i <= Len(a) THEN a[i] ELSE b[i - Len(a)]
OBVIOUS

(* A list with one of its items replaced. *)
LEMMA ReplaceFacts ==
  ASSUME NEW T, NEW s \in Seq(T), NEW i \in DOMAIN s, NEW v \in T
  PROVE  /\ [s EXCEPT ![i] = v] \in Seq(T)
         /\ Len([s EXCEPT ![i] = v]) = Len(s)
         /\ DOMAIN [s EXCEPT ![i] = v] = DOMAIN s
OBVIOUS

(* One bullet from the middle leaves the ends. *)
LEMMA RemoveSecondFacts ==
  ASSUME NEW T, NEW s \in Seq(T), Len(s) >= 3
  PROVE  /\ RemoveAt(s, 2) \in Seq(T)
         /\ SameEnds(RemoveAt(s, 2), s)
         /\ \A i \in DOMAIN RemoveAt(s, 2) : \E j \in DOMAIN s : RemoveAt(s, 2)[i] = s[j]
<1> DEFINE n == Len(s)
           front == SubSeq(s, 1, 1)
           back == SubSeq(s, 3, n)
<1>1. n \in Nat /\ n >= 3
  OBVIOUS
<1>2. front \in Seq(T) /\ Len(front) = 1 /\ front[1] = s[1]
  BY <1>1
<1>3. back \in Seq(T) /\ Len(back) = n - 2 /\ \A i \in 1..(n - 2) : back[i] = s[i + 2]
  BY <1>1
<1>4. RemoveAt(s, 2) = front \o back
  BY <1>1 DEF RemoveAt
<1> HIDE DEF front, back
<1>5. front \o back \in Seq(T) /\ Len(front \o back) = n - 1
  <2>1. front \o back \in Seq(T) /\ Len(front \o back) = Len(front) + Len(back)
    BY <1>2, <1>3, ConcatFacts
  <2>2. 1 + (n - 2) = n - 1
    BY <1>1
  <2> QED BY <1>2, <1>3, <2>1, <2>2
<1>6. (front \o back)[1] = s[1]
  <2>1. \A i \in 1..(Len(front) + Len(back)) :
          (front \o back)[i] = IF i <= Len(front) THEN front[i] ELSE back[i - Len(front)]
    BY <1>2, <1>3, ConcatFacts
  <2>2. 1 \in 1..(1 + (n - 2))
    BY <1>1
  <2> QED BY <1>2, <1>3, <2>1, <2>2
<1>7. \A i \in 2..(n - 1) : (front \o back)[i] = s[i + 1]
  <2> TAKE i \in 2..(n - 1)
  <2>1. i - 1 \in 1..(n - 2) /\ i \in 1..(n - 1) /\ i > 1
    BY <1>1
  <2>2. (front \o back)[i] = back[i - 1]
    <3>1. \A j \in 1..(Len(front) + Len(back)) :
            (front \o back)[j] = IF j <= Len(front) THEN front[j] ELSE back[j - Len(front)]
      BY <1>2, <1>3, ConcatFacts
    <3>2. i \in 1..(1 + (n - 2)) /\ ~ (i <= 1)
      BY <1>1, <2>1
    <3> QED BY <1>2, <1>3, <3>1, <3>2
  <2>3. back[i - 1] = s[i - 1 + 2]
    BY <1>3, <2>1
  <2>4. i - 1 + 2 = i + 1
    BY <1>1
  <2> QED BY <2>2, <2>3, <2>4
<1>8. (front \o back)[n - 1] = s[n]
  <2>1. n - 1 \in 2..(n - 1) /\ (n - 1) + 1 = n
    BY <1>1
  <2> QED BY <1>7, <2>1
<1>9. \A i \in 1..(n - 1) : i = 1 \/ (i \in 2..(n - 1) /\ i + 1 \in 1..n)
  BY <1>1
<1>10. \A i \in DOMAIN (front \o back) : \E j \in DOMAIN s : (front \o back)[i] = s[j]
  <2>1. DOMAIN (front \o back) = 1..(n - 1) /\ DOMAIN s = 1..n /\ 1 \in 1..n
    BY <1>1, <1>5
  <2> QED BY <1>6, <1>7, <1>9, <2>1
<1>11. SameEnds(front \o back, s)
  <2>1. front \o back # <<>>
    BY <1>1, <1>5
  <2> QED BY <1>5, <1>6, <1>8, <2>1 DEF SameEnds
<1> QED BY <1>4, <1>5, <1>10, <1>11

(* A list is a shortening of itself, by nothing.                           *)
LEMMA NothingShortened ==
  ASSUME NEW entries \in Seq(Entry)
  PROVE  Shortened(entries, entries)
BY TailorAssumption DEF Shortened, SameEnds, Count

(* One step of the fitting keeps what remains sound and shortens it by     *)
(* no more than it may.                                                    *)
LEMMA TrimFacts ==
  ASSUME NEW was \in Seq(Entry), NEW now, SoundProjects(now), Shortened(now, was)
  PROVE  SoundProjects(_trim_for_one_page(now)) /\ Shortened(_trim_for_one_page(now), was)
<1> DEFINE n == Len(now)
           last == now[n]
           fewer == [now EXCEPT ![n].bullets = RemoveAt(@, 2)]
<1>1. now \in Seq(Entry) /\ n \in Nat /\ DOMAIN now = 1..n /\ \A k \in 1..n : now[k] \in Entry
  BY DEF SoundProjects
<1>2. CASE n > 0 /\ Len(now[n].bullets) >= 3
  <2>1. n \in 1..n /\ now[n] \in Entry
    BY <1>1, <1>2
  <2>2. last.bullets \in Seq(Lines) /\ last.name \in Names
    BY <2>1 DEF Entry
  <2> DEFINE left == RemoveAt(last.bullets, 2)
  <2>3. /\ left \in Seq(Lines) /\ SameEnds(left, last.bullets)
        /\ \A i \in DOMAIN left : \E j \in DOMAIN last.bullets : left[i] = last.bullets[j]
    BY <1>2, <2>2, RemoveSecondFacts
  <2>4. fewer = [now EXCEPT ![n] = [last EXCEPT !.bullets = left]]
    OBVIOUS
  <2>5. /\ [last EXCEPT !.bullets = left] = [name |-> last.name, bullets |-> left]
        /\ [name |-> last.name, bullets |-> left] \in Entry
    BY <2>1, <2>2, <2>3 DEF Entry
  <2> HIDE DEF fewer, left
  <2>6. fewer \in Seq(Entry) /\ DOMAIN fewer = 1..n /\ Len(fewer) = n
    <3>1. n \in DOMAIN now
      BY <1>1, <2>1
    <3> QED BY <1>1, <2>4, <2>5, <3>1, ReplaceFacts
  <2>7. fewer[n].name = now[n].name /\ fewer[n].bullets = left
    BY <1>1, <2>1, <2>4, <2>5
  <2>8. \A k \in 1..n : k # n => fewer[k] = now[k]
    BY <1>1, <2>4
  <2>9. SoundProjects(fewer)
    <3> SUFFICES ASSUME NEW k \in DOMAIN fewer, NEW b \in ToSet(fewer[k].bullets)
                 PROVE  SoundLine(b, Source(fewer[k].name))
      BY <2>6 DEF SoundProjects
    <3>1. b \in ToSet(now[k].bullets) /\ fewer[k].name = now[k].name
      <4>1. CASE k = n
        BY <2>3, <2>7, <4>1 DEF ToSet
      <4>2. CASE k # n
        BY <2>6, <2>8, <4>2
      <4> QED BY <4>1, <4>2
    <3> QED BY <1>1, <2>6, <3>1 DEF SoundProjects
  <2>10. Shortened(fewer, was)
    <3>1. \A k \in DOMAIN fewer : fewer[k].name = was[k].name /\ SameEnds(fewer[k].bullets, was[k].bullets)
      <4> TAKE k \in DOMAIN fewer
      <4>1. k \in DOMAIN now /\ now[k].name = was[k].name /\ SameEnds(now[k].bullets, was[k].bullets)
        BY <1>1, <2>6 DEF Shortened
      <4>2. CASE k = n
        BY <2>3, <2>7, <4>1, <4>2 DEF SameEnds
      <4>3. CASE k # n
        BY <2>6, <2>8, <4>1, <4>3
      <4> QED BY <4>2, <4>3
    <3> QED BY <2>6, <3>1 DEF Shortened
  <2>11. _trim_for_one_page(now) = fewer
    BY <1>2 DEF _trim_for_one_page, fewer
  <2> QED BY <2>9, <2>10, <2>11
<1>3. CASE ~ (n > 0 /\ Len(now[n].bullets) >= 3) /\ n > MinProjects
  <2> DEFINE some == SubSeq(now, 1, n - 1)
  <2>1. MinProjects \in Nat /\ n - 1 \in Nat /\ n - 1 >= MinProjects
    BY <1>1, <1>3, TailorAssumption
  <2>2. some \in Seq(Entry) /\ Len(some) = n - 1 /\ DOMAIN some = 1..(n - 1)
    BY <1>1, <2>1
  <2>3. \A k \in 1..(n - 1) : k \in DOMAIN now /\ some[k] = now[k]
    BY <1>1, <2>1
  <2> HIDE DEF some
  <2>4. SoundProjects(some)
    BY <2>2, <2>3 DEF SoundProjects
  <2>5. Shortened(some, was)
    <3>1. Len(was) \in Nat /\ n <= Len(was)
      BY DEF Shortened
    <3>2. Count(MinProjects, Len(was)) <= n - 1 /\ n - 1 <= Len(was)
      BY <1>1, <2>1, <3>1 DEF Count
    <3> QED BY <2>2, <2>3, <3>2 DEF Shortened
  <2>6. _trim_for_one_page(now) = some
    BY <1>3 DEF _trim_for_one_page, some
  <2> QED BY <2>4, <2>5, <2>6
<1>4. CASE ~ (n > 0 /\ Len(now[n].bullets) >= 3) /\ ~ (n > MinProjects)
  BY <1>4 DEF _trim_for_one_page
<1> QED BY <1>2, <1>3, <1>4

----------------------------------------------------------------------------
(* The invariant *)

(* The projects chosen, and what the fitting left of them, are sound; a    *)
(* build leaves the file of what is shown, and so it stays until the next  *)
(* trim.                                                                   *)
TailorInv ==
  /\ TailorTypeOK
  /\ SoundProjects(chosen) /\ SoundProjects(tailored)
  /\ SoundSkills(skills)
  /\ Shortened(tailored, chosen)
  /\ (phase = "fit" \/ (phase = "answered" /\ ready)) => pdf = {tailored}

(* An empty resume is sound. *)
LEMMA NothingChosen ==
  /\ SoundProjects(<<>>) /\ SoundSkills(<<>>) /\ Shortened(<<>>, <<>>)
<1>1. <<>> \in Seq(Entry) /\ DOMAIN <<>> = {}
  OBVIOUS
<1>2. Shortened(<<>>, <<>>)
  BY <1>1, NothingShortened
<1> QED BY <1>1, <1>2 DEF SoundProjects, SoundSkills

(* Before the first request there is nothing. *)
LEMMA InitTailor == TailorInit => TailorInv
<1> SUFFICES ASSUME TailorInit PROVE TailorInv
  OBVIOUS
<1>1. TailorTypeOK
  <2>1. requests \in 0..MaxRequests
    BY TailorAssumption DEF TailorInit
  <2>2. pages \in 0..2
    BY DEF TailorInit
  <2>3. jd \in Postings \cup {{}}
    BY DEF TailorInit
  <2> QED BY <2>1, <2>2, <2>3 DEF TailorInit, TailorTypeOK
<1>2. SoundProjects(chosen) /\ SoundProjects(tailored) /\ SoundSkills(skills) /\ Shortened(tailored, chosen)
  BY NothingChosen DEF TailorInit
<1> QED BY <1>1, <1>2 DEF TailorInit, TailorInv

(* Every step keeps the invariant. *)
LEMMA NextTailor ==
  ASSUME TailorInv, [TailorNext]_tailorVars
  PROVE  TailorInv'
<1> USE DEF TailorInv, TailorTypeOK
<1>1. CASE RequestTailoring
  <2>1. /\ SoundProjects(chosen') /\ SoundProjects(tailored') /\ SoundSkills(skills')
        /\ Shortened(tailored', chosen')
    BY <1>1, NothingChosen DEF RequestTailoring
  <2>2. requests' \in 0..MaxRequests
    BY <1>1, TailorAssumption DEF RequestTailoring
  <2>3. pages' \in 0..2
    BY <1>1 DEF RequestTailoring
  <2>4. jd' \in Postings \cup {{}}
    BY <1>1 DEF RequestTailoring
  <2>5. /\ phase' \in {"idle", "complete", "build", "fit", "answered"}
        /\ backend' \in BOOLEAN /\ ready' \in BOOLEAN
        /\ phase' # "fit" /\ phase' # "answered"
    BY <1>1 DEF RequestTailoring
  <2> QED BY <2>1, <2>2, <2>3, <2>4, <2>5
<1>2. CASE CompleteTailoring
  <2>1. PICK raw \in Replies \cup {<<>>} :
          /\ chosen' = tailor_resume(raw).projects
          /\ tailored' = tailor_resume(raw).projects
          /\ skills' = tailor_resume(raw).skills
    BY <1>2 DEF CompleteTailoring
  <2>2. SoundProjects(chosen') /\ SoundProjects(tailored') /\ SoundSkills(skills')
    BY <2>1, TailorResumeFacts
  <2>3. Shortened(tailored', chosen')
    <3>1. chosen' \in Seq(Entry) /\ tailored' = chosen'
      BY <2>1, <2>2 DEF SoundProjects
    <3> QED BY <3>1, NothingShortened
  <2> QED BY <1>2, <2>2, <2>3 DEF CompleteTailoring
<1>3. CASE Compile
  BY <1>3 DEF Compile
<1>4. CASE CompileFails
  BY <1>4 DEF CompileFails
<1>5. CASE Trim
  <2>1. chosen \in Seq(Entry)
    BY DEF SoundProjects
  <2>2. SoundProjects(tailored') /\ Shortened(tailored', chosen)
    BY <1>5, <2>1, TrimFacts DEF Trim
  <2> QED BY <1>5, <2>2 DEF Trim
<1>6. CASE Answer
  BY <1>6 DEF Answer
<1>7. CASE UNCHANGED tailorVars
  BY <1>7 DEF tailorVars
<1> QED BY <1>1, <1>2, <1>3, <1>4, <1>5, <1>6, <1>7 DEF TailorNext, TailorStep

(* For every profile, every set of postings and replies and any caps, the  *)
(* invariant holds: _guard_bullets and _guard_skills leave what is sound,  *)
(* and every trim of build_pdf leaves the ends of what it shortens.        *)
THEOREM TailorInvHolds == TailorSpec => []TailorInv
BY InitTailor, NextTailor, PTL DEF TailorSpec

(* The phases of a request are those of the code, and its type holds.      *)
THEOREM TailorTypeHolds == TailorSpec => []TailorTypeOK
<1>1. TailorInv => TailorTypeOK
  BY DEF TailorInv
<1> QED BY <1>1, TailorInvHolds, PTL

(* What the invariant says of a resume is that nothing in it is invented.  *)
LEMMA NothingInventedInv == TailorInv => NothingInvented
<1> SUFFICES ASSUME TailorInv PROVE NothingInvented
  OBVIOUS
<1>1. ASSUME NEW k \in DOMAIN tailored
      PROVE  tailored[k].name \in Names /\ Sound(tailored[k], Source(tailored[k].name))
  <2>1. tailored[k] \in Entry
    BY DEF TailorInv, SoundProjects
  <2>2. \A i \in DOMAIN tailored[k].bullets : tailored[k].bullets[i] \in ToSet(tailored[k].bullets)
    BY DEF ToSet
  <2>3. \A i \in DOMAIN tailored[k].bullets : SoundLine(tailored[k].bullets[i], Source(tailored[k].name))
    BY <2>2 DEF TailorInv, SoundProjects
  <2> QED BY <2>1, <2>3 DEF Entry, Sound, SoundLine
<1> QED BY <1>1 DEF NothingInvented, TailorInv, SoundSkills, Backed

(* Whatever the model replies, a number or a technology shown under a      *)
(* project is one the profile gives that project, and a skill one it lists *)
(* in that category.                                                       *)
THEOREM NothingInventedHolds == TailorSpec => []NothingInvented
BY NothingInventedInv, TailorInvHolds, PTL

(* And it says that an answer which calls its PDF ready shows that PDF.    *)
LEMMA AnswerIsThePdfInv == TailorInv => AnswerIsThePdf
<1> SUFFICES ASSUME TailorInv, phase = "answered", ready PROVE AnswerIsThePdf
  BY DEF AnswerIsThePdf
<1>1. pdf = {tailored} /\ Len(tailored) >= Count(MinProjects, Len(chosen))
  <2>1. Len(tailored) \in Nat /\ Len(chosen) \in Nat
    BY DEF TailorInv, SoundProjects
  <2> QED BY <2>1, TailorAssumption DEF TailorInv, Shortened, Count
<1>2. ASSUME NEW k \in DOMAIN tailored
      PROVE  LET was == chosen[k].bullets
                 now == tailored[k].bullets
             IN /\ tailored[k].name = chosen[k].name
                /\ was # <<>> => now # <<>> /\ Head(now) = Head(was) /\ Last(now) = Last(was)
  <2>1. k \in DOMAIN chosen
    BY DEF TailorInv, SoundProjects, Shortened
  <2>2. tailored[k].bullets \in Seq(Lines) /\ chosen[k].bullets \in Seq(Lines)
    <3>1. tailored[k] \in Entry /\ chosen[k] \in Entry
      BY <2>1 DEF TailorInv, SoundProjects
    <3> QED BY <3>1 DEF Entry
  <2>3. tailored[k].name = chosen[k].name /\ SameEnds(tailored[k].bullets, chosen[k].bullets)
    BY DEF TailorInv, Shortened
  <2> QED BY <2>2, <2>3 DEF SameEnds, Last
<1> QED BY <1>1, <1>2 DEF AnswerIsThePdf

(* When build_pdf reports a PDF, its file holds the projects of the        *)
(* preview, the first of those chosen, each with its first and its last    *)
(* bullet, however often it was trimmed.                                   *)
THEOREM AnswerIsThePdfHolds == TailorSpec => []AnswerIsThePdf
BY AnswerIsThePdfInv, TailorInvHolds, PTL
=====================================================================================
