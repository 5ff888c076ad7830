------------------------ MODULE PackageRenamesProofs ------------------------
(***************************************************************************)
(* Proofs about PackageRenames, for any names, components, packages and    *)
(* rules.  That a merge widens nothing does not rest on how a candidate    *)
(* was guessed: whatever it maps, it is used only where the names it       *)
(* renames hold each other as they did, and the longest of the new names   *)
(* that hold a module answers for it.  That a plain move is found rests on *)
(* the guess: one pair of packages, cut to the prefixes that differ.       *)
(***************************************************************************)
EXTENDS PackageRenames, FiniteSetTheorems, NaturalsInduction, WellFoundedInduction, SequenceTheorems,
        TLAPS

(* A nonempty set of numbers has a least one. *)
LEMMA LeastNumber ==
  ASSUME NEW T, T \subseteq Nat, T # {}
  PROVE  \E n \in T : \A m \in T : n <= m
<1>1. \E n \in T : \A m \in T : <<m, n>> \notin OpToRel(<, Nat)
  BY WFMin, NatLessThanWellFounded
<1>2. \A m, n \in Nat : <<m, n>> \in OpToRel(<, Nat) <=> m < n
  BY DEF OpToRel
<1>3. PICK n \in T : \A m \in T : <<m, n>> \notin OpToRel(<, Nat)
  BY <1>1
<1>4. ASSUME NEW m \in T PROVE n <= m
  <2>1. m \in Nat /\ n \in Nat
    OBVIOUS
  <2>2. ~(m < n)
    BY <1>2, <1>3, <2>1
  <2> QED BY <2>1, <2>2
<1> QED BY <1>4

(* What Min chooses of a set of numbers is one of them. *)
LEMMA MinIsIn ==
  ASSUME NEW T, T \subseteq Nat, T # {}
  PROVE  Min(T) \in T
<1>1. PICK n \in T : \A m \in T : n <= m
  BY LeastNumber
<1> QED BY <1>1 DEF Min

-----------------------------------------------------------------------------
(* Prefixes: what holds a holder of a name holds the name, and of two      *)
(* names that hold a third one the longer is held by the shorter.          *)

(* What holds a holder of a name holds the name. *)
LEMMA HeldThrough ==
  ASSUME NEW S, NEW l \in Seq(S), NEW m, NEW s, in_scope(l, m), in_scope(m, s)
  PROVE  in_scope(l, s)
<1>1. PICK i \in 1 .. Len(l) : m = SubSeq(l, 1, i)
  BY DEF in_scope
<1>2. m \in Seq(S) /\ Len(m) = i
  BY <1>1, SubSeqProperties
<1>3. PICK j \in 1 .. i : s = SubSeq(m, 1, j)
  BY <1>2 DEF in_scope
<1>4. s = SubSeq(l, 1, j)
  BY <1>1, <1>3, SubSeqOfSubSeq
<1> QED BY <1>4 DEF in_scope

(* Of two names that hold a third one the shorter holds the longer. *)
LEMMA HoldersNest ==
  ASSUME NEW S, NEW l \in Seq(S), NEW m, NEW s, in_scope(l, m), in_scope(l, s), Len(s) <= Len(m)
  PROVE  in_scope(m, s)
<1>1. PICK i \in 1 .. Len(l) : m = SubSeq(l, 1, i)
  BY DEF in_scope
<1>2. PICK j \in 1 .. Len(l) : s = SubSeq(l, 1, j)
  BY DEF in_scope
<1>3. Len(m) = i /\ Len(s) = j
  BY <1>1, <1>2, SubSeqProperties
<1>4. s = SubSeq(m, 1, j)
  BY <1>1, <1>2, <1>3, SubSeqOfSubSeq
<1> QED BY <1>3, <1>4 DEF in_scope

(* A name holds itself. *)
LEMMA HoldsItself ==
  ASSUME NEW S, NEW l \in Seq(S), l # <<>>
  PROVE  in_scope(l, l)
<1>1. Len(l) \in 1 .. Len(l) /\ l = SubSeq(l, 1, Len(l))
  BY SubSeqFull, EmptySeq, LenProperties
<1> QED BY <1>1 DEF in_scope

-----------------------------------------------------------------------------
(* Names *)

(* Every name has a segment. *)
LEMMA NamesAreSequences == \A n \in Names : n \in Seq(Segments) /\ n # <<>>
  BY NameAssumption

(* Names, modules below them and the unknown one are sequences. *)
LEMMA ModulesAreSequences ==
  ASSUME NEW m \in Modules
  PROVE  m \in Seq(Segments \cup {Absent})
<1>1. \A n \in Names : n \in Seq(Segments \cup {Absent})
  BY NamesAreSequences
<1>2. CASE m \in Names
  BY <1>1, <1>2
<1>3. ASSUME NEW n \in Names, NEW k \in Names, m = n \o <<last_name(k)>>
      PROVE  m \in Seq(Segments \cup {Absent})
  <2>1. k \in Seq(Segments) /\ k # <<>>
    BY NamesAreSequences
  <2>2. last_name(k) \in Segments
    BY <2>1, LenProperties, EmptySeq, ElementOfSeq DEF last_name
  <2>3. <<last_name(k)>> \in Seq(Segments \cup {Absent})
    BY <2>2
  <2> QED BY <2>3, <1>1, <1>3, ConcatProperties
<1>4. CASE m = <<Absent>>
  BY <1>4
<1>5. m \in Names \/ (\E n, k \in Names : m = n \o <<last_name(k)>>) \/ m = <<Absent>>
  BY SMT DEF Modules
<1> QED BY <1>2, <1>3, <1>4, <1>5

(* No name holds the unknown module. *)
LEMMA UnknownIsUnheld ==
  ASSUME NEW n \in Names
  PROVE  ~in_scope(<<Absent>>, n)
<1> SUFFICES ASSUME in_scope(<<Absent>>, n) PROVE FALSE
  OBVIOUS
<1>1. PICK i \in 1 .. Len(<<Absent>>) : n = SubSeq(<<Absent>>, 1, i)
  BY DEF in_scope
<1>2. i = 1
  BY <1>1
<1>3. <<Absent>> \in Seq({Absent}) /\ Len(<<Absent>>) = 1
  OBVIOUS
<1>4. SubSeq(<<Absent>>, 1, 1) = <<Absent>>
  BY <1>3, SubSeqFull
<1>5. <<Absent>> \in Seq(Segments)
  BY <1>1, <1>2, <1>4, NamesAreSequences
<1>6. Absent \in Segments
  BY <1>5, <1>3, ElementOfSeq
<1> QED BY <1>6, NameAssumption

-----------------------------------------------------------------------------
(* The candidate that is used *)

(* The candidates are a sequence of at most two mappings. *)
LEMMA CandidatesAreNumbered ==
  ASSUME NEW before, NEW after
  PROVE  DOMAIN rename_candidates(before, after) \subseteq Nat
<1> DEFINE pairs == UNION {_moved(before[c], after[c]) : c \in Components}
           short == _mapping({_shortest(p[1], p[2]) : p \in pairs})
           long  == _mapping(pairs)
           Found(mapping) == IF mapping = NoRenames THEN <<>> ELSE <<mapping>>
           first  == Found(short)
           second == IF long = short THEN <<>> ELSE Found(long)
<1>1. rename_candidates(before, after) = first \o second
  BY DEF rename_candidates
<1> HIDE DEF pairs
<1>2. first \in Seq({short, long}) /\ second \in Seq({short, long})
  <2> HIDE DEF short, long
  <2>1. <<>> \in Seq({short, long}) /\ <<short>> \in Seq({short, long}) /\ <<long>> \in Seq({short, long})
    OBVIOUS
  <2>2. first = <<>> \/ first = <<short>>
    OBVIOUS
  <2>3. second = <<>> \/ second = <<long>>
    OBVIOUS
  <2> QED BY <2>1, <2>2, <2>3
<1> HIDE DEF first, second, short, long
<1>3. first \o second \in Seq({short, long})
  BY <1>2, ConcatProperties
<1>4. DOMAIN (first \o second) = 1 .. Len(first \o second)
  BY <1>3, LenProperties
<1> QED BY <1>1, <1>4

(* The old contract is compared as it is, or under a candidate that holds. *)
LEMMA ComparedAsHeld ==
  ASSUME NEW policy, NEW candidates, NEW observed, DOMAIN candidates \subseteq Nat
  PROVE  \/ Compared(policy, candidates, observed) = policy
         \/ \E n \in DOMAIN candidates :
              /\ rename_holds(candidates[n], module_references(policy), observed)
              /\ Compared(policy, candidates, observed) = renamed_contract(policy, candidates[n])
<1> DEFINE holding == {n \in DOMAIN candidates :
                         rename_holds(candidates[n], module_references(policy), observed)}
<1>1. Compared(policy, candidates, observed) =
        IF holding = {} THEN policy ELSE renamed_contract(policy, candidates[Min(holding)])
  BY DEF Compared
<1>2. CASE holding = {}
  BY <1>1, <1>2
<1>3. CASE holding # {}
  <2>1. Min(holding) \in holding
    <3>1. holding \subseteq Nat
      OBVIOUS
    <3> HIDE DEF holding
    <3> QED BY <3>1, <1>3, MinIsIn
  <2> QED BY <1>1, <1>3, <2>1
<1> QED BY <1>2, <1>3

(* Under a candidate that holds, the names of the contract hold each other *)
(* as they did.                                                            *)
LEMMA HoldersAreKept ==
  ASSUME NEW renames, NEW names, NEW observed, rename_holds(renames, names, observed),
         NEW old \in names, NEW n \in names
  PROVE  in_scope(old, n) <=> in_scope(renamed(old, renames), renamed(n, renames))
<1> DEFINE olds == names \cup DOMAIN renames
<1>1. KeepsHolders(olds, renames)
  BY DEF rename_holds
<1>2. old \in olds /\ n \in olds
  OBVIOUS
<1> HIDE DEF olds
<1>3. Holding(old, olds) = {k \in olds : in_scope(renamed(old, renames), renamed(k, renames))}
  BY <1>1, <1>2 DEF KeepsHolders
<1> QED BY <1>2, <1>3 DEF Holding

(* A name below none of the old prefixes keeps its name. *)
LEMMA KeepsItsName ==
  ASSUME NEW name, NEW renames, \A old \in DOMAIN renames : ~in_scope(name, old)
  PROVE  renamed(name, renames) = name
<1>1. {old \in DOMAIN renames : in_scope(name, old)} = {}
  OBVIOUS
<1> QED BY <1>1 DEF renamed

-----------------------------------------------------------------------------
(* Policies *)

(* All that a policy names are names, and it has at most one rule. *)
LEMMA PoliciesNameNames ==
  ASSUME NEW policy \in Policies
  PROVE  /\ \A c \in Components : policy.packages[c] \subseteq Names
         /\ \A r \in policy.rules : r.source \in Names /\ r.allowed \subseteq Names
         /\ \A r, s \in policy.rules : r = s
         /\ module_references(policy) \subseteq Names
<1>1. policy.packages \in [Components -> SUBSET Names]
  BY ContractAssumption DEF Policies
<1>2. policy.rules = {} \/ \E r \in Rules : policy.rules = {r}
  BY DEF Policies, RuleSets
<1>3. \A r \in Rules : r.source \in Names /\ r.allowed \subseteq Names
  BY ContractAssumption
<1>4. \A c \in Components : policy.packages[c] \subseteq Names
  BY <1>1
<1>5. \A r \in policy.rules : r.source \in Names /\ r.allowed \subseteq Names
  BY <1>2, <1>3
<1>6. \A r, s \in policy.rules : r = s
  BY <1>2
<1>7. module_references(policy) \subseteq Names
  BY <1>4, <1>5 DEF module_references
<1> QED BY <1>4, <1>5, <1>6, <1>7

(* What module_references lists. *)
LEMMA PolicyRefers ==
  ASSUME NEW policy
  PROVE  /\ \A c \in Components : policy.packages[c] \subseteq module_references(policy)
         /\ \A r \in policy.rules : {r.source} \cup r.allowed \subseteq module_references(policy)
  BY DEF module_references

-----------------------------------------------------------------------------
(* A step that merges *)

(* After a merge the packages are the old ones under the names that map    *)
(* gives them, a rule that was is from the source it was, and allows       *)
(* nothing that was not; and these names hold each other as they did.      *)
Explains(map, before, after) ==
  /\ \A c \in Components : after.packages[c] = {map[n] : n \in before.packages[c]}
  /\ \A old \in before.rules : \E new \in after.rules :
       /\ new.source = map[old.source]
       /\ \A n \in new.allowed : \E a \in old.allowed : n = map[a]
  /\ \A old, n \in module_references(before) :
       in_scope(old, n) <=> in_scope(map[old], map[n])

(* What widens nothing is explained, by no renames or by a candidate. *)
LEMMA MergeIsExplained ==
  ASSUME NEW before \in Policies, NEW candidates, DOMAIN candidates \subseteq Nat, NEW observed,
         NEW packages, NEW rules,
         ~Widens(Compared(before, candidates, observed), [packages |-> packages, rules |-> rules])
  PROVE  \E map : Explains(map, before, [packages |-> packages, rules |-> rules])
<1> DEFINE refs  == module_references(before)
           after == [packages |-> packages, rules |-> rules]
           compared == Compared(before, candidates, observed)
<1>1. /\ \A c \in Components : before.packages[c] \subseteq refs
      /\ \A r \in before.rules : {r.source} \cup r.allowed \subseteq refs
  BY PolicyRefers
<1>2. /\ after.packages = packages
      /\ after.rules = rules
  OBVIOUS
<1>3. ~Widens(compared, after)
  OBVIOUS
<1>4. /\ compared.packages = packages
      /\ \A old \in compared.rules : \E new \in rules :
           new.source = old.source /\ new.allowed \subseteq old.allowed
  <2> HIDE DEF compared, after
  <2> QED BY <1>2, <1>3 DEF Widens, RuleWidens
<1>5. CASE compared = before
  <2> DEFINE map == [n \in refs |-> n]
  <2>1. \A c \in Components : packages[c] = {map[n] : n \in before.packages[c]}
    <3> HIDE DEF refs
    <3> QED BY <1>1, <1>4, <1>5
  <2>2. ASSUME NEW old \in before.rules
        PROVE  \E new \in rules :
                 /\ new.source = map[old.source]
                 /\ \A n \in new.allowed : \E a \in old.allowed : n = map[a]
    <3>1. PICK new \in rules : new.source = old.source /\ new.allowed \subseteq old.allowed
      <4> HIDE DEF compared
      <4> QED BY <1>4, <1>5
    <3>2. map[old.source] = old.source /\ \A a \in old.allowed : map[a] = a
      <4> HIDE DEF refs
      <4> QED BY <1>1
    <3> HIDE DEF map
    <3> QED BY <3>1, <3>2
  <2>3. \A old, n \in refs : in_scope(old, n) <=> in_scope(map[old], map[n])
    <3> HIDE DEF refs
    <3> QED OBVIOUS
  <2>4. Explains(map, before, after)
    <3> HIDE DEF map, after
    <3> QED BY <2>1, <2>2, <2>3, <1>2 DEF Explains
  <2> QED BY <2>4
<1>6. ASSUME NEW renames, rename_holds(renames, refs, observed),
             compared = renamed_contract(before, renames)
      PROVE  \E map : Explains(map, before, after)
  <2> DEFINE map == [n \in refs |-> renamed(n, renames)]
  <2>1. /\ compared.packages = [c \in Components |-> {renamed(n, renames) : n \in before.packages[c]}]
        /\ compared.rules = {[source  |-> renamed(r.source, renames),
                              allowed |-> {renamed(n, renames) : n \in r.allowed}] : r \in before.rules}
    <3> HIDE DEF compared
    <3> QED BY <1>6 DEF renamed_contract, RenamedAll
  <2>2. \A c \in Components : packages[c] = {map[n] : n \in before.packages[c]}
    <3> SUFFICES ASSUME NEW c \in Components
                 PROVE  packages[c] = {map[n] : n \in before.packages[c]}
      OBVIOUS
    <3>1. \A n \in before.packages[c] : map[n] = renamed(n, renames)
      <4> HIDE DEF refs
      <4> QED BY <1>1
    <3>2. packages[c] = {renamed(n, renames) : n \in before.packages[c]}
      <4> HIDE DEF compared
      <4> QED BY <1>4, <2>1
    <3> HIDE DEF map
    <3> QED BY <3>1, <3>2
  <2>3. ASSUME NEW old \in before.rules
        PROVE  \E new \in rules :
                 /\ new.source = map[old.source]
                 /\ \A n \in new.allowed : \E a \in old.allowed : n = map[a]
    <3> DEFINE moved == [source  |-> renamed(old.source, renames),
                         allowed |-> {renamed(n, renames) : n \in old.allowed}]
    <3>1. moved \in compared.rules
      <4> HIDE DEF compared
      <4> QED BY <2>1
    <3>2. PICK new \in rules : new.source = moved.source /\ new.allowed \subseteq moved.allowed
      <4> HIDE DEF moved, compared
      <4> QED BY <1>4, <3>1
    <3>3. map[old.source] = renamed(old.source, renames)
      <4> HIDE DEF refs
      <4> QED BY <1>1
    <3>4. \A a \in old.allowed : map[a] = renamed(a, renames)
      <4> HIDE DEF refs
      <4> QED BY <1>1
    <3> HIDE DEF map
    <3> QED BY <3>2, <3>3, <3>4
  <2>4. \A old, n \in refs : in_scope(old, n) <=> in_scope(map[old], map[n])
    <3> HIDE DEF refs
    <3> QED BY <1>6, HoldersAreKept
  <2>5. Explains(map, before, after)
    <3> HIDE DEF map, after
    <3> QED BY <2>2, <2>3, <2>4, <1>2 DEF Explains
  <2> QED BY <2>5
<1>7. compared = before \/ \E n \in DOMAIN candidates :
        rename_holds(candidates[n], refs, observed) /\ compared = renamed_contract(before, candidates[n])
  BY ComparedAsHeld
<1> QED BY <1>5, <1>6, <1>7

-----------------------------------------------------------------------------
(* Judgements *)

(* Of the names under which a merge has put those that judge, the longest  *)
(* that holds a module holds and is held by the same ones as that module.  *)
LEMMA LongestAnswers ==
  ASSUME NEW m, m \in Seq(Segments \cup {Absent}), NEW judges, judges \subseteq Names,
         NEW map, \A n \in judges : map[n] \in Names,
         \A n, k \in judges : in_scope(n, k) <=> in_scope(map[n], map[k])
  PROVE  \E was \in Names \cup {<<Absent>>} :
           \A n \in judges : in_scope(was, n) <=> in_scope(m, map[n])
<1> DEFINE holders == {n \in judges : in_scope(m, map[n])}
<1>1. CASE holders = {}
  <2>1. \A n \in judges : ~in_scope(<<Absent>>, n)
    BY UnknownIsUnheld
  <2> QED BY <1>1, <2>1
<1>2. CASE holders # {}
  <2> DEFINE rest(n) == Len(m) - Len(map[n])
             rests == {rest(n) : n \in holders}
  <2>1. ASSUME NEW n \in holders
        PROVE  Len(map[n]) \in Nat /\ rest(n) \in Nat
    <3>1. PICK i \in 1 .. Len(m) : map[n] = SubSeq(m, 1, i)
      BY DEF in_scope
    <3>2. Len(map[n]) = i
      BY <3>1, SubSeqProperties
    <3> QED BY <3>2, LenProperties
  <2>2. rests \subseteq Nat /\ rests # {}
    <3> HIDE DEF holders, rest
    <3> QED BY <2>1, <1>2
  <2>3. PICK least \in rests : \A r \in rests : least <= r
    <3> HIDE DEF rests
    <3> QED BY <2>2, LeastNumber
  <2>4. PICK h \in holders : least = rest(h)
    OBVIOUS
  <2>5. \A n \in holders : Len(map[n]) <= Len(map[h])
    <3> SUFFICES ASSUME NEW n \in holders PROVE Len(map[n]) <= Len(map[h])
      OBVIOUS
    <3>1. rest(n) \in rests
      OBVIOUS
    <3>2. rest(h) <= rest(n)
      <4> HIDE DEF rests, rest
      <4> QED BY <3>1, <2>3, <2>4
    <3> QED BY <3>2, <2>1, LenProperties
  <2>6. ASSUME NEW n \in judges
        PROVE  in_scope(h, n) <=> in_scope(m, map[n])
    <3>1. ASSUME in_scope(h, n) PROVE in_scope(m, map[n])
      <4>1. in_scope(map[h], map[n])
        BY <3>1
      <4> QED BY <4>1, HeldThrough
    <3>2. ASSUME in_scope(m, map[n]) PROVE in_scope(h, n)
      <4>1. Len(map[n]) <= Len(map[h])
        BY <3>2, <2>5
      <4>2. in_scope(map[h], map[n])
        BY <4>1, <3>2, HoldersNest
      <4> QED BY <4>2
    <3> QED BY <3>1, <3>2
  <2>7. h \in Names
    OBVIOUS
  <2> QED BY <2>6, <2>7
<1> QED BY <1>1, <1>2

Judgement(policy, m) ==
  [owners |-> Owners(policy, m), held |-> Held(policy, m), allowed |-> Allowed(policy, m)]

NoMore(after, before) ==
  /\ after.owners = before.owners
  /\ before.held => after.held
  /\ after.allowed => before.allowed \/ ~before.held

(* After a merge a module is judged as strictly as some name was.          *)
LEMMA ExplainedWidensNothing ==
  ASSUME NEW before \in Policies, NEW after \in Policies, NEW map, Explains(map, before, after),
         NEW m \in Modules
  PROVE  \E was \in Modules : NoMore(Judgement(after, m), Judgement(before, was))
<1> DEFINE refs == module_references(before)
<1>1. /\ \A c \in Components : before.packages[c] \subseteq refs
      /\ \A r \in before.rules : {r.source} \cup r.allowed \subseteq refs
  BY PolicyRefers
<1>2. \A old, n \in refs : in_scope(old, n) <=> in_scope(map[old], map[n])
  BY DEF Explains
<1>3. \A c \in Components : after.packages[c] = {map[n] : n \in before.packages[c]}
  BY DEF Explains
<1>4. \A old \in before.rules : \E new \in after.rules :
        /\ new.source = map[old.source]
        /\ \A n \in new.allowed : \E a \in old.allowed : n = map[a]
  BY DEF Explains
<1> DEFINE Alike(was) ==
      /\ \A c \in Components : \A n \in before.packages[c] : in_scope(was, n) <=> in_scope(m, map[n])
      /\ \A r \in before.rules : in_scope(was, r.source) <=> in_scope(m, map[r.source])
<1> HIDE DEF refs
<1>5. ASSUME NEW was \in Modules, Alike(was)
      PROVE  Owners(after, m) = Owners(before, was)
  BY <1>3, <1>5 DEF Owners
<1>6. ASSUME NEW was \in Modules, Alike(was), Held(before, was)
      PROVE  Held(after, m)
  <2>1. PICK old \in before.rules : in_scope(was, old.source)
    BY <1>6 DEF Held
  <2>2. PICK new \in after.rules : new.source = map[old.source]
    BY <1>4
  <2> QED BY <2>1, <2>2, <1>6 DEF Held
<1>7. CASE Allowed(after, m) /\ before.rules # {}
  <2>1. PICK old \in before.rules : TRUE
    BY <1>7
  <2>2. PICK new \in after.rules : \A n \in new.allowed : \E a \in old.allowed : n = map[a]
    BY <1>4
  <2>3. m \in new.allowed
    BY <1>7, PoliciesNameNames DEF Allowed
  <2>4. PICK was \in old.allowed : m = map[was]
    BY <2>2, <2>3
  <2>5. was \in refs /\ was \in Modules
    BY <1>1, PoliciesNameNames DEF Modules
  <2>6. Alike(was)
    BY <1>1, <1>2, <2>4, <2>5
  <2>7. Held(before, was) => Allowed(before, was)
    BY <2>4, PoliciesNameNames DEF Held, Allowed
  <2> HIDE DEF Alike
  <2> QED BY <1>5, <1>6, <2>5, <2>6, <2>7 DEF NoMore, Judgement
<1>8. CASE ~Allowed(after, m) \/ before.rules = {}
  <2> DEFINE judges == (UNION {before.packages[c] : c \in Components}) \cup {r.source : r \in before.rules}
  <2>1. judges \subseteq refs /\ judges \subseteq Names
    BY <1>1, PoliciesNameNames
  <2>2. \A n \in judges : map[n] \in Names
    BY <1>3, <1>4, PoliciesNameNames
  <2>3. m \in Seq(Segments \cup {Absent})
    BY ModulesAreSequences
  <2>4. PICK was \in Names \cup {<<Absent>>} : \A n \in judges : in_scope(was, n) <=> in_scope(m, map[n])
    <3> HIDE DEF judges
    <3> QED BY <2>1, <2>2, <2>3, <1>2, LongestAnswers
  <2>5. Alike(was)
    BY <2>4
  <2>6. was \in Modules
    BY DEF Modules
  <2>7. before.rules = {} => ~Held(before, was)
    BY DEF Held
  <2> HIDE DEF Alike, judges
  <2> QED BY <1>5, <1>6, <1>8, <2>5, <2>6, <2>7 DEF NoMore, Judgement
<1> QED BY <1>7, <1>8

(* A merge keeps the rule over a module that is scanned: no candidate that *)
(* renames what holds the module is used.                                  *)
LEMMA MergeGoverns ==
  ASSUME NEW before \in Policies, NEW candidates, DOMAIN candidates \subseteq Nat,
         NEW m \in Names, NEW after,
         ~Widens(Compared(before, candidates, {m}), after), Held(before, m)
  PROVE  Held(after, m)
<1> DEFINE compared == Compared(before, candidates, {m})
<1>1. PICK old \in before.rules : in_scope(m, old.source)
  BY DEF Held
<1>2. \E r \in compared.rules : r.source = old.source
  <2>1. CASE compared = before
    BY <2>1, <1>1
  <2>2. ASSUME NEW renames, rename_holds(renames, module_references(before), {m}),
               compared = renamed_contract(before, renames)
        PROVE  \E r \in compared.rules : r.source = old.source
    <3>1. \A p \in DOMAIN renames : ~in_scope(m, p)
      BY <2>2 DEF rename_holds, NothingLeft
    <3>2. \A p \in DOMAIN renames : ~in_scope(old.source, p)
      BY <3>1, <1>1, NamesAreSequences, HeldThrough
    <3>3. renamed(old.source, renames) = old.source
      BY <3>2, KeepsItsName
    <3>4. [source  |-> renamed(old.source, renames),
           allowed |-> RenamedAll(old.allowed, renames)] \in compared.rules
      <4> HIDE DEF compared
      <4> QED BY <2>2 DEF renamed_contract
    <3> HIDE DEF compared
    <3> QED BY <3>3, <3>4
  <2>3. compared = before \/ \E n \in DOMAIN candidates :
          /\ rename_holds(candidates[n], module_references(before), {m})
          /\ compared = renamed_contract(before, candidates[n])
    BY ComparedAsHeld
  <2> QED BY <2>1, <2>2, <2>3
<1>3. \E new \in after.rules : new.source = old.source
  <2> HIDE DEF compared
  <2>1. ~Widens(compared, after)
    BY DEF compared
  <2> QED BY <2>1, <1>2 DEF Widens, RuleWidens
<1> QED BY <1>1, <1>3 DEF Held

-----------------------------------------------------------------------------
(* The theorems *)

TypeOK ==
  /\ contract \in Policies
  /\ module \in Names \cup {Absent}

(* The contract of the main revision is always one of those the constants  *)
(* describe, and the module a name or none.                                *)
THEOREM TypeCorrect == Spec => []TypeOK
<1>1. Init => TypeOK
  BY DEF Init, TypeOK
<1>2. TypeOK /\ [Next]_vars => TypeOK'
  <2> SUFFICES ASSUME TypeOK, [Next]_vars PROVE TypeOK'
    OBVIOUS
  <2>1. CASE Accept
    BY <2>1 DEF Accept, TypeOK, Policies
  <2>2. CASE Arrive
    BY <2>2 DEF Arrive, TypeOK
  <2>3. CASE UNCHANGED vars
    BY <2>3 DEF vars, TypeOK
  <2> QED BY <2>1, <2>2, <2>3 DEF Next
<1> QED BY <1>1, <1>2, PTL DEF Spec

(* Judged is what Judgement says of each module. *)
LEMMA JudgedByJudgement ==
  ASSUME NEW before \in Policies, NEW after \in Policies,
         \A m \in Modules : \E was \in Modules : NoMore(Judgement(after, m), Judgement(before, was))
  PROVE  \A now \in Judged(after) : \E then \in Judged(before) : NoMore(now, then)
<1>1. \A policy : Judged(policy) = {Judgement(policy, m) : m \in Modules}
  BY DEF Judged, Judgement
<1> QED BY <1>1

(* renames_since() and contract_widening_changes(): a merge that needs no  *)
(* decision judges each name as strictly as some name was judged before,   *)
(* whatever the candidates were.                                           *)
THEOREM RenamesWidenNothing == Spec => RenameWidensNothing
<1> DEFINE Widened == ~\A after \in Judged(contract)' : \E before \in Judged(contract) :
                         NoMore(after, before)
<1>1. TypeOK /\ TypeOK' /\ [Next]_vars => [~Widened]_vars
  <2> SUFFICES ASSUME TypeOK, TypeOK', Next PROVE ~Widened
    OBVIOUS
  <2>1. contract \in Policies /\ contract' \in Policies
    BY DEF TypeOK
  <2>2. PICK B, A : B = contract /\ A = contract'
    OBVIOUS
  <2>3. Judged(contract)' = Judged(A) /\ Judged(contract) = Judged(B)
    BY <2>2
  <2>4. \A m \in Modules : \E was \in Modules : NoMore(Judgement(A, m), Judgement(B, was))
    <3>1. CASE Accept
      <4>1. PICK packages \in Packages, rules \in RuleSets :
              /\ A = [packages |-> packages, rules |-> rules]
              /\ ~Widens(Compared(B, rename_candidates(B.packages, packages), {module'} \ {Absent}),
                         [packages |-> packages, rules |-> rules])
        BY <3>1, <2>2 DEF Accept
      <4>2. DOMAIN rename_candidates(B.packages, packages) \subseteq Nat
        BY CandidatesAreNumbered
      <4>3. \E map : Explains(map, B, A)
        <5>1. PICK candidates, observed :
                candidates = rename_candidates(B.packages, packages) /\ observed = {module'} \ {Absent}
          OBVIOUS
        <5>2. ~Widens(Compared(B, candidates, observed), [packages |-> packages, rules |-> rules])
          BY <4>1, <5>1
        <5>3. DOMAIN candidates \subseteq Nat
          BY <4>2, <5>1
        <5>4. \E map : Explains(map, B, [packages |-> packages, rules |-> rules])
          BY <5>2, <5>3, <2>1, <2>2, MergeIsExplained
        <5> QED BY <5>4, <4>1
      <4> QED BY <4>3, <2>1, <2>2, ExplainedWidensNothing
    <3>2. CASE Arrive
      BY <3>2, <2>2 DEF Arrive, NoMore
    <3> QED BY <3>1, <3>2 DEF Next
  <2> QED BY <2>1, <2>2, <2>3, <2>4, JudgedByJudgement
<1>2. [~Widened]_vars =>
        [\A after \in Judged(contract)' : \E before \in Judged(contract) :
           /\ after.owners = before.owners
           /\ before.held => after.held
           /\ after.allowed => before.allowed \/ ~before.held]_vars
  BY DEF NoMore
<1> QED BY <1>1, <1>2, TypeCorrect, PTL DEF Spec, RenameWidensNothing

(* rename_holds() looks at what the scan reads: a module that stays where  *)
(* it is through a merge stays under the rule that held it.                *)
THEOREM NothingLeftUngoverned == Spec => NothingIsLeftUngoverned
<1>1. TypeOK /\ [Next]_vars =>
        [module # Absent /\ module' = module /\ Held(contract, module) => Held(contract', module)]_vars
  <2> SUFFICES ASSUME TypeOK, Next, module # Absent, module' = module, Held(contract, module)
               PROVE  Held(contract', module)
    OBVIOUS
  <2>1. contract \in Policies /\ module \in Names
    BY DEF TypeOK
  <2>2. PICK B, A : B = contract /\ A = contract'
    OBVIOUS
  <2>3. CASE Accept
    <3>1. {module'} \ {Absent} = {module}
      OBVIOUS
    <3>2. PICK packages \in Packages, rules \in RuleSets :
            /\ A = [packages |-> packages, rules |-> rules]
            /\ ~Widens(Compared(B, rename_candidates(B.packages, packages), {module}),
                       [packages |-> packages, rules |-> rules])
      BY <2>3, <2>2, <3>1 DEF Accept
    <3>3. DOMAIN rename_candidates(B.packages, packages) \subseteq Nat
      BY CandidatesAreNumbered
    <3>4. PICK candidates : candidates = rename_candidates(B.packages, packages)
      OBVIOUS
    <3>5. ~Widens(Compared(B, candidates, {module}), A)
      BY <3>2, <3>4
    <3>6. Held(A, module)
      BY <3>3, <3>4, <3>5, <2>1, <2>2, MergeGoverns
    <3> QED BY <3>6, <2>2
  <2>4. CASE Arrive
    BY <2>4 DEF Arrive
  <2> QED BY <2>3, <2>4 DEF Next
<1> QED BY <1>1, TypeCorrect, PTL DEF Spec, NothingIsLeftUngoverned

-----------------------------------------------------------------------------
(* A package that moves alone, and what is guessed of it *)

(* A single pair is a mapping of its own. *)
LEMMA FoldOne ==
  ASSUME NEW S, NEW o \in Seq(S), NEW w, o # w
  PROVE  _mapping({<<o, w>>}) = Moves(o, w)
<1> DEFINE pairs == {<<o, w>>}
           Longest(some) == CHOOSE p \in some : \A x \in some : Len(x[1]) <= Len(p[1])
           Clash(mapping, p) ==
             p[1] \in DOMAIN mapping \/ \E old \in DOMAIN mapping : mapping[old] = p[2]
           Extended(mapping, p) ==
             [old \in DOMAIN mapping \cup {p[1]} |-> IF old = p[1] THEN p[2] ELSE mapping[old]]
           Entered(p, found) ==
             IF ~found.clash /\ renamed(p[1], found.mapping) # p[2]
             THEN [clash   |-> Clash(found.mapping, p),
                   mapping |-> Extended(found.mapping, p)]
             ELSE found
           none == [clash |-> FALSE, mapping |-> NoRenames]
           all  == MapThenFoldSet(Entered, none, LAMBDA p : p, Longest, pairs)
           step(f) == [s \in SUBSET pairs |->
                         IF s = {} THEN none ELSE Entered(Longest(s), f[s \ {Longest(s)}])]
           iter == CHOOSE f : f = step(f)
<1>1. _mapping(pairs) = IF all.clash THEN NoRenames ELSE all.mapping
  BY DEF _mapping
<1>2. all = iter[pairs]
  BY DEF MapThenFoldSet
<1>3. Longest(pairs) = <<o, w>>
  <2>1. \A p \in pairs : p = <<o, w>> /\ \A x \in pairs : Len(x[1]) <= Len(p[1])
    BY LenProperties
  <2>2. Longest(pairs) \in pairs
    BY <2>1
  <2> QED BY <2>2
<1>4. SUBSET pairs = {{}, pairs} /\ pairs # {} /\ pairs \ {<<o, w>>} = {}
  OBVIOUS
<1>5. iter = step(iter)
  <2> DEFINE g == [s \in SUBSET pairs |-> IF s = {} THEN none ELSE Entered(<<o, w>>, none)]
  <2>1. g = step(g)
    <3>1. g[{}] = none
      <4> HIDE DEF none, Entered
      <4> QED OBVIOUS
    <3>2. ASSUME NEW s \in SUBSET pairs
          PROVE  g[s] = IF s = {} THEN none ELSE Entered(Longest(s), g[s \ {Longest(s)}])
      <4>1. CASE s = {}
        BY <4>1, <3>1
      <4>2. CASE s = pairs
        <5>1. g[s] = Entered(<<o, w>>, none)
          <6> HIDE DEF none, Entered, pairs
          <6> QED BY <4>2, <1>4
        <5>2. s # {} /\ Longest(s) = <<o, w>> /\ s \ {Longest(s)} = {}
          <6> HIDE DEF Longest
          <6> QED BY <4>2, <1>3, <1>4
        <5> HIDE DEF none, Entered, pairs, Longest, g
        <5> QED BY <5>1, <5>2, <3>1
      <4> HIDE DEF pairs, g
      <4> QED BY <4>1, <4>2, <1>4
    <3> HIDE DEF none, Entered, Longest
    <3> QED BY <3>2
  <2> HIDE DEF step, g
  <2> QED BY <2>1
<1>6. all = Entered(<<o, w>>, none)
  <2> HIDE DEF iter, all
  <2>1. iter[{}] = none
    <3> HIDE DEF none, Entered, Longest
    <3> QED BY <1>5
  <2>2. iter[pairs] = Entered(Longest(pairs), iter[pairs \ {Longest(pairs)}])
    <3> HIDE DEF none, Entered, Longest
    <3> QED BY <1>5, <1>4
  <2>3. pairs \ {Longest(pairs)} = {}
    <3> HIDE DEF Longest
    <3> QED BY <1>3, <1>4
  <2> HIDE DEF none, Entered, pairs, Longest
  <2> QED BY <1>2, <1>3, <2>1, <2>2, <2>3
<1>7. renamed(o, NoRenames) = o /\ DOMAIN NoRenames = {}
  BY KeepsItsName DEF NoRenames
<1>8. all.clash = FALSE /\ all.mapping = [old \in {o} |-> w]
  <2> HIDE DEF all
  <2>1. none.clash = FALSE /\ none.mapping = NoRenames
    OBVIOUS
  <2> HIDE DEF none
  <2>2. Entered(<<o, w>>, none) = [clash |-> Clash(NoRenames, <<o, w>>), mapping |-> Extended(NoRenames, <<o, w>>)]
    BY <2>1, <1>7
  <2>3. Clash(NoRenames, <<o, w>>) = FALSE
    BY <1>7
  <2>4. Extended(NoRenames, <<o, w>>) = [old \in {o} |-> w]
    <3>1. DOMAIN NoRenames \cup {o} = {o}
      BY <1>7
    <3> QED BY <3>1
  <2> HIDE DEF Entered, Clash, Extended
  <2> QED BY <1>6, <2>2, <2>3, <2>4
<1> HIDE DEF all
<1> QED BY <1>1, <1>8 DEF Moves

(* A name holds another if its segments are the first ones of that. *)
LEMMA HoldsByEach ==
  ASSUME NEW S, NEW l \in Seq(S), NEW s \in Seq(S)
  PROVE  in_scope(l, s) <=> Len(s) \in 1 .. Len(l) /\ \A i \in 1 .. Len(s) : s[i] = l[i]
<1>1. ASSUME in_scope(l, s)
      PROVE  Len(s) \in 1 .. Len(l) /\ \A i \in 1 .. Len(s) : s[i] = l[i]
  <2>1. PICK n \in 1 .. Len(l) : s = SubSeq(l, 1, n)
    BY <1>1 DEF in_scope
  <2>2. Len(s) = n /\ \A i \in 1 .. n : s[i] = l[i]
    BY <2>1, SubSeqProperties
  <2> QED BY <2>2
<1>2. ASSUME Len(s) \in 1 .. Len(l), \A i \in 1 .. Len(s) : s[i] = l[i]
      PROVE  in_scope(l, s)
  <2> DEFINE cut == SubSeq(l, 1, Len(s))
  <2>1. cut \in Seq(S) /\ Len(cut) = Len(s) /\ \A i \in 1 .. Len(s) : cut[i] = l[i]
    BY <1>2, SubSeqProperties
  <2>2. s = cut
    <3> HIDE DEF cut
    <3> QED BY <1>2, <2>1, SeqEqual
  <2> QED BY <1>2, <2>2 DEF in_scope
<1> QED BY <1>1, <1>2

(* Of two names that hold a third, one holds the other. *)
LEMMA HoldersCompare ==
  ASSUME NEW S, NEW l \in Seq(S), NEW m \in Seq(S), NEW s \in Seq(S), in_scope(l, m), in_scope(l, s)
  PROVE  in_scope(m, s) \/ in_scope(s, m)
<1>1. Len(s) <= Len(m) \/ Len(m) <= Len(s)
  BY LenProperties
<1> QED BY <1>1, HoldersNest

(* What a single move makes of a name. *)
LEMMA MovesAName ==
  ASSUME NEW S, NEW p \in Seq(S), NEW q, NEW name
  PROVE  renamed(name, Moves(p, q)) =
           IF in_scope(name, p) THEN q \o SubSeq(name, Len(p) + 1, Len(name)) ELSE name
<1> DEFINE holding == {old \in DOMAIN Moves(p, q) : in_scope(name, old)}
           longest == CHOOSE x \in holding : \A y \in holding : Len(y) <= Len(x)
<1>1. DOMAIN Moves(p, q) = {p} /\ Moves(p, q)[p] = q
  BY DEF Moves
<1>2. renamed(name, Moves(p, q)) =
        IF holding = {} THEN name
        ELSE Moves(p, q)[longest] \o SubSeq(name, Len(longest) + 1, Len(name))
  BY DEF renamed
<1>3. CASE in_scope(name, p)
  <2>1. holding = {p}
    BY <1>1, <1>3
  <2>2. longest = p
    <3>1. \A y \in holding : Len(y) <= Len(p)
      BY <2>1, LenProperties
    <3> HIDE DEF holding
    <3>2. longest \in holding
      BY <2>1, <3>1
    <3> QED BY <2>1, <3>2
  <2> HIDE DEF holding, longest
  <2> QED BY <1>1, <1>2, <1>3, <2>1, <2>2
<1>4. CASE ~in_scope(name, p)
  <2>1. holding = {}
    BY <1>1, <1>4
  <2> HIDE DEF holding, longest
  <2> QED BY <1>2, <1>4, <2>1
<1> QED BY <1>3, <1>4

(* The segments of a name that moved: the new prefix and what was below    *)
(* the old one.                                                            *)
HasMoved(moved, name, p, q) ==
  /\ Len(moved) = Len(q) + Len(name) - Len(p)
  /\ \A i \in 1 .. Len(q) : moved[i] = q[i]
  /\ \A i \in Len(q) + 1 .. Len(moved) : moved[i] = name[i - Len(q) + Len(p)]

(* A move makes of a name below the old prefix such a one. *)
LEMMA MovedSegments ==
  ASSUME NEW S, NEW p \in Seq(S), NEW q \in Seq(S), NEW name \in Seq(S), in_scope(name, p)
  PROVE  /\ renamed(name, Moves(p, q)) \in Seq(S)
         /\ HasMoved(renamed(name, Moves(p, q)), name, p, q)
<1> DEFINE tail == SubSeq(name, Len(p) + 1, Len(name))
<1>1. Len(p) \in 1 .. Len(name) /\ Len(q) \in Nat /\ Len(name) \in Nat
  BY HoldsByEach, LenProperties
<1>2. /\ tail \in Seq(S)
      /\ Len(tail) = Len(name) - Len(p)
      /\ \A i \in 1 .. Len(name) - Len(p) : tail[i] = name[Len(p) + i]
  <2>1. \A i \in Len(p) + 1 .. Len(name) : name[i] \in S
    BY <1>1, ElementOfSeq
  <2> QED BY <1>1, <2>1, SubSeqProperties
<1>3. renamed(name, Moves(p, q)) = q \o tail
  BY MovesAName
<1> HIDE DEF tail
<1>4. PICK moved : moved = q \o tail
  OBVIOUS
<1>5. /\ moved \in Seq(S)
      /\ Len(moved) = Len(q) + Len(tail)
      /\ \A i \in 1 .. Len(q) + Len(tail) : moved[i] = IF i <= Len(q) THEN q[i] ELSE tail[i - Len(q)]
  <2>1. tail \in Seq(S)
    BY <1>2
  <2> QED BY <1>4, <2>1, ConcatProperties
<1>6. ASSUME NEW i \in 1 .. Len(q) PROVE moved[i] = q[i]
  <2>1. i \in 1 .. Len(q) + Len(tail) /\ i <= Len(q)
    BY <1>1, <1>2
  <2> QED BY <1>5, <2>1
<1>7. ASSUME NEW i \in Len(q) + 1 .. Len(moved) PROVE moved[i] = name[i - Len(q) + Len(p)]
  <2>1. i \in 1 .. Len(q) + Len(tail) /\ ~(i <= Len(q)) /\ i - Len(q) \in 1 .. Len(name) - Len(p)
    BY <1>1, <1>2, <1>5
  <2>2. moved[i] = tail[i - Len(q)]
    BY <1>5, <2>1
  <2>3. tail[i - Len(q)] = name[Len(p) + (i - Len(q))]
    BY <1>2, <2>1
  <2>4. Len(p) + (i - Len(q)) = i - Len(q) + Len(p)
    BY <1>1, <1>5
  <2> QED BY <2>2, <2>3, <2>4
<1>8. HasMoved(moved, name, p, q)
  BY <1>1, <1>2, <1>5, <1>6, <1>7 DEF HasMoved
<1> QED BY <1>3, <1>4, <1>5, <1>8

(* A name that moved is held by the name it moved to. *)
LEMMA MovedIsHeld ==
  ASSUME NEW S, NEW p \in Seq(S), NEW q \in Seq(S), q # <<>>, NEW name \in Seq(S), in_scope(name, p)
  PROVE  in_scope(renamed(name, Moves(p, q)), q)
<1>1. PICK moved \in Seq(S) : moved = renamed(name, Moves(p, q)) /\ HasMoved(moved, name, p, q)
  BY MovedSegments
<1>3. Len(p) \in 1 .. Len(name) /\ Len(q) \in Nat \ {0} /\ Len(name) \in Nat
  BY HoldsByEach, LenProperties, EmptySeq
<1>4. Len(q) \in 1 .. Len(moved)
  BY <1>1, <1>3 DEF HasMoved
<1>5. in_scope(moved, q)
  BY <1>1, <1>4, HoldsByEach DEF HasMoved
<1> QED BY <1>1, <1>5

(* A move to a name apart keeps which name holds which. *)
LEMMA MoveKeepsHolders ==
  ASSUME NEW S, NEW p \in Seq(S), NEW q \in Seq(S), q # <<>>, NEW a \in Seq(S), NEW b \in Seq(S),
         Apart(q, {a, b}), in_scope(p, b) => b = p
  PROVE  in_scope(a, b) <=> in_scope(renamed(a, Moves(p, q)), renamed(b, Moves(p, q)))
<1>1. PICK ma, mb : ma = renamed(a, Moves(p, q)) /\ mb = renamed(b, Moves(p, q))
  OBVIOUS
<1>2. ~in_scope(a, q) /\ ~in_scope(q, a) /\ ~in_scope(b, q) /\ ~in_scope(q, b)
  BY DEF Apart
<1>3. /\ in_scope(a, p) => ma \in Seq(S) /\ in_scope(ma, q) /\ HasMoved(ma, a, p, q)
      /\ in_scope(b, p) => mb \in Seq(S) /\ in_scope(mb, q) /\ HasMoved(mb, b, p, q)
      /\ ~in_scope(a, p) => ma = a
      /\ ~in_scope(b, p) => mb = b
  <2>1. ASSUME in_scope(a, p) PROVE ma \in Seq(S) /\ in_scope(ma, q) /\ HasMoved(ma, a, p, q)
    BY <1>1, <2>1, MovedSegments, MovedIsHeld
  <2>2. ASSUME in_scope(b, p) PROVE mb \in Seq(S) /\ in_scope(mb, q) /\ HasMoved(mb, b, p, q)
    BY <1>1, <2>2, MovedSegments, MovedIsHeld
  <2>3. (~in_scope(a, p) => ma = a) /\ (~in_scope(b, p) => mb = b)
    BY <1>1, MovesAName
  <2> QED BY <2>1, <2>2, <2>3
<1>4. CASE in_scope(a, p) /\ in_scope(b, p)
  <2>1. /\ ma \in Seq(S)
        /\ Len(ma) = Len(q) + Len(a) - Len(p)
        /\ \A i \in 1 .. Len(q) : ma[i] = q[i]
        /\ \A i \in Len(q) + 1 .. Len(ma) : ma[i] = a[i - Len(q) + Len(p)]
    BY <1>3, <1>4 DEF HasMoved
  <2>2. /\ mb \in Seq(S)
        /\ Len(mb) = Len(q) + Len(b) - Len(p)
        /\ \A i \in 1 .. Len(q) : mb[i] = q[i]
        /\ \A i \in Len(q) + 1 .. Len(mb) : mb[i] = b[i - Len(q) + Len(p)]
    BY <1>3, <1>4 DEF HasMoved
  <2>3. /\ Len(p) \in 1 .. Len(a) /\ \A i \in 1 .. Len(p) : p[i] = a[i]
        /\ Len(p) \in 1 .. Len(b) /\ \A i \in 1 .. Len(p) : p[i] = b[i]
    BY <1>4, HoldsByEach
  <2>4. Len(a) \in Nat /\ Len(b) \in Nat /\ Len(q) \in Nat \ {0}
    BY LenProperties, EmptySeq
  <2>5. ASSUME in_scope(a, b) PROVE in_scope(ma, mb)
    <3>1. Len(b) \in 1 .. Len(a) /\ \A i \in 1 .. Len(b) : b[i] = a[i]
      BY <2>5, HoldsByEach
    <3>2. Len(mb) \in 1 .. Len(ma)
      BY <2>1, <2>2, <2>3, <2>4, <3>1
    <3>3. ASSUME NEW i \in 1 .. Len(mb) PROVE mb[i] = ma[i]
      <4>1. CASE i <= Len(q)
        BY <4>1, <2>1, <2>2, <2>4
      <4>2. CASE i > Len(q)
        <5>1. i - Len(q) + Len(p) \in 1 .. Len(b)
          BY <4>2, <2>2, <2>3, <2>4
        <5>2. i \in Len(q) + 1 .. Len(mb) /\ i \in Len(q) + 1 .. Len(ma)
          BY <4>2, <3>2, <2>4
        <5> QED BY <5>1, <5>2, <2>1, <2>2, <3>1
      <4> QED BY <4>1, <4>2, <2>4
    <3> QED BY <2>1, <2>2, <3>2, <3>3, HoldsByEach
  <2>6. ASSUME in_scope(ma, mb) PROVE in_scope(a, b)
    <3>1. Len(mb) \in 1 .. Len(ma) /\ \A i \in 1 .. Len(mb) : mb[i] = ma[i]
      BY <2>1, <2>2, <2>6, HoldsByEach
    <3>2. Len(b) \in 1 .. Len(a)
      BY <2>1, <2>2, <2>3, <2>4, <3>1
    <3>3. ASSUME NEW i \in 1 .. Len(b) PROVE b[i] = a[i]
      <4>1. CASE i <= Len(p)
        BY <4>1, <2>3
      <4>2. CASE i > Len(p)
        <5>1. PICK j : j = i - Len(p) + Len(q)
          OBVIOUS
        <5>2. j \in Len(q) + 1 .. Len(mb) /\ j \in Len(q) + 1 .. Len(ma) /\ j \in 1 .. Len(mb)
          BY <5>1, <4>2, <2>1, <2>2, <2>3, <2>4, <3>2
        <5>3. i = j - Len(q) + Len(p)
          BY <5>1, <2>3, <2>4
        <5> QED BY <5>2, <5>3, <2>1, <2>2, <3>1
      <4> QED BY <4>1, <4>2, <2>3
    <3> QED BY <3>2, <3>3, HoldsByEach
  <2> QED BY <1>1, <2>5, <2>6
<1>5. CASE in_scope(a, p) /\ ~in_scope(b, p)
  <2>1. ~in_scope(a, b)
    BY <1>5, HoldersCompare, HoldersNest
  <2>2. ~in_scope(ma, b)
    BY <1>2, <1>3, <1>5, HoldersCompare
  <2> QED BY <1>1, <1>3, <1>5, <2>1, <2>2
<1>6. CASE ~in_scope(a, p) /\ in_scope(b, p)
  <2>1. ~in_scope(a, b)
    BY <1>6, HeldThrough
  <2>2. ~in_scope(a, mb)
    BY <1>2, <1>3, <1>6, HeldThrough
  <2> QED BY <1>1, <1>3, <1>6, <2>1, <2>2
<1>7. CASE ~in_scope(a, p) /\ ~in_scope(b, p)
  BY <1>1, <1>3, <1>7
<1> QED BY <1>4, <1>5, <1>6, <1>7

(* A package that moves takes its new name. *)
LEMMA MovedItself ==
  ASSUME NEW S, NEW p \in Seq(S), NEW q \in Seq(S), p # <<>>
  PROVE  renamed(p, Moves(p, q)) = q
<1>1. in_scope(p, p)
  BY HoldsItself
<1>2. SubSeq(p, Len(p) + 1, Len(p)) = <<>>
  <2>1. Len(p) \in Int /\ Len(p) + 1 \in Int /\ Len(p) < Len(p) + 1
    BY LenProperties
  <2> QED BY <2>1, SubSeqEmpty
<1>3. q \o <<>> = q
  BY ConcatEmptySeq
<1> QED BY <1>1, <1>2, <1>3, MovesAName

(* Nothing is left under the old name. *)
LEMMA MovedAway ==
  ASSUME NEW S, NEW p \in Seq(S), NEW q \in Seq(S), q # <<>>, NEW name \in Seq(S),
         ~in_scope(p, q), ~in_scope(q, p)
  PROVE  ~in_scope(renamed(name, Moves(p, q)), p)
<1>1. CASE in_scope(name, p)
  <2>1. PICK moved \in Seq(S) : moved = renamed(name, Moves(p, q)) /\ in_scope(moved, q)
    BY <1>1, MovedSegments, MovedIsHeld
  <2>2. ~in_scope(moved, p)
    BY <2>1, HoldersCompare
  <2> QED BY <2>1, <2>2
<1>2. CASE ~in_scope(name, p)
  BY <1>2, MovesAName
<1> QED BY <1>1, <1>2

(* The names a policy refers to: its packages and those of its rules. *)
LEMMA RefersTo ==
  ASSUME NEW policy, NEW n
  PROVE  n \in module_references(policy) <=>
           \/ \E c \in Components : n \in policy.packages[c]
           \/ \E r \in policy.rules : n \in {r.source} \cup r.allowed
<1> DEFINE owned == {policy.packages[c] : c \in Components}
           ruled == {{r.source} \cup r.allowed : r \in policy.rules}
<1>1. module_references(policy) = UNION (owned \cup ruled)
  BY DEF module_references
<1>2. n \in UNION owned <=> \E c \in Components : n \in policy.packages[c]
  OBVIOUS
<1>3. n \in UNION ruled <=> \E r \in policy.rules : n \in {r.source} \cup r.allowed
  OBVIOUS
<1> HIDE DEF owned, ruled
<1>4. n \in UNION (owned \cup ruled) <=> n \in UNION owned \/ n \in UNION ruled
  OBVIOUS
<1> QED BY <1>1, <1>2, <1>3, <1>4

(* A renamed contract refers to the names it referred to, renamed. *)
LEMMA RenamedRefers ==
  ASSUME NEW policy, NEW renames
  PROVE  module_references(renamed_contract(policy, renames)) =
           {renamed(n, renames) : n \in module_references(policy)}
<1> DEFINE rule(r) == [source  |-> renamed(r.source, renames),
                       allowed |-> {renamed(n, renames) : n \in r.allowed}]
<1>1. PICK after : after = renamed_contract(policy, renames)
  OBVIOUS
<1>2. /\ \A c \in Components : after.packages[c] = {renamed(n, renames) : n \in policy.packages[c]}
      /\ after.rules = {rule(r) : r \in policy.rules}
  BY <1>1 DEF renamed_contract, RenamedAll
<1>3. \A r : {rule(r).source} \cup rule(r).allowed = {renamed(n, renames) : n \in {r.source} \cup r.allowed}
  OBVIOUS
<1> HIDE DEF rule
<1>4. ASSUME NEW m \in module_references(after)
      PROVE  \E n \in module_references(policy) : m = renamed(n, renames)
  <2>1. CASE \E c \in Components : m \in after.packages[c]
    BY <2>1, <1>2, RefersTo
  <2>2. CASE \E r \in after.rules : m \in {r.source} \cup r.allowed
    <3>1. PICK r \in policy.rules : m \in {rule(r).source} \cup rule(r).allowed
      BY <2>2, <1>2
    <3>2. PICK named : named = {r.source} \cup r.allowed
      OBVIOUS
    <3>3. m \in {renamed(n, renames) : n \in named}
      BY <3>1, <3>2, <1>3, Zenon
    <3>4. PICK n \in named : m = renamed(n, renames)
      BY <3>3
    <3> QED BY <3>2, <3>4, RefersTo
  <2> QED BY <2>1, <2>2, <1>4, RefersTo
<1>5. ASSUME NEW n \in module_references(policy)
      PROVE  renamed(n, renames) \in module_references(after)
  <2>1. CASE \E c \in Components : n \in policy.packages[c]
    BY <2>1, <1>2, RefersTo
  <2>2. CASE \E r \in policy.rules : n \in {r.source} \cup r.allowed
    <3>1. PICK r \in policy.rules : n \in {r.source} \cup r.allowed
      BY <2>2
    <3>2. renamed(n, renames) \in {rule(r).source} \cup rule(r).allowed
      BY <3>1, <1>3
    <3>3. rule(r) \in after.rules
      BY <1>2, <3>1
    <3> QED BY <3>2, <3>3, RefersTo
  <2> QED BY <2>1, <2>2, <1>5, RefersTo
<1>6. module_references(after) = {renamed(n, renames) : n \in module_references(policy)}
  BY <1>4, <1>5
<1> QED BY <1>1, <1>6

(* A component that keeps its packages moves none. *)
LEMMA NothingMoved ==
  ASSUME NEW X
  PROVE  _moved(X, X) = {}
<1>1. X \ X = {} /\ Cardinality({}) = 0
  BY FS_EmptySet
<1> QED BY <1>1 DEF _moved

(* Of a component with one package less and one more these two are paired. *)
LEMMA OneMoved ==
  ASSUME NEW X, NEW p \in X, NEW q, q \notin X
  PROVE  _moved(X, (X \ {p}) \cup {q}) = {<<p, q>>}
<1> DEFINE new    == (X \ {p}) \cup {q}
           gone   == X \ new
           came   == new \ X
           byName == {x \in gone \X came : Alone(x[1], came) = {x[2]} /\ Alone(x[1], gone) = {x[1]}}
           left   == gone \ {x[1] : x \in byName}
           others == came \ {x[2] : x \in byName}
<1>1. gone = {p} /\ came = {q}
  OBVIOUS
<1>2. Cardinality({p}) = 1 /\ Cardinality({q}) = 1 /\ Cardinality({}) = 0
  BY FS_EmptySet, FS_Singleton
<1>3. _moved(X, new) =
        IF Cardinality(gone) # Cardinality(came) THEN {}
        ELSE byName \cup (IF Cardinality(left) = 1 /\ Cardinality(others) = 1
                          THEN left \X others ELSE {})
  BY DEF _moved
<1> HIDE DEF new, gone, came
<1>4. {p} \X {q} = {<<p, q>>}
  OBVIOUS
<1>5. byName = {} \/ byName = {<<p, q>>}
  BY <1>1, <1>4
<1>6. CASE byName = {}
  <2>1. left = {p} /\ others = {q}
    BY <1>1, <1>6
  <2> HIDE DEF left, others, byName, new
  <2>2. _moved(X, new) = {p} \X {q}
    BY <2>1, <1>1, <1>2, <1>3, <1>6
  <2> QED BY <2>2, <1>4 DEF new
<1>7. CASE byName = {<<p, q>>}
  <2>1. left = {} /\ others = {}
    BY <1>1, <1>7
  <2> HIDE DEF left, others, byName, new
  <2>2. _moved(X, new) = {<<p, q>>}
    BY <2>1, <1>1, <1>2, <1>3, <1>7
  <2> QED BY <2>2 DEF new
<1> QED BY <1>5, <1>6, <1>7

(* What a move kept at the end: k segments that are equal, and one at the  *)
(* beginning at least on either side.                                      *)
KeptAtEnd(p, q, k) ==
  /\ k \in Nat /\ k < Len(p) /\ k < Len(q)
  /\ \A j \in 0 .. k - 1 : p[Len(p) - j] = q[Len(q) - j]

(* _shortest() cuts off as much as is kept, and leaves a prefix on each    *)
(* side.                                                                   *)
LEMMA ShortestKeeps ==
  ASSUME NEW S, NEW p \in Seq(S), NEW q \in Seq(S), p # <<>>, q # <<>>
  PROVE  \E k \in Nat : /\ KeptAtEnd(p, q, k)
                        /\ _shortest(p, q) = <<SubSeq(p, 1, Len(p) - k), SubSeq(q, 1, Len(q) - k)>>
<1> DEFINE Kept(k) == /\ k < Len(p) /\ k < Len(q)
                      /\ \A j \in 0 .. k - 1 : p[Len(p) - j] = q[Len(q) - j]
           some == {k \in 0 .. Len(p) : Kept(k)}
           dropped == {d \in 0 .. Len(p) : Kept(Len(p) - d)}
<1>1. Len(p) \in Nat \ {0} /\ Len(q) \in Nat \ {0}
  BY EmptySeq
<1>2. Kept(0)
  BY <1>1
<1>3. _shortest(p, q) = <<SubSeq(p, 1, Len(p) - Max(some)), SubSeq(q, 1, Len(q) - Max(some))>>
  BY DEF _shortest
<1>4. Len(p) \in dropped /\ dropped \subseteq Nat
  <2>1. Len(p) - Len(p) = 0 /\ Len(p) \in 0 .. Len(p)
    BY <1>1
  <2> HIDE DEF Kept
  <2> QED BY <1>2, <2>1
<1>5. PICK d \in dropped : \A x \in dropped : d <= x
  <2> HIDE DEF dropped
  <2> QED BY <1>4, LeastNumber
<1>6. d \in 0 .. Len(p) /\ Kept(Len(p) - d)
  OBVIOUS
<1> HIDE DEF Kept
<1>7. Len(p) - d \in some
  BY <1>1, <1>6
<1>8. ASSUME NEW k \in some PROVE Len(p) - d >= k
  <2>1. Kept(k) /\ k \in 0 .. Len(p)
    OBVIOUS
  <2>2. Len(p) - (Len(p) - k) = k /\ Len(p) - k \in 0 .. Len(p)
    BY <2>1, <1>1
  <2>3. Len(p) - k \in dropped
    BY <2>1, <2>2
  <2> QED BY <1>1, <1>5, <1>6, <2>1, <2>3
<1>9. Max(some) \in some
  <2> HIDE DEF some
  <2> QED BY <1>7, <1>8 DEF Max
<1>10. Max(some) \in Nat /\ Kept(Max(some))
  BY <1>9, <1>1
<1>11. KeptAtEnd(p, q, Max(some))
  BY <1>10 DEF KeptAtEnd, Kept
<1> QED BY <1>3, <1>10, <1>11

(* The shortest prefixes: they hold the names, differ when these do, and   *)
(* rename what is below the old name to the same.                          *)
LEMMA ShortestAgrees ==
  ASSUME NEW S, NEW p \in Seq(S), NEW q \in Seq(S), p # <<>>, q # <<>>, p # q
  PROVE  \E o, w \in Seq(S) :
           /\ _shortest(p, q) = <<o, w>>
           /\ o # w
           /\ \A name \in Seq(S) : in_scope(name, p) =>
                renamed(name, Moves(o, w)) = renamed(name, Moves(p, q))
<1>1. PICK k \in Nat : /\ KeptAtEnd(p, q, k)
                       /\ _shortest(p, q) = <<SubSeq(p, 1, Len(p) - k), SubSeq(q, 1, Len(q) - k)>>
  BY ShortestKeeps
<1>2. /\ Len(p) \in Nat /\ Len(q) \in Nat /\ k < Len(p) /\ k < Len(q)
      /\ \A j \in 0 .. k - 1 : p[Len(p) - j] = q[Len(q) - j]
  BY <1>1, LenProperties DEF KeptAtEnd
<1>3. PICK o, w : o = SubSeq(p, 1, Len(p) - k) /\ w = SubSeq(q, 1, Len(q) - k)
  OBVIOUS
<1>4. /\ o \in Seq(S) /\ Len(o) = Len(p) - k
      /\ \A i \in 1 .. Len(p) - k : o[i] = p[i]
  <2>1. \A i \in 1 .. Len(p) - k : p[i] \in S
    BY <1>2, ElementOfSeq
  <2> QED BY <1>2, <1>3, <2>1, SubSeqProperties
<1>5. /\ w \in Seq(S) /\ Len(w) = Len(q) - k
      /\ \A i \in 1 .. Len(q) - k : w[i] = q[i]
  <2>1. \A i \in 1 .. Len(q) - k : q[i] \in S
    BY <1>2, ElementOfSeq
  <2> QED BY <1>2, <1>3, <2>1, SubSeqProperties
(* Beyond the prefixes old and new are equal, segment by segment. *)
<1>6. ASSUME NEW i \in Int, i > Len(o), i <= Len(p)
      PROVE  p[i] = q[i - Len(o) + Len(w)]
  <2>1. PICK j : j = Len(p) - i
    OBVIOUS
  <2>2. j \in 0 .. k - 1 /\ Len(p) - j = i /\ Len(q) - j = i - Len(o) + Len(w)
    BY <2>1, <1>2, <1>4, <1>5, <1>6
  <2> QED BY <2>2, <1>2
<1>7. o # w
  <2> SUFFICES ASSUME o = w PROVE p = q
    OBVIOUS
  <2>1. Len(p) = Len(q)
    BY <1>2, <1>4, <1>5
  <2>2. ASSUME NEW i \in 1 .. Len(p) PROVE p[i] = q[i]
    <3>1. CASE i <= Len(o)
      BY <3>1, <1>2, <1>4, <1>5, <2>1
    <3>2. CASE i > Len(o)
      <4>1. i - Len(o) + Len(w) = i
        BY <1>2, <1>4
      <4> QED BY <3>2, <4>1, <1>6
    <3> QED BY <3>1, <3>2, <1>2, <1>4
  <2> QED BY <2>1, <2>2, SeqEqual
<1>8. ASSUME NEW name \in Seq(S), in_scope(name, p)
      PROVE  renamed(name, Moves(o, w)) = renamed(name, Moves(p, q))
  <2>1. Len(p) \in 1 .. Len(name) /\ (\A i \in 1 .. Len(p) : p[i] = name[i]) /\ Len(name) \in Nat
    BY <1>8, HoldsByEach, LenProperties
  <2>2. in_scope(name, o)
    <3>1. Len(o) \in 1 .. Len(name) /\ \A i \in 1 .. Len(o) : o[i] = name[i]
      BY <2>1, <1>2, <1>4
    <3> QED BY <3>1, <1>4, HoldsByEach
  <2>3. PICK short \in Seq(S) : short = renamed(name, Moves(o, w)) /\ HasMoved(short, name, o, w)
    BY <2>2, <1>4, <1>5, MovedSegments
  <2>4. PICK long \in Seq(S) : long = renamed(name, Moves(p, q)) /\ HasMoved(long, name, p, q)
    BY <1>8, MovedSegments
  <2>5. /\ Len(short) = Len(w) + Len(name) - Len(o)
        /\ \A i \in 1 .. Len(w) : short[i] = w[i]
        /\ \A i \in Len(w) + 1 .. Len(short) : short[i] = name[i - Len(w) + Len(o)]
    BY <2>3 DEF HasMoved
  <2>6. /\ Len(long) = Len(q) + Len(name) - Len(p)
        /\ \A i \in 1 .. Len(q) : long[i] = q[i]
        /\ \A i \in Len(q) + 1 .. Len(long) : long[i] = name[i - Len(q) + Len(p)]
    BY <2>4 DEF HasMoved
  <2>7. Len(short) = Len(long)
    <3>1. /\ Len(p) \in Nat /\ Len(q) \in Nat /\ Len(name) \in Nat /\ Len(o) = Len(p) - k /\ Len(w) = Len(q) - k
          /\ Len(short) = Len(w) + Len(name) - Len(o) /\ Len(long) = Len(q) + Len(name) - Len(p)
      BY <2>1, <2>5, <2>6, <1>2, <1>4, <1>5
    <3>2. Len(short) = (Len(q) - k) + Len(name) - (Len(p) - k)
      BY <3>1
    <3>3. Len(short) = Len(q) + Len(name) - Len(p)
      BY <3>1, <3>2
    <3> QED BY <3>1, <3>3
  <2>8. ASSUME NEW i \in 1 .. Len(short) PROVE short[i] = long[i]
    <3>1. CASE i <= Len(w)
      <4>1. i \in 1 .. Len(w) /\ i \in 1 .. Len(q) /\ i \in 1 .. Len(q) - k
        BY <3>1, <1>2, <1>5
      <4> QED BY <4>1, <2>5, <2>6, <1>5
    <3>2. CASE i > Len(w) /\ i <= Len(q)
      <4>1. PICK j : j = i - Len(w) + Len(o)
        OBVIOUS
      <4>2. j \in Int /\ j > Len(o) /\ j <= Len(p) /\ j - Len(o) + Len(w) = i /\ j \in 1 .. Len(p)
        BY <4>1, <3>2, <1>2, <1>4, <1>5
      <4>3. p[j] = q[i]
        BY <4>2, <1>6
      <4>4. i \in Len(w) + 1 .. Len(short) /\ i \in 1 .. Len(q)
        BY <3>2, <1>2, <1>5
      <4> QED BY <4>1, <4>2, <4>3, <4>4, <2>1, <2>5, <2>6
    <3>3. CASE i > Len(q)
      <4>1. i \in Len(w) + 1 .. Len(short) /\ i \in Len(q) + 1 .. Len(long)
        BY <3>3, <2>7, <1>2, <1>5
      <4>2. i - Len(w) + Len(o) = i - Len(q) + Len(p)
        BY <1>2, <1>4, <1>5
      <4> QED BY <4>1, <4>2, <2>5, <2>6
    <3> QED BY <3>1, <3>2, <3>3, <1>2, <1>5
  <2>9. short = long
    BY <2>7, <2>8, SeqEqual
  <2> QED BY <2>3, <2>4, <2>9
<1> QED BY <1>1, <1>3, <1>4, <1>5, <1>7, <1>8

(* The packages that moved between two assignments. *)
Pairs(before, after) == UNION {_moved(before[c], after[c]) : c \in Components}

(* What is guessed of a single move: its shortest prefixes, and the move   *)
(* itself where it is another.                                             *)
LEMMA CandidatesOfAMove ==
  ASSUME NEW S, NEW p \in Seq(S), NEW q \in Seq(S), p # <<>>, q # <<>>, p # q, NEW before, NEW after,
         Pairs(before, after) = {<<p, q>>}
  PROVE  \E short :
           /\ \A name \in Seq(S) :
                in_scope(name, p) => renamed(name, short) = renamed(name, Moves(p, q))
           /\ \/ rename_candidates(before, after) = <<short>> /\ short = Moves(p, q)
              \/ rename_candidates(before, after) = <<short, Moves(p, q)>>
<1> DEFINE pairs == UNION {_moved(before[c], after[c]) : c \in Components}
           short == _mapping({_shortest(x[1], x[2]) : x \in pairs})
           long  == _mapping(pairs)
           Found(mapping) == IF mapping = NoRenames THEN <<>> ELSE <<mapping>>
<1>1. rename_candidates(before, after) = Found(short) \o (IF long = short THEN <<>> ELSE Found(long))
  BY DEF rename_candidates
<1>2. PICK o, w \in Seq(S) :
        /\ _shortest(p, q) = <<o, w>>
        /\ o # w
        /\ \A name \in Seq(S) : in_scope(name, p) =>
             renamed(name, Moves(o, w)) = renamed(name, Moves(p, q))
  BY ShortestAgrees
<1>3. pairs = {<<p, q>>}
  BY DEF Pairs
<1> HIDE DEF pairs
<1>4. {_shortest(x[1], x[2]) : x \in pairs} = {<<o, w>>}
  <2>1. {_shortest(x[1], x[2]) : x \in {<<p, q>>}} = {_shortest(p, q)}
    OBVIOUS
  <2> QED BY <1>2, <1>3, <2>1
<1>5. short = Moves(o, w)
  BY <1>2, <1>4, FoldOne
<1>6. long = Moves(p, q)
  BY <1>3, FoldOne
<1>7. Moves(o, w) # NoRenames /\ Moves(p, q) # NoRenames
  <2>1. DOMAIN Moves(o, w) = {o} /\ DOMAIN Moves(p, q) = {p} /\ DOMAIN NoRenames = {}
    BY DEF Moves, NoRenames
  <2>2. {o} # {} /\ {p} # {}
    OBVIOUS
  <2> QED BY <2>1, <2>2
<1> HIDE DEF short, long
<1>8. Found(short) = <<short>> /\ Found(long) = <<long>>
  BY <1>5, <1>6, <1>7
<1> HIDE DEF Found
<1>9. CASE long = short
  <2>1. rename_candidates(before, after) = <<short>> \o <<>>
    BY <1>1, <1>8, <1>9
  <2>2. rename_candidates(before, after) = <<short>>
    <3>1. <<short>> \in Seq({short})
      OBVIOUS
    <3> QED BY <2>1, <3>1, ConcatEmptySeq
  <2> QED BY <2>2, <1>2, <1>5, <1>6, <1>9
<1>10. CASE long # short
  <2>1. rename_candidates(before, after) = <<short>> \o <<long>>
    BY <1>1, <1>8, <1>10
  <2>2. <<short>> \o <<long>> = <<short, long>>
    <3>1. /\ <<short>> \in Seq({short, long}) /\ Len(<<short>>) = 1
          /\ <<long>> \in Seq({short, long}) /\ Len(<<long>>) = 1
          /\ <<short, long>> \in Seq({short, long}) /\ Len(<<short, long>>) = 2
      OBVIOUS
    <3>2. PICK both : both = <<short>> \o <<long>>
      OBVIOUS
    <3>3. both \in Seq({short, long}) /\ Len(both) = 2
      BY <3>1, <3>2, ConcatProperties
    <3>4. both[1] = short /\ both[2] = long
      BY <3>1, <3>2, ConcatProperties
    <3>5. both = <<short, long>>
      <4>1. \A i \in 1 .. Len(both) : both[i] = <<short, long>>[i]
        BY <3>3, <3>4
      <4> QED BY <3>1, <3>3, <4>1, SeqEqual
    <3> QED BY <3>2, <3>5
  <2> QED BY <2>1, <2>2, <1>2, <1>5, <1>6
<1> QED BY <1>9, <1>10

(* Renames that make the same of every name make the same of a contract. *)
LEMMA RenamedAlike ==
  ASSUME NEW policy, NEW short, NEW long,
         \A n \in module_references(policy) : renamed(n, short) = renamed(n, long)
  PROVE  renamed_contract(policy, short) = renamed_contract(policy, long)
<1>1. /\ \A c \in Components : policy.packages[c] \subseteq module_references(policy)
      /\ \A r \in policy.rules : {r.source} \cup r.allowed \subseteq module_references(policy)
  BY PolicyRefers
<1>2. ASSUME NEW names, names \subseteq module_references(policy)
      PROVE  RenamedAll(names, short) = RenamedAll(names, long)
  BY <1>2 DEF RenamedAll
<1>3. \A c \in Components : RenamedAll(policy.packages[c], short) = RenamedAll(policy.packages[c], long)
  BY <1>1, <1>2
<1>4. \A r \in policy.rules : /\ renamed(r.source, short) = renamed(r.source, long)
                              /\ RenamedAll(r.allowed, short) = RenamedAll(r.allowed, long)
  BY <1>1, <1>2
<1>5. [c \in Components |-> RenamedAll(policy.packages[c], short)] =
        [c \in Components |-> RenamedAll(policy.packages[c], long)]
  BY <1>3
<1>6. {[source  |-> renamed(r.source, short), allowed |-> RenamedAll(r.allowed, short)] : r \in policy.rules} =
        {[source  |-> renamed(r.source, long), allowed |-> RenamedAll(r.allowed, long)] : r \in policy.rules}
  BY <1>4
<1> QED BY <1>5, <1>6 DEF renamed_contract

(* A package moves alone: what MoveIsFound assumes of it. *)
MovesAlone(policy, p, q) ==
  /\ Apart(q, module_references(policy))
  /\ Holding(p, module_references(policy)) = {p}
  /\ \A d \in Components : \A n \in policy.packages[d] : in_scope(n, p) => n = p

(* The packages tell the move and nothing else. *)
LEMMA PackagesTell ==
  ASSUME NEW S, NEW policy, module_references(policy) \subseteq Seq(S) \ {<<>>},
         NEW c \in Components, NEW p \in policy.packages[c], NEW q \in Seq(S), q # <<>>,
         MovesAlone(policy, p, q)
  PROVE  Pairs(policy.packages, renamed_contract(policy, Moves(p, q)).packages) = {<<p, q>>}
<1> DEFINE after == renamed_contract(policy, Moves(p, q)).packages
           moves(d) == _moved(policy.packages[d], after[d])
<1>1. \A d \in Components : /\ policy.packages[d] \subseteq module_references(policy)
                            /\ after[d] = {renamed(n, Moves(p, q)) : n \in policy.packages[d]}
  BY PolicyRefers DEF renamed_contract, RenamedAll
<1>2. p \in Seq(S) /\ p # <<>>
  BY <1>1
<1>3. renamed(p, Moves(p, q)) = q
  BY <1>2, MovedItself
<1>4. \A d \in Components : \A n \in policy.packages[d] :
        n # p => renamed(n, Moves(p, q)) = n
  BY <1>2, MovesAName DEF MovesAlone
<1>5. \A d \in Components : q \notin policy.packages[d]
  BY <1>1, HoldsItself DEF MovesAlone, Apart
<1> HIDE DEF after
<1>6. ASSUME NEW d \in Components
      PROVE  moves(d) = IF p \in policy.packages[d] THEN {<<p, q>>} ELSE {}
  <2>1. PICK X : X = policy.packages[d]
    OBVIOUS
  <2>2. after[d] = {renamed(n, Moves(p, q)) : n \in X} /\ q \notin X
    BY <1>1, <1>5, <2>1
  <2>3. \A n \in X : n # p => renamed(n, Moves(p, q)) = n
    BY <1>4, <2>1
  <2>4. CASE p \in X
    <3>1. after[d] = (X \ {p}) \cup {q}
      BY <2>2, <2>3, <2>4, <1>3
    <3> QED BY <2>1, <2>2, <2>4, <3>1, OneMoved
  <2>5. CASE p \notin X
    <3>1. after[d] = X
      BY <2>2, <2>3, <2>5
    <3> QED BY <2>1, <2>5, <3>1, NothingMoved
  <2> QED BY <2>1, <2>4, <2>5
<1>7. moves(c) = {<<p, q>>}
  BY <1>6
<1> HIDE DEF moves
<1>8. UNION {moves(d) : d \in Components} = {<<p, q>>}
  BY <1>6, <1>7
<1> QED BY <1>8 DEF moves, after, Pairs

(* Each of these has a segment. *)
LEMMA ModulesHaveSegments ==
  ASSUME NEW m \in Modules
  PROVE  m # <<>>
<1>1. CASE m \in Names
  BY <1>1, NamesAreSequences
<1>2. ASSUME NEW n \in Names, NEW s, m = n \o <<s>>
      PROVE  m # <<>>
  <2>1. n \in Seq(Segments \cup {s}) /\ <<s>> \in Seq(Segments \cup {s}) /\ Len(<<s>>) = 1
    BY NamesAreSequences
  <2>2. Len(m) = Len(n) + 1 /\ Len(n) \in Nat
    BY <1>2, <2>1, ConcatProperties, LenProperties
  <2> QED BY <2>2
<1>3. CASE m = <<Absent>>
  BY <1>3
<1>4. m \in Names \/ (\E n, k \in Names : m = n \o <<last_name(k)>>) \/ m = <<Absent>>
  BY SMT DEF Modules
<1> QED BY <1>1, <1>2, <1>3, <1>4

(* The move itself holds: every name is held by the names that held it,    *)
(* and what the moved contract refers to is not under the old name.        *)
LEMMA MoveHolds ==
  ASSUME NEW S, NEW policy, module_references(policy) \subseteq Seq(S) \ {<<>>},
         NEW c \in Components, NEW p \in policy.packages[c], NEW q \in Seq(S), q # <<>>,
         MovesAlone(policy, p, q)
  PROVE  rename_holds(Moves(p, q), module_references(policy),
                      module_references(renamed_contract(policy, Moves(p, q))))
<1> DEFINE names == module_references(policy)
<1>1. names \subseteq Seq(S) \ {<<>>} /\ p \in names
  BY PolicyRefers
<1>2. Apart(q, names) /\ \A b \in names : in_scope(p, b) => b = p
  BY DEF MovesAlone, Holding
<1>3. module_references(renamed_contract(policy, Moves(p, q))) = {renamed(n, Moves(p, q)) : n \in names}
  BY RenamedRefers
<1>4. DOMAIN Moves(p, q) = {p}
  BY DEF Moves
<1> HIDE DEF names
<1>5. names \cup DOMAIN Moves(p, q) = names
  BY <1>1, <1>4
<1>6. ASSUME NEW a \in names, NEW b \in names
      PROVE  in_scope(a, b) <=> in_scope(renamed(a, Moves(p, q)), renamed(b, Moves(p, q)))
  <2>1. Apart(q, {a, b}) /\ (in_scope(p, b) => b = p)
    BY <1>2 DEF Apart
  <2> QED BY <1>1, <2>1, MoveKeepsHolders
<1>7. KeepsHolders(names, Moves(p, q))
  BY <1>6 DEF KeepsHolders, Holding
<1>8. ASSUME NEW n \in names PROVE ~in_scope(renamed(n, Moves(p, q)), p)
  <2>1. ~in_scope(p, q) /\ ~in_scope(q, p)
    BY <1>1, <1>2 DEF Apart
  <2> QED BY <1>1, <2>1, MovedAway
<1>9. NothingLeft(Moves(p, q), {renamed(n, Moves(p, q)) : n \in names})
  BY <1>4, <1>8 DEF NothingLeft
<1> QED BY <1>3, <1>5, <1>7, <1>9 DEF rename_holds, names

(* Shorter prefixes are used where nothing is left under them: then they   *)
(* rename the contract as the move does.                                   *)
LEMMA ShorterHoldsAlike ==
  ASSUME NEW S, NEW policy, module_references(policy) \subseteq Seq(S) \ {<<>>},
         NEW p \in Seq(S), NEW q, NEW short,
         \A name \in Seq(S) : in_scope(name, p) => renamed(name, short) = renamed(name, Moves(p, q)),
         rename_holds(short, module_references(policy),
                      module_references(renamed_contract(policy, Moves(p, q))))
  PROVE  renamed_contract(policy, short) = renamed_contract(policy, Moves(p, q))
<1>1. ASSUME NEW n \in module_references(policy) PROVE renamed(n, short) = renamed(n, Moves(p, q))
  <2>1. CASE in_scope(n, p)
    BY <2>1
  <2>2. CASE ~in_scope(n, p)
    <3>1. renamed(n, Moves(p, q)) = n
      BY <2>2, MovesAName
    <3>2. n \in module_references(renamed_contract(policy, Moves(p, q)))
      BY <3>1, RenamedRefers
    <3>3. \A old \in DOMAIN short : ~in_scope(n, old)
      BY <3>2 DEF rename_holds, NothingLeft
    <3> QED BY <3>1, <3>3, KeepsItsName
  <2> QED BY <2>1, <2>2
<1> QED BY <1>1, RenamedAlike

(* A package that moves alone is recognised. *)
LEMMA MoveIsCompared ==
  ASSUME NEW S, NEW policy, module_references(policy) \subseteq Seq(S) \ {<<>>},
         NEW c \in Components, NEW p \in policy.packages[c], NEW q \in Seq(S), q # <<>>,
         MovesAlone(policy, p, q), NEW after, after = renamed_contract(policy, Moves(p, q))
  PROVE  Compared(policy, rename_candidates(policy.packages, after.packages),
                  module_references(after)) = after
<1> DEFINE names == module_references(policy)
           observed == module_references(after)
<1>1. p \in Seq(S) /\ p # <<>> /\ p \in names
  BY PolicyRefers
<1>2. p # q
  BY <1>1, HoldsItself DEF MovesAlone, Apart
<1>3. Pairs(policy.packages, after.packages) = {<<p, q>>}
  BY PackagesTell
<1>4. PICK short :
        /\ \A name \in Seq(S) : in_scope(name, p) => renamed(name, short) = renamed(name, Moves(p, q))
        /\ \/ rename_candidates(policy.packages, after.packages) = <<short>> /\ short = Moves(p, q)
           \/ rename_candidates(policy.packages, after.packages) = <<short, Moves(p, q)>>
  BY <1>1, <1>2, <1>3, CandidatesOfAMove
<1>5. PICK candidates : candidates = rename_candidates(policy.packages, after.packages)
  OBVIOUS
<1>6. rename_holds(Moves(p, q), names, observed)
  BY MoveHolds
<1>7. rename_holds(short, names, observed) => renamed_contract(policy, short) = after
  BY <1>1, <1>4, ShorterHoldsAlike
<1> HIDE DEF names, observed
<1> DEFINE holding == {n \in DOMAIN candidates : rename_holds(candidates[n], names, observed)}
<1>8. \A n \in DOMAIN candidates : candidates[n] = short \/ candidates[n] = Moves(p, q)
  BY <1>4, <1>5
<1>9. \E n \in DOMAIN candidates : candidates[n] = Moves(p, q)
  <2>1. CASE candidates = <<short>> /\ short = Moves(p, q)
    <3>1. 1 \in DOMAIN candidates /\ candidates[1] = Moves(p, q)
      BY <2>1
    <3> QED BY <3>1
  <2>2. CASE candidates = <<short, Moves(p, q)>>
    <3>1. 2 \in DOMAIN candidates /\ candidates[2] = Moves(p, q)
      BY <2>2
    <3> QED BY <3>1
  <2> QED BY <2>1, <2>2, <1>4, <1>5
<1>10. holding # {}
  BY <1>6, <1>9
<1>11. holding \subseteq Nat
  BY <1>4, <1>5
<1>12. Min(holding) \in holding
  <2> HIDE DEF holding
  <2> QED BY <1>10, <1>11, MinIsIn
<1>13. Compared(policy, candidates, observed) = renamed_contract(policy, candidates[Min(holding)])
  BY <1>10 DEF Compared, names
<1>14. renamed_contract(policy, candidates[Min(holding)]) = after
  <2>1. PICK n : n = Min(holding) /\ n \in DOMAIN candidates /\ rename_holds(candidates[n], names, observed)
    BY <1>12
  <2> QED BY <2>1, <1>7, <1>8
<1> QED BY <1>5, <1>13, <1>14 DEF observed

(* rename_candidates() and rename_holds() do not miss the plain case: in a *)
(* contract that can be reached, a package that moves alone, to a name     *)
(* apart, is compared under its new name.                                  *)
THEOREM MovesAreFound == Spec => []MoveIsFound
<1>1. TypeOK => MoveIsFound
  <2> SUFFICES ASSUME TypeOK, NEW c \in Components, NEW q \in Modules, NEW p \in contract.packages[c],
                      Apart(q, module_references(contract)),
                      Holding(p, module_references(contract)) = {p},
                      \A d \in Components : \A n \in contract.packages[d] : in_scope(n, p) => n = p
               PROVE  Compared(contract,
                        rename_candidates(contract.packages,
                                          renamed_contract(contract, Moves(p, q)).packages),
                        module_references(renamed_contract(contract, Moves(p, q)))) =
                        renamed_contract(contract, Moves(p, q))
    BY DEF MoveIsFound
  <2> DEFINE S == Segments \cup {Absent}
  <2>1. PICK policy : policy = contract
    OBVIOUS
  <2>2. module_references(policy) \subseteq Seq(S) \ {<<>>}
    <3>1. module_references(policy) \subseteq Names
      BY <2>1, PoliciesNameNames DEF TypeOK
    <3>2. \A n \in Names : n \in Seq(S) /\ n # <<>>
      BY NamesAreSequences
    <3> QED BY <3>1, <3>2
  <2>3. q \in Seq(S) /\ q # <<>>
    BY ModulesAreSequences, ModulesHaveSegments
  <2>4. MovesAlone(policy, p, q)
    BY <2>1 DEF MovesAlone
  <2>5. PICK after : after = renamed_contract(policy, Moves(p, q))
    OBVIOUS
  <2>6. Compared(policy, rename_candidates(policy.packages, after.packages), module_references(after)) = after
    <3> HIDE DEF S
    <3> QED BY <2>1, <2>2, <2>3, <2>4, <2>5, MoveIsCompared
  <2> QED BY <2>1, <2>5, <2>6
<1> QED BY <1>1, TypeCorrect, PTL DEF Spec
=============================================================================
