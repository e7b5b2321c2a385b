--------------------------- MODULE InitPlanProofs ---------------------------
(***************************************************************************)
(* What the scripts of a Pod look like, for every set of names and every   *)
(* spec: which ones run for a profile, and in which order.  The proofs of  *)
(* InitScriptsProofs rest on it.                                           *)
(***************************************************************************)
EXTENDS InitScripts, SequenceTheorems, WellFoundedInduction, TLAPS

-----------------------------------------------------------------------------
(* The order of the scripts of one profile.                                *)

Rank(script) ==
    IF script = "strip" THEN 1
    ELSE IF script \in {"create", "distribution"} THEN 2
    ELSE IF script = "config" THEN 3
    ELSE IF script = "workspace" THEN 4
    ELSE IF script = "dotenv" THEN 5
    ELSE IF script = "python" THEN 6
    ELSE IF script = "npm" THEN 7
    ELSE IF script = "plugins" THEN 8
    ELSE IF script = "skills" THEN 9
    ELSE IF script = "bundles" THEN 10
    ELSE IF script = "crons" THEN 11
    ELSE IF script \in {"cleanup", "resume"} THEN 12
    ELSE IF script = "userScript" THEN 13
    ELSE IF script = "append" THEN 14
    ELSE IF script = "searxng" THEN 15 ELSE 16

Scripts ==
    ListKinds \cup PackageKinds
        \cup {"strip", "create", "distribution", "config", "dotenv", "cleanup", "resume",
              "userScript", "append", "searxng", "userContainer"}

Between(lo, hi) == {x \in Scripts : lo <= Rank(x) /\ Rank(x) < hi}

\* A sequence of scripts with ranks from lo on and below hi, in their order.
Chain(q, lo, hi) ==
    /\ q \in Seq(Between(lo, hi))
    /\ \A i, j \in DOMAIN q : i < j => Rank(q[i]) < Rank(q[j])

LEMMA RankType ==
    ASSUME NEW x
    PROVE  Rank(x) \in 1..16
BY DEF Rank

LEMMA ChainConcat ==
    ASSUME NEW a, NEW b, NEW lo \in Nat, NEW mid \in Nat, NEW hi \in Nat,
           lo <= mid, mid <= hi, Chain(a, lo, mid), Chain(b, mid, hi)
    PROVE  Chain(a \o b, lo, hi)
<1>1. \A x : Rank(x) \in Nat
  BY RankType
<1>2. Between(lo, mid) \subseteq Between(lo, hi) /\ Between(mid, hi) \subseteq Between(lo, hi)
  BY <1>1 DEF Between
<1>3. a \in Seq(Between(lo, mid)) /\ b \in Seq(Between(mid, hi))
  BY DEF Chain
<1>4. a \in Seq(Between(lo, hi)) /\ b \in Seq(Between(lo, hi))
  BY <1>2, <1>3, SeqMonotonic
<1>5. /\ a \o b \in Seq(Between(lo, hi))
      /\ Len(a \o b) = Len(a) + Len(b)
      /\ \A i \in 1..(Len(a) + Len(b)) :
            (a \o b)[i] = IF i <= Len(a) THEN a[i] ELSE b[i - Len(a)]
  BY <1>4, ConcatProperties
<1>6. ASSUME NEW i \in DOMAIN (a \o b), NEW j \in DOMAIN (a \o b), i < j
      PROVE  Rank((a \o b)[i]) < Rank((a \o b)[j])
  <2>1. /\ Len(a) \in Nat /\ Len(b) \in Nat /\ DOMAIN a = 1..Len(a) /\ DOMAIN b = 1..Len(b)
        /\ i \in 1..(Len(a) + Len(b)) /\ j \in 1..(Len(a) + Len(b))
    BY <1>4, <1>5, LenProperties
  <2>2. CASE j <= Len(a)
    <3>1. i \in DOMAIN a /\ j \in DOMAIN a /\ (a \o b)[i] = a[i] /\ (a \o b)[j] = a[j]
      BY <1>5, <1>6, <2>1, <2>2
    <3> QED BY <1>6, <3>1 DEF Chain
  <2>3. CASE i > Len(a)
    <3>1. /\ i - Len(a) \in DOMAIN b /\ j - Len(a) \in DOMAIN b /\ i - Len(a) < j - Len(a)
          /\ (a \o b)[i] = b[i - Len(a)] /\ (a \o b)[j] = b[j - Len(a)]
      BY <1>5, <1>6, <2>1, <2>3
    <3> QED BY <3>1 DEF Chain
  <2>4. CASE i <= Len(a) /\ j > Len(a)
    <3>1. /\ i \in DOMAIN a /\ j - Len(a) \in DOMAIN b
          /\ (a \o b)[i] = a[i] /\ (a \o b)[j] = b[j - Len(a)]
      BY <1>5, <1>6, <2>1, <2>4
    <3>2. a[i] \in Between(lo, mid) /\ b[j - Len(a)] \in Between(mid, hi)
      BY <1>3, <3>1, ElementOfSeq, <2>1
    <3> QED BY <1>1, <3>1, <3>2 DEF Between
  <2> QED BY <2>1, <2>2, <2>3, <2>4
<1> QED BY <1>5, <1>6 DEF Chain

\* The set of the script, under the condition.
If(cond, script) == {x \in {script} : cond}

LEMMA ChainWhen ==
    ASSUME NEW cond, NEW lo, NEW hi, NEW x \in Between(lo, hi)
    PROVE  Chain(When(cond, x), lo, hi) /\ Range(When(cond, x)) = If(cond, x)
<1>1. CASE cond
  BY <1>1 DEF Chain, When, Range, If
<1>2. CASE ~cond
  BY <1>2 DEF Chain, When, Range, If
<1> QED BY <1>1, <1>2

LEMMA ChainOne ==
    ASSUME NEW lo, NEW hi, NEW x \in Between(lo, hi)
    PROVE  Chain(<<x>>, lo, hi) /\ Range(<<x>>) = {x}
BY DEF Chain, Range

\* The range of a concatenation, of chains.
LEMMA RangeUnion ==
    ASSUME NEW a, NEW b, NEW S, NEW T, a \in Seq(S), b \in Seq(T)
    PROVE  Range(a \o b) = Range(a) \cup Range(b)
<1>1. a \in Seq(S \cup T) /\ b \in Seq(S \cup T)
  BY SeqMonotonic
<1> QED BY <1>1, RangeConcatenation

LEMMA ChainJoin ==
    ASSUME NEW a, NEW b, NEW lo \in Nat, NEW mid \in Nat, NEW hi \in Nat,
           lo <= mid, mid <= hi, Chain(a, lo, mid), Chain(b, mid, hi)
    PROVE  Chain(a \o b, lo, hi) /\ Range(a \o b) = Range(a) \cup Range(b)
BY ChainConcat, RangeUnion DEF Chain

-----------------------------------------------------------------------------
(* The scripts of a profile.                                               *)

CommonSet(s, p) ==
    If(HasDocument(s.prof[p].config), "config") \cup {"workspace"}
        \cup If(RunsDotEnv(s, p), "dotenv")

ItemScripts == {"plugins", "skills", "bundles", "crons"}

DefaultSet(s) ==
    If(s.egress, "strip") \cup CommonSet(s, "default") \cup PackageKinds \cup ItemScripts
        \cup If(s.named # {}, "cleanup")

ProfileSet(s, p) ==
    {IF s.prof[p].dist # NoDist THEN "distribution" ELSE "create"} \cup CommonSet(s, p)
        \cup ItemScripts \cup If(s.prof[p].dist # NoDist, "resume")

LEMMA Ranks ==
    /\ Scripts = {"strip", "create", "distribution", "config", "workspace", "dotenv", "python",
                  "npm", "plugins", "skills", "bundles", "crons", "cleanup", "resume",
                  "userScript", "append", "searxng", "userContainer"}
    /\ Rank("strip") = 1 /\ Rank("create") = 2 /\ Rank("distribution") = 2
    /\ Rank("config") = 3 /\ Rank("workspace") = 4 /\ Rank("dotenv") = 5
    /\ Rank("python") = 6 /\ Rank("npm") = 7 /\ Rank("plugins") = 8 /\ Rank("skills") = 9
    /\ Rank("bundles") = 10 /\ Rank("crons") = 11 /\ Rank("cleanup") = 12
    /\ Rank("resume") = 12 /\ Rank("userScript") = 13 /\ Rank("append") = 14
    /\ Rank("searxng") = 15 /\ Rank("userContainer") = 16
<1>1. Scripts = {"strip", "create", "distribution", "config", "workspace", "dotenv", "python",
                 "npm", "plugins", "skills", "bundles", "crons", "cleanup", "resume",
                 "userScript", "append", "searxng", "userContainer"}
  BY DEF Scripts, ListKinds, PackageKinds
<1> QED BY <1>1 DEF Rank

LEMMA CommonChain ==
    ASSUME NEW s, NEW p
    PROVE  Chain(CommonScripts(s, p), 3, 6) /\ Range(CommonScripts(s, p)) = CommonSet(s, p)
<1> DEFINE a == When(HasDocument(s.prof[p].config), "config")
           b == When(RunsDotEnv(s, p), "dotenv")
<1>1. /\ "config" \in Between(3, 4) /\ "workspace" \in Between(4, 5)
      /\ "dotenv" \in Between(5, 6)
  BY Ranks DEF Between
<1>2. Chain(a, 3, 4) /\ Range(a) = If(HasDocument(s.prof[p].config), "config")
  BY <1>1, ChainWhen
<1>3. Chain(<<"workspace">>, 4, 5) /\ Range(<<"workspace">>) = {"workspace"}
  BY <1>1, ChainOne
<1>4. Chain(b, 5, 6) /\ Range(b) = If(RunsDotEnv(s, p), "dotenv")
  BY <1>1, ChainWhen
<1> HIDE DEF a, b
<1>5. /\ Chain(a \o <<"workspace">>, 3, 5)
      /\ Range(a \o <<"workspace">>) = Range(a) \cup {"workspace"}
  BY <1>2, <1>3, ChainJoin
<1>6. /\ Chain((a \o <<"workspace">>) \o b, 3, 6)
      /\ Range((a \o <<"workspace">>) \o b) = (Range(a) \cup {"workspace"}) \cup Range(b)
  BY <1>4, <1>5, ChainJoin
<1> QED BY <1>2, <1>4, <1>6 DEF CommonScripts, CommonSet, a, b

LEMMA ItemChain ==
    /\ Chain(<<"plugins", "skills", "bundles", "crons">>, 6, 12)
    /\ Range(<<"plugins", "skills", "bundles", "crons">>) = ItemScripts
    /\ Chain(<<"python", "npm", "plugins", "skills", "bundles", "crons">>, 6, 12)
    /\ Range(<<"python", "npm", "plugins", "skills", "bundles", "crons">>)
         = PackageKinds \cup ItemScripts
<1> DEFINE q == <<"plugins", "skills", "bundles", "crons">>
           r == <<"python", "npm", "plugins", "skills", "bundles", "crons">>
<1>1. /\ {"plugins", "skills", "bundles", "crons"} \subseteq Between(6, 12)
      /\ {"python", "npm", "plugins", "skills", "bundles", "crons"} \subseteq Between(6, 12)
  BY Ranks DEF Between
<1>2. Chain(q, 6, 12)
  BY <1>1, Ranks DEF Chain
<1>3. Chain(r, 6, 12)
  BY <1>1, Ranks DEF Chain
<1>4. Range(q) = ItemScripts
  BY DEF Range, ItemScripts
<1>5. Range(r) = PackageKinds \cup ItemScripts
  BY DEF Range, ItemScripts, PackageKinds
<1> QED BY <1>2, <1>3, <1>4, <1>5

LEMMA DefaultChain ==
    ASSUME NEW s
    PROVE  /\ Chain(DefaultScripts(s), 1, 13)
           /\ Range(DefaultScripts(s)) = DefaultSet(s)
<1> DEFINE a == When(s.egress, "strip")
           b == CommonScripts(s, "default")
           c == <<"python", "npm", "plugins", "skills", "bundles", "crons">>
           d == When(s.named # {}, "cleanup")
<1>1. Chain(a, 1, 3) /\ Range(a) = If(s.egress, "strip")
  <2>1. "strip" \in Between(1, 3)
    BY Ranks DEF Between
  <2> QED BY <2>1, ChainWhen
<1>2. Chain(b, 3, 6) /\ Range(b) = CommonSet(s, "default")
  BY CommonChain
<1>3. Chain(c, 6, 12) /\ Range(c) = PackageKinds \cup ItemScripts
  BY ItemChain
<1>4. Chain(d, 12, 13) /\ Range(d) = If(s.named # {}, "cleanup")
  <2>1. "cleanup" \in Between(12, 13)
    BY Ranks DEF Between
  <2> QED BY <2>1, ChainWhen
<1> HIDE DEF a, b, c, d
<1>5. Chain(a \o b, 1, 6) /\ Range(a \o b) = Range(a) \cup Range(b)
  BY <1>1, <1>2, ChainJoin
<1>6. Chain((a \o b) \o c, 1, 12) /\ Range((a \o b) \o c) = Range(a \o b) \cup Range(c)
  BY <1>5, <1>3, ChainJoin
<1>7. /\ Chain(((a \o b) \o c) \o d, 1, 13)
      /\ Range(((a \o b) \o c) \o d) = Range((a \o b) \o c) \cup Range(d)
  BY <1>6, <1>4, ChainJoin
<1>8. DefaultScripts(s) = ((a \o b) \o c) \o d
  BY DEF DefaultScripts, a, b, c, d
<1>9. Range(((a \o b) \o c) \o d) = DefaultSet(s)
  BY <1>1, <1>2, <1>3, <1>4, <1>5, <1>6, <1>7 DEF DefaultSet
<1> QED BY <1>7, <1>8, <1>9

LEMMA ProfileChain ==
    ASSUME NEW s, NEW p
    PROVE  /\ Chain(ProfileScripts(s, p), 2, 13)
           /\ Range(ProfileScripts(s, p)) = ProfileSet(s, p)
<1> DEFINE x == IF s.prof[p].dist # NoDist THEN "distribution" ELSE "create"
           b == CommonScripts(s, p)
           c == <<"plugins", "skills", "bundles", "crons">>
           d == When(s.prof[p].dist # NoDist, "resume")
<1>1. Chain(<<x>>, 2, 3) /\ Range(<<x>>) = {x}
  <2>1. x \in Between(2, 3)
    BY Ranks DEF Between
  <2> HIDE DEF x
  <2> QED BY <2>1, ChainOne
<1>2. Chain(b, 3, 6) /\ Range(b) = CommonSet(s, p)
  BY CommonChain
<1>3. Chain(c, 6, 12) /\ Range(c) = ItemScripts
  BY ItemChain
<1>4. Chain(d, 12, 13) /\ Range(d) = If(s.prof[p].dist # NoDist, "resume")
  <2>1. "resume" \in Between(12, 13)
    BY Ranks DEF Between
  <2> QED BY <2>1, ChainWhen
<1>5. ProfileScripts(s, p) = ((<<x>> \o b) \o c) \o d
  BY DEF ProfileScripts
<1>6. ProfileSet(s, p) = {x} \cup CommonSet(s, p) \cup ItemScripts
                              \cup If(s.prof[p].dist # NoDist, "resume")
  BY DEF ProfileSet
<1> HIDE DEF x, b, c, d
<1>7. Chain(<<x>> \o b, 2, 6) /\ Range(<<x>> \o b) = Range(<<x>>) \cup Range(b)
  BY <1>1, <1>2, ChainJoin
<1>9. /\ Chain((<<x>> \o b) \o c, 2, 12)
      /\ Range((<<x>> \o b) \o c) = Range(<<x>> \o b) \cup Range(c)
  BY <1>7, <1>3, ChainJoin
<1>10. /\ Chain(((<<x>> \o b) \o c) \o d, 2, 13)
       /\ Range(((<<x>> \o b) \o c) \o d) = Range((<<x>> \o b) \o c) \cup Range(d)
  BY <1>9, <1>4, ChainJoin
<1>11. Range(((<<x>> \o b) \o c) \o d) = ProfileSet(s, p)
  BY <1>1, <1>2, <1>3, <1>4, <1>6, <1>7, <1>9, <1>10
<1> QED BY <1>5, <1>10, <1>11

-----------------------------------------------------------------------------
(* The containers.                                                         *)

\* What the containers of the agent run for a profile.
AgentSet(s, p) ==
    IF p = "default"
    THEN DefaultSet(s) \cup If(s.userScript, "userScript") \cup If(s.egress, "append")
    ELSE ProfileSet(s, p)

\* What the containers behind them run.
LaterSet(s) == If(s.searxng, "searxng") \cup If(s.initContainers, "userContainer")

\* All that runs for a profile.
RunSet(s, p) == AgentSet(s, p) \cup (IF p = "default" THEN LaterSet(s) ELSE {})

Entry(name, p, x) == [container |-> name, profile |-> p, script |-> x]

Entries(name, p, X) == {Entry(name, p, x) : x \in X}

\* The scripts of one profile run in the order of their ranks.
InOrder(q) ==
    \A i, j \in DOMAIN q :
        i < j /\ q[i].profile = q[j].profile => Rank(q[i].script) < Rank(q[j].script)

LEMMA OrderConcat ==
    ASSUME NEW S, NEW a \in Seq(S), NEW b \in Seq(S), InOrder(a), InOrder(b),
           \A x \in Range(a), y \in Range(b) :
               x.profile = y.profile => Rank(x.script) < Rank(y.script)
    PROVE  InOrder(a \o b)
<1>1. /\ Len(a \o b) = Len(a) + Len(b) /\ a \o b \in Seq(S)
      /\ \A i \in 1..(Len(a) + Len(b)) :
            (a \o b)[i] = IF i <= Len(a) THEN a[i] ELSE b[i - Len(a)]
  BY ConcatProperties
<1>2. /\ Len(a) \in Nat /\ Len(b) \in Nat /\ DOMAIN a = 1..Len(a) /\ DOMAIN b = 1..Len(b)
      /\ DOMAIN (a \o b) = 1..(Len(a) + Len(b))
  BY <1>1, LenProperties
<1> DEFINE c == a \o b
<1>3. \A i \in DOMAIN c : /\ i <= Len(a) => i \in DOMAIN a /\ c[i] = a[i]
                          /\ i > Len(a) => i - Len(a) \in DOMAIN b /\ c[i] = b[i - Len(a)]
  BY <1>1, <1>2
<1>4. DOMAIN c \subseteq Nat
  BY <1>2
<1> HIDE DEF c
<1> SUFFICES ASSUME NEW i \in DOMAIN c, NEW j \in DOMAIN c, i < j, c[i].profile = c[j].profile
             PROVE  Rank(c[i].script) < Rank(c[j].script)
  BY DEF InOrder, c
<1>5. CASE j <= Len(a)
  <2>1. i <= Len(a)
    BY <1>2, <1>4, <1>5
  <2> QED BY <1>3, <1>5, <2>1 DEF InOrder
<1>6. CASE i > Len(a)
  <2>1. j > Len(a) /\ i - Len(a) < j - Len(a)
    BY <1>2, <1>4, <1>6
  <2> QED BY <1>3, <1>6, <2>1 DEF InOrder
<1>7. CASE i <= Len(a) /\ j > Len(a)
  <2>1. c[i] \in Range(a) /\ c[j] \in Range(b)
    BY <1>3, <1>7 DEF Range
  <2> QED BY <2>1
<1> QED BY <1>2, <1>4, <1>5, <1>6, <1>7

LEMMA ContainerShape ==
    ASSUME NEW name, NEW p, NEW q, NEW lo, NEW hi, Chain(q, lo, hi)
    PROVE  /\ Container(name, p, q) \in Seq(Entries(name, p, Range(q)))
           /\ Range(Container(name, p, q)) = Entries(name, p, Range(q))
           /\ InOrder(Container(name, p, q))
           /\ Len(Container(name, p, q)) = Len(q)
<1> DEFINE c == Container(name, p, q)
<1>1. q \in Seq(Between(lo, hi)) /\ DOMAIN q = 1..Len(q) /\ Len(q) \in Nat
  BY LenProperties DEF Chain
<1>2. c = [i \in 1..Len(q) |-> Entry(name, p, q[i])]
  BY <1>1 DEF Container, Entry
<1>3. \A i \in 1..Len(q) : q[i] \in Range(q)
  BY <1>1 DEF Range
<1>4. c \in Seq(Entries(name, p, Range(q))) /\ Len(c) = Len(q)
  <2>1. \A i \in 1..Len(q) : Entry(name, p, q[i]) \in Entries(name, p, Range(q))
    BY <1>3 DEF Entries
  <2>2. c \in Seq(Entries(name, p, Range(q)))
    BY <1>1, <1>2, <2>1, IsASeq
  <2> QED BY <1>1, <1>2, <2>2, LenProperties
<1>5. Range(c) = Entries(name, p, Range(q))
  BY <1>1, <1>2 DEF Range, Entries
<1>6. InOrder(c)
  BY <1>1, <1>2 DEF InOrder, Chain, Entry
<1> QED BY <1>4, <1>5, <1>6

-----------------------------------------------------------------------------
(* The containers of the named profiles: induction over the names, by the  *)
(* least index at which a fact would fail.                                 *)

LEMMA Least ==
    ASSUME NEW T, T \subseteq Nat, T # {}
    PROVE  \E x \in T : \A y \in T : x <= y
<1> DEFINE R == {ss \in Nat \X Nat : ss[1] < ss[2]}
<1>1. IsWellFoundedOn(R, Nat)
  BY NatLessThanWellFounded, Zenon DEF OpToRel
<1>2. PICK x \in T : \A y \in T : ~(<<y, x>> \in R)
  <2> HIDE DEF R
  <2> QED BY <1>1, WFMin
<1>3. \A y \in T : ~(y < x)
  BY <1>2
<1> QED BY <1>3

\* What Joined defines by recursion.
Unfolds(seqs, f, n) == f = [i \in 0..n |-> IF i = 0 THEN <<>> ELSE f[i - 1] \o seqs[i]]

LEMMA UnfoldingExists ==
    ASSUME NEW seqs, NEW n \in Nat
    PROVE  \E f : Unfolds(seqs, f, n)
<1> DEFINE T == {m \in Nat : ~\E f : Unfolds(seqs, f, m)}
<1> SUFFICES ASSUME T # {} PROVE FALSE
  OBVIOUS
<1>1. PICK m \in T : \A y \in T : m <= y
  <2>1. T \subseteq Nat /\ T # {}
    OBVIOUS
  <2> HIDE DEF T
  <2> QED BY <2>1, Least
<1>2. m \in Nat /\ ~\E f : Unfolds(seqs, f, m)
  BY <1>1
<1>3. CASE m = 0
  <2>1. Unfolds(seqs, [i \in 0..0 |-> <<>>], 0)
    BY DEF Unfolds
  <2> QED BY <1>2, <1>3, <2>1
<1>4. CASE m # 0
  <2>1. m - 1 \in Nat /\ m - 1 \notin T
    BY <1>1, <1>2, <1>4
  <2>2. PICK g : Unfolds(seqs, g, m - 1)
    BY <2>1
  <2> DEFINE f == [i \in 0..m |-> IF i = m THEN g[m - 1] \o seqs[m] ELSE g[i]]
  <2>3. \A i \in 0..m : f[i] = IF i = 0 THEN <<>> ELSE f[i - 1] \o seqs[i]
    <3> SUFFICES ASSUME NEW i \in 0..m
                 PROVE  f[i] = IF i = 0 THEN <<>> ELSE f[i - 1] \o seqs[i]
      OBVIOUS
    <3>1. CASE i = m
      <4>1. i # 0 /\ m - 1 \in 0..m /\ m - 1 # m
        BY <1>2, <1>4, <3>1
      <4>2. f[m - 1] = g[m - 1]
        BY <4>1
      <4> QED BY <3>1, <4>1, <4>2
    <3>2. CASE i # m
      <4>1. i \in 0..(m - 1) /\ (i # 0 => i - 1 \in 0..m /\ i - 1 # m)
        BY <1>2, <1>4, <3>2
      <4>2. g[i] = IF i = 0 THEN <<>> ELSE g[i - 1] \o seqs[i]
        BY <2>2, <4>1 DEF Unfolds
      <4>3. f[i] = g[i] /\ (i # 0 => f[i - 1] = g[i - 1])
        BY <3>2, <4>1
      <4> QED BY <4>2, <4>3
    <3> QED BY <3>1, <3>2
  <2>4. Unfolds(seqs, f, m)
    BY <2>3 DEF Unfolds
  <2> QED BY <1>2, <2>4
<1> QED BY <1>3, <1>4

LEMMA Unfolding ==
    ASSUME NEW seqs
    PROVE  \E f : /\ Joined(seqs) = f[Len(NameOrder)] /\ f[0] = <<>>
                  /\ \A i \in 1..Len(NameOrder) : f[i] = f[i - 1] \o seqs[i]
<1> DEFINE f == CHOOSE f : f = [i \in 0..Len(NameOrder) |->
                                  IF i = 0 THEN <<>> ELSE f[i - 1] \o seqs[i]]
<1>1. Len(NameOrder) \in Nat
  BY NamesAssumption
<1>2. Unfolds(seqs, f, Len(NameOrder))
  BY <1>1, UnfoldingExists DEF Unfolds
<1>3. Joined(seqs) = f[Len(NameOrder)]
  BY DEF Joined
<1> HIDE DEF f
<1>4. \A i \in 0..Len(NameOrder) : f[i] = IF i = 0 THEN <<>> ELSE f[i - 1] \o seqs[i]
  BY <1>2, Zenon DEF Unfolds
<1>5. /\ 0 \in 0..Len(NameOrder)
      /\ \A i \in 1..Len(NameOrder) : i \in 0..Len(NameOrder) /\ i # 0
  BY <1>1
<1>6. f[0] = <<>> /\ \A i \in 1..Len(NameOrder) : f[i] = f[i - 1] \o seqs[i]
  BY <1>4, <1>5, Zenon
<1> QED BY <1>3, <1>6

\* The container of the i-th name, if the spec has that profile.
Piece(s, i) ==
    IF NameOrder[i] \in s.named
    THEN Container(NameOrder[i], NameOrder[i], ProfileScripts(s, NameOrder[i]))
    ELSE <<>>

\* The entries of the profiles up to the n-th name.
NamedEntries(s, n) ==
    {Entry(NameOrder[i], NameOrder[i], x) : i \in {j \in 1..n : NameOrder[j] \in s.named},
                                            x \in Scripts}

\* What runs for those profiles, and nothing else, in the order of the ranks.
NamedShape(s, q, n) ==
    /\ q \in Seq(NamedEntries(s, n))
    /\ Range(q) = {c \in NamedEntries(s, n) : c.script \in ProfileSet(s, c.profile)}
    /\ InOrder(q)

LEMMA NamedStep ==
    ASSUME NEW s, NEW q, NEW n \in 1..Len(NameOrder), NamedShape(s, q, n - 1)
    PROVE  NamedShape(s, q \o Piece(s, n), n)
<1> DEFINE name == NameOrder[n]
           new == Entries(name, name, Scripts)
           old == NamedEntries(s, n - 1)
<1>1. Len(NameOrder) \in Nat /\ DOMAIN NameOrder = 1..Len(NameOrder)
  BY NamesAssumption
<1>2. q \in Seq(old)
  BY DEF NamedShape
<1>3. CASE name \notin s.named
  <2>1. {j \in 1..n : NameOrder[j] \in s.named} = {j \in 1..(n - 1) : NameOrder[j] \in s.named}
    BY <1>1, <1>3
  <2>2. NamedEntries(s, n) = old
    BY <2>1 DEF NamedEntries
  <2>3. q \o Piece(s, n) = q
    BY <1>2, <1>3, ConcatEmptySeq DEF Piece
  <2> QED BY <2>2, <2>3 DEF NamedShape
<1>4. CASE name \in s.named
  <2> DEFINE c == Container(name, name, ProfileScripts(s, name))
             ran == Entries(name, name, ProfileSet(s, name))
  <2>1. Chain(ProfileScripts(s, name), 2, 13) /\ Range(ProfileScripts(s, name)) = ProfileSet(s, name)
    BY ProfileChain
  <2>2. ProfileSet(s, name) \subseteq Scripts
    <3>1. ProfileScripts(s, name) \in Seq(Between(2, 13))
      BY <2>1 DEF Chain
    <3>2. Range(ProfileScripts(s, name)) \subseteq Between(2, 13)
      BY <3>1, RangeOfSeq
    <3> QED BY <2>1, <3>2 DEF Between
  <2>3. c \in Seq(ran) /\ Range(c) = ran /\ InOrder(c)
    BY <2>1, ContainerShape
  <2>4. ran \subseteq new
    BY <2>2 DEF Entries
  <2>5. NamedEntries(s, n) = old \cup new
    <3>1. {j \in 1..n : NameOrder[j] \in s.named}
            = {j \in 1..(n - 1) : NameOrder[j] \in s.named} \cup {n}
      BY <1>1, <1>4
    <3> QED BY <3>1 DEF NamedEntries, Entries
  <2>6. q \o Piece(s, n) = q \o c
    BY <1>4 DEF Piece
  <2>7. q \in Seq(NamedEntries(s, n)) /\ c \in Seq(NamedEntries(s, n))
    BY <1>2, <2>3, <2>4, <2>5, SeqMonotonic
  <2>8. \A x \in old, y \in new : x.profile # y.profile
    <3>1. \A y \in new : y.profile = name
      BY DEF Entry, Entries
    <3>2. \A x \in old : \E i \in 1..(n - 1) : x.profile = NameOrder[i]
      BY DEF NamedEntries, Entry
    <3>3. \A i \in 1..(n - 1) : NameOrder[i] # name
      BY <1>1, NamesAssumption
    <3> QED BY <3>1, <3>2, <3>3
  <2>9. InOrder(q \o c)
    <3>1. \A x \in Range(q), y \in Range(c) : x.profile # y.profile
      BY <2>3, <2>4, <2>8 DEF NamedShape
    <3>2. InOrder(q)
      BY DEF NamedShape
    <3> QED BY <2>3, <2>7, <3>1, <3>2, OrderConcat
  <2>10. Range(q \o c) = Range(q) \cup ran
    BY <2>3, <2>7, RangeConcatenation
  <2>11. Range(q \o c) = {x \in NamedEntries(s, n) : x.script \in ProfileSet(s, x.profile)}
    <3>1. ran = {x \in new : x.script \in ProfileSet(s, x.profile)}
      BY <2>2 DEF Entry, Entries
    <3> QED BY <2>5, <2>10, <3>1 DEF NamedShape
  <2> QED BY <2>6, <2>7, <2>9, <2>11, ConcatProperties DEF NamedShape
<1> QED BY <1>3, <1>4

LEMMA ProfileContainersShape ==
    ASSUME NEW s
    PROVE  NamedShape(s, ProfileContainers(s), Len(NameOrder))
<1>1. Len(NameOrder) \in Nat
  BY NamesAssumption
<1> DEFINE seqs == [i \in DOMAIN NameOrder |-> Piece(s, i)]
<1>2. PICK f : /\ Joined(seqs) = f[Len(NameOrder)] /\ f[0] = <<>>
               /\ \A i \in 1..Len(NameOrder) : f[i] = f[i - 1] \o seqs[i]
  BY Unfolding
<1>3. /\ ProfileContainers(s) = f[Len(NameOrder)] /\ f[0] = <<>>
      /\ \A i \in 1..Len(NameOrder) : f[i] = f[i - 1] \o Piece(s, i)
  <2>1. ProfileContainers(s) = Joined(seqs)
    BY DEF ProfileContainers, Piece
  <2>2. \A i \in 1..Len(NameOrder) : seqs[i] = Piece(s, i)
    BY NamesAssumption
  <2> HIDE DEF seqs
  <2> QED BY <1>2, <2>1, <2>2
<1> HIDE DEF seqs
<1> DEFINE T == {m \in 0..Len(NameOrder) : ~NamedShape(s, f[m], m)}
<1>4. ASSUME T # {}
      PROVE  FALSE
  <2>1. PICK m \in T : \A y \in T : m <= y
    <3>1. T \subseteq Nat
      BY <1>1
    <3> HIDE DEF T
    <3> QED BY <1>4, <3>1, Least
  <2>2. m \in 0..Len(NameOrder) /\ ~NamedShape(s, f[m], m)
    BY <2>1
  <2>3. CASE m = 0
    <3>1. NamedEntries(s, 0) = {}
      BY DEF NamedEntries
    <3>2. NamedShape(s, <<>>, 0)
      BY <3>1 DEF NamedShape, InOrder, Range
    <3> QED BY <1>3, <2>2, <2>3, <3>2
  <2>4. CASE m # 0
    <3>1. m \in 1..Len(NameOrder) /\ m - 1 \in 0..Len(NameOrder) /\ m - 1 < m
      BY <1>1, <2>2, <2>4
    <3>2. m - 1 \notin T
      BY <1>1, <2>1, <3>1
    <3>3. NamedShape(s, f[m - 1], m - 1)
      BY <3>1, <3>2
    <3> QED BY <1>3, <2>2, <3>1, <3>3, NamedStep
  <2> QED BY <2>3, <2>4
<1>5. NamedShape(s, f[Len(NameOrder)], Len(NameOrder))
  BY <1>1, <1>4
<1> QED BY <1>3, <1>5

-----------------------------------------------------------------------------
(* The plan.                                                               *)

\* The containers that a spec asks for.
Containers(s) ==
    {"init-hermes"} \cup s.named \cup If(s.userScript, "user") \cup If(s.egress, "init-egress")
        \cup If(s.searxng, "init-searxng-config") \cup If(s.initContainers, "initContainers")

\* The scripts and the containers behind those of the agent.
LaterScripts == {"searxng", "userContainer"}

LaterNames == {"init-searxng-config", "initContainers"}

StepSet(s) ==
    {c \in [container : Containers(s), profile : Declared(s), script : Scripts] :
        /\ c.script \in RunSet(s, c.profile)
        /\ c.script = "append" <=> c.container = "init-egress"
        /\ c.script \in LaterScripts <=> c.container \in LaterNames}

\* All that runs for the profiles of the spec runs, and nothing else; what runs
\* for one profile runs in the order of the ranks.
PlanOK(s, q) ==
    /\ q \in Seq(StepSet(s))
    /\ InOrder(q)
    /\ \A p \in Declared(s) : \A x \in RunSet(s, p) :
          \E i \in DOMAIN q : q[i].profile = p /\ q[i].script = x

LEMMA DefaultSetType ==
    ASSUME NEW s
    PROVE  /\ DefaultSet(s) \subseteq Between(1, 13)
           /\ "append" \notin DefaultSet(s) /\ DefaultSet(s) \cap LaterScripts = {}
<1>1. Range(DefaultScripts(s)) \subseteq Between(1, 13)
  BY DefaultChain, RangeOfSeq DEF Chain
<1> QED BY <1>1, DefaultChain, Ranks DEF Between, LaterScripts

LEMMA ProfileSetType ==
    ASSUME NEW s, NEW p
    PROVE  /\ ProfileSet(s, p) \subseteq Between(2, 13)
           /\ "append" \notin ProfileSet(s, p) /\ ProfileSet(s, p) \cap LaterScripts = {}
<1>1. Range(ProfileScripts(s, p)) \subseteq Between(2, 13)
  BY ProfileChain, RangeOfSeq DEF Chain
<1> QED BY <1>1, ProfileChain, Ranks DEF Between, LaterScripts

LEMMA EntryInSteps ==
    ASSUME NEW s, NEW name \in Containers(s), NEW p \in Declared(s), NEW x \in RunSet(s, p),
           x \in Scripts, x = "append" <=> name = "init-egress",
           x \in LaterScripts <=> name \in LaterNames
    PROVE  Entry(name, p, x) \in StepSet(s)
<1> DEFINE e == Entry(name, p, x)
<1>1. /\ e \in [container : Containers(s), profile : Declared(s), script : Scripts]
      /\ e.container = name /\ e.profile = p /\ e.script = x
  BY DEF Entry
<1> HIDE DEF e
<1>2. e \in StepSet(s)
  BY <1>1 DEF StepSet
<1> QED BY <1>2 DEF e

LEMMA OrderJoin ==
    ASSUME NEW S, NEW a \in Seq(S), NEW b \in Seq(S), InOrder(a), InOrder(b),
           NEW X, NEW Y, Range(a) = X, Range(b) = Y,
           \A x \in X, y \in Y : x.profile = y.profile => Rank(x.script) < Rank(y.script)
    PROVE  a \o b \in Seq(S) /\ Range(a \o b) = X \cup Y /\ InOrder(a \o b)
BY OrderConcat, RangeConcatenation, ConcatProperties

\* The containers of the agent.
AgentPlan(s) ==
    Container("init-hermes", "default", DefaultScripts(s)) \o ProfileContainers(s)
        \o Container("user", "default", When(s.userScript, "userScript"))
        \o Container("init-egress", "default", When(s.egress, "append"))

LEMMA AgentPlanShape ==
    ASSUME NEW s \in Specs
    PROVE  /\ AgentPlan(s) \in Seq(StepSet(s))
           /\ InOrder(AgentPlan(s))
           /\ \A x \in Range(AgentPlan(s)) : Rank(x.script) <= 14
           /\ \A p \in Declared(s) : \A x \in AgentSet(s, p) :
                 \E i \in DOMAIN AgentPlan(s) :
                     AgentPlan(s)[i].profile = p /\ AgentPlan(s)[i].script = x
           /\ Len(AgentPlan(s)) >= 1
           /\ AgentPlan(s)[1].profile = "default"
           /\ s.egress => AgentPlan(s)[Len(AgentPlan(s))].script = "append"
<1> DEFINE a == Container("init-hermes", "default", DefaultScripts(s))
           b == ProfileContainers(s)
           c == Container("user", "default", When(s.userScript, "userScript"))
           d == Container("init-egress", "default", When(s.egress, "append"))
           A == Entries("init-hermes", "default", DefaultSet(s))
           B == {x \in NamedEntries(s, Len(NameOrder)) : x.script \in ProfileSet(s, x.profile)}
           C == Entries("user", "default", If(s.userScript, "userScript"))
           D == Entries("init-egress", "default", If(s.egress, "append"))
<1>1. s.named \subseteq Names /\ Names \cap ({"default", "init-egress"} \cup LaterNames) = {}
  BY SpecsAssumption, NamesAssumption DEF Names, LaterNames
<1>2. a \in Seq(A) /\ Range(a) = A /\ InOrder(a)
  BY DefaultChain, ContainerShape
<1>3. b \in Seq(B) /\ Range(b) = B /\ InOrder(b)
  BY ProfileContainersShape, SeqOfRange DEF NamedShape
<1>4. c \in Seq(C) /\ Range(c) = C /\ InOrder(c)
  <2>1. "userScript" \in Between(13, 14)
    BY Ranks DEF Between
  <2> QED BY <2>1, ChainWhen, ContainerShape
<1>5. d \in Seq(D) /\ Range(d) = D /\ InOrder(d)
  <2>1. "append" \in Between(14, 15)
    BY Ranks DEF Between
  <2> QED BY <2>1, ChainWhen, ContainerShape
<1>6. AgentPlan(s) = ((a \o b) \o c) \o d
  BY DEF AgentPlan
<1>7. /\ \A x \in A : x.profile = "default" /\ Rank(x.script) \in 1..12
      /\ \A x \in B : x.profile \in s.named
      /\ \A x \in C : x.profile = "default" /\ Rank(x.script) = 13
      /\ \A x \in D : x.profile = "default" /\ Rank(x.script) = 14
  <2>1. \A x \in A : x.profile = "default" /\ Rank(x.script) \in 1..12
    BY DefaultSetType, RankType DEF Entries, Entry, Between
  <2>2. \A x \in B : x.profile \in s.named
    BY DEF NamedEntries, Entry
  <2>3. \A x \in C : x.profile = "default" /\ Rank(x.script) = 13
    BY Ranks DEF Entries, Entry, If
  <2>4. \A x \in D : x.profile = "default" /\ Rank(x.script) = 14
    BY Ranks DEF Entries, Entry, If
  <2> QED BY <2>1, <2>2, <2>3, <2>4
<1>8. A \cup B \cup C \cup D \subseteq StepSet(s)
  <2>1. A \subseteq StepSet(s)
    <3>1. ASSUME NEW x \in DefaultSet(s)
          PROVE  Entry("init-hermes", "default", x) \in StepSet(s)
      <4>1. /\ x \in Scripts /\ x # "append" /\ x \notin LaterScripts
            /\ "default" \in Declared(s) /\ x \in RunSet(s, "default")
        BY DefaultSetType DEF Between, Declared, RunSet, AgentSet
      <4>2. /\ "init-hermes" \in Containers(s)
            /\ x = "append" <=> "init-hermes" = "init-egress"
            /\ x \in LaterScripts <=> "init-hermes" \in LaterNames
        BY <4>1 DEF Containers, LaterNames
      <4> QED BY <4>1, <4>2, EntryInSteps
    <3> QED BY <3>1 DEF Entries
  <2>2. B \subseteq StepSet(s)
    <3> SUFFICES ASSUME NEW x \in B PROVE x \in StepSet(s)
      OBVIOUS
    <3>1. PICK i \in 1..Len(NameOrder), z \in Scripts :
                /\ NameOrder[i] \in s.named /\ x = Entry(NameOrder[i], NameOrder[i], z)
                /\ x.script \in ProfileSet(s, x.profile)
      BY DEF NamedEntries
    <3>2. /\ NameOrder[i] \in Containers(s)
          /\ NameOrder[i] \notin {"default", "init-egress"} \cup LaterNames
      BY <1>1, <3>1 DEF Containers
    <3>3. z \in ProfileSet(s, NameOrder[i]) /\ z # "append" /\ z \notin LaterScripts
      BY <3>1, ProfileSetType DEF Entry
    <3>4. z \in RunSet(s, NameOrder[i]) /\ NameOrder[i] \in Declared(s)
      BY <3>1, <3>2, <3>3 DEF RunSet, AgentSet, Declared
    <3> QED BY <3>1, <3>2, <3>3, <3>4 DEF Entry, StepSet
  <2>3. C \subseteq StepSet(s)
    <3>1. ASSUME s.userScript
          PROVE  Entry("user", "default", "userScript") \in StepSet(s)
      <4>1. /\ "userScript" \in Scripts /\ "default" \in Declared(s)
            /\ "userScript" \in RunSet(s, "default")
        BY <3>1, Ranks DEF Declared, RunSet, AgentSet, If
      <4>2. /\ "user" \in Containers(s)
            /\ "userScript" = "append" <=> "user" = "init-egress"
            /\ "userScript" \in LaterScripts <=> "user" \in LaterNames
        BY <3>1 DEF Containers, If, LaterScripts, LaterNames
      <4> QED BY <4>1, <4>2, EntryInSteps
    <3> QED BY <3>1 DEF Entries, If
  <2>4. D \subseteq StepSet(s)
    <3>1. ASSUME s.egress
          PROVE  Entry("init-egress", "default", "append") \in StepSet(s)
      <4>1. /\ "append" \in Scripts /\ "default" \in Declared(s)
            /\ "append" \in RunSet(s, "default")
        BY <3>1, Ranks DEF Declared, RunSet, AgentSet, If
      <4>2. /\ "init-egress" \in Containers(s)
            /\ "append" = "append" <=> "init-egress" = "init-egress"
            /\ "append" \in LaterScripts <=> "init-egress" \in LaterNames
        BY <3>1 DEF Containers, If, LaterScripts, LaterNames
      <4> QED BY <4>1, <4>2, EntryInSteps
    <3> QED BY <3>1 DEF Entries, If
  <2> QED BY <2>1, <2>2, <2>3, <2>4
<1> HIDE DEF a, b, c, d, A, B, C, D
<1>9. /\ a \in Seq(StepSet(s)) /\ b \in Seq(StepSet(s)) /\ c \in Seq(StepSet(s))
      /\ d \in Seq(StepSet(s))
  BY <1>2, <1>3, <1>4, <1>5, <1>8, SeqMonotonic
<1>10. a \o b \in Seq(StepSet(s)) /\ Range(a \o b) = A \cup B /\ InOrder(a \o b)
  <2>1. \A x \in A, y \in B : x.profile # y.profile
    BY <1>1, <1>7
  <2> QED BY <1>2, <1>3, <1>9, <2>1, OrderJoin
<1>11. /\ (a \o b) \o c \in Seq(StepSet(s)) /\ Range((a \o b) \o c) = A \cup B \cup C
       /\ InOrder((a \o b) \o c)
  <2>1. \A x \in A \cup B, y \in C : x.profile = y.profile => Rank(x.script) < Rank(y.script)
    BY <1>1, <1>7
  <2> DEFINE q == a \o b
  <2>2. q \in Seq(StepSet(s)) /\ Range(q) = A \cup B /\ InOrder(q)
    BY <1>10
  <2> HIDE DEF q
  <2>3. q \o c \in Seq(StepSet(s)) /\ Range(q \o c) = (A \cup B) \cup C /\ InOrder(q \o c)
    BY <1>4, <1>9, <2>1, <2>2, OrderJoin
  <2> QED BY <2>3 DEF q
<1>12. /\ ((a \o b) \o c) \o d \in Seq(StepSet(s))
       /\ Range(((a \o b) \o c) \o d) = A \cup B \cup C \cup D
       /\ InOrder(((a \o b) \o c) \o d)
  <2>1. \A x \in A \cup B \cup C, y \in D : x.profile = y.profile => Rank(x.script) < Rank(y.script)
    BY <1>1, <1>7
  <2> DEFINE q == (a \o b) \o c
  <2>2. q \in Seq(StepSet(s)) /\ Range(q) = A \cup B \cup C /\ InOrder(q)
    BY <1>11
  <2> HIDE DEF q
  <2>3. q \o d \in Seq(StepSet(s)) /\ Range(q \o d) = (A \cup B \cup C) \cup D /\ InOrder(q \o d)
    BY <1>5, <1>9, <2>1, <2>2, OrderJoin
  <2> QED BY <2>3 DEF q
<1>13. ASSUME NEW p \in Declared(s), NEW x \in AgentSet(s, p)
       PROVE  \E i \in DOMAIN AgentPlan(s) : AgentPlan(s)[i].profile = p /\ AgentPlan(s)[i].script = x
  <2>1. \E y \in A \cup B \cup C \cup D : y.profile = p /\ y.script = x
    <3>1. CASE p = "default"
      <4>1. \/ Entry("init-hermes", "default", x) \in A
            \/ Entry("user", "default", x) \in C
            \/ Entry("init-egress", "default", x) \in D
        BY <3>1 DEF AgentSet, A, C, D, Entries
      <4> QED BY <3>1, <4>1 DEF Entry
    <3>2. CASE p # "default"
      <4>1. p \in s.named /\ x \in ProfileSet(s, p) /\ x \in Scripts
        BY <3>2, ProfileSetType DEF Declared, AgentSet, Between
      <4>2. PICK i \in 1..Len(NameOrder) : NameOrder[i] = p
        BY <1>1, <4>1, NamesAssumption DEF Names
      <4>3. Entry(p, p, x) \in B
        BY <4>1, <4>2 DEF B, NamedEntries, Entry
      <4> QED BY <4>3 DEF Entry
    <3> QED BY <3>1, <3>2
  <2> QED BY <1>6, <1>12, <2>1 DEF Range
<1>14. \A x \in Range(AgentPlan(s)) : Rank(x.script) <= 14
  <2>1. ASSUME NEW x \in B
        PROVE  Rank(x.script) <= 14
    <3>1. x.script \in Between(2, 13)
      BY ProfileSetType DEF B
    <3> QED BY <3>1, RankType DEF Between
  <2>2. \A x \in A \cup C \cup D : Rank(x.script) <= 14
    BY <1>7
  <2>3. Range(AgentPlan(s)) = A \cup B \cup C \cup D
    BY <1>6, <1>12
  <2> QED BY <2>1, <2>2, <2>3
<1>15. Len(a) >= 1 /\ Len(a) \in Nat /\ Len(b) \in Nat /\ Len(c) \in Nat /\ Len(d) \in Nat
  <2>1. Entry("init-hermes", "default", "python") \in A
    BY DEF A, Entries, DefaultSet, PackageKinds
  <2>2. PICK i \in DOMAIN a : TRUE
    BY <1>2, <2>1 DEF Range
  <2> QED BY <1>9, <2>2, LenProperties
<1>16. AgentPlan(s)[1] = a[1] /\ Len(AgentPlan(s)) = Len(a) + Len(b) + Len(c) + Len(d)
  <2>1. Len(a \o b) = Len(a) + Len(b) /\ (a \o b)[1] = a[1]
    BY <1>9, <1>15, ConcatProperties
  <2>2. /\ Len((a \o b) \o c) = Len(a) + Len(b) + Len(c)
        /\ ((a \o b) \o c)[1] = a[1]
    BY <1>9, <1>10, <1>15, <2>1, ConcatProperties
  <2> QED BY <1>6, <1>9, <1>11, <1>15, <2>2, ConcatProperties
<1>17. AgentPlan(s)[1].profile = "default"
  <2>1. a[1] \in A
    BY <1>2, <1>15, ElementOfSeq
  <2> QED BY <1>7, <1>16, <2>1
<1>18. ASSUME s.egress
       PROVE  AgentPlan(s)[Len(AgentPlan(s))].script = "append"
  <2>1. When(s.egress, "append") = <<"append">>
    BY <1>18 DEF When
  <2>2. Len(d) = 1 /\ d[1].script = "append"
    BY <2>1 DEF d, Container
  <2> DEFINE q == (a \o b) \o c
  <2>3. q \in Seq(StepSet(s)) /\ Len(q) \in Nat
    BY <1>11
  <2> HIDE DEF q
  <2>4. Len(q \o d) = Len(q) + 1 /\ (q \o d)[Len(q) + 1] = d[1]
    <3>1. /\ Len(q \o d) = Len(q) + Len(d)
          /\ \A i \in 1..(Len(q) + Len(d)) :
                (q \o d)[i] = IF i <= Len(q) THEN q[i] ELSE d[i - Len(q)]
      BY <1>9, <2>3, ConcatProperties
    <3>2. /\ Len(q) + 1 \in 1..(Len(q) + Len(d)) /\ ~(Len(q) + 1 <= Len(q))
          /\ Len(q) + 1 - Len(q) = 1
      BY <2>2, <2>3
    <3> QED BY <2>2, <3>1, <3>2
  <2> QED BY <1>6, <2>2, <2>4 DEF q
<1>19. AgentPlan(s) \in Seq(StepSet(s)) /\ InOrder(AgentPlan(s))
  BY <1>6, <1>12, Zenon
<1>20. Len(AgentPlan(s)) >= 1
  BY <1>15, <1>16
<1> QED BY <1>13, <1>14, <1>17, <1>18, <1>19, <1>20

LEMMA LaterShape ==
    ASSUME NEW s \in Specs
    PROVE  /\ LaterContainers(s) \in Seq(StepSet(s))
           /\ InOrder(LaterContainers(s))
           /\ \A x \in Range(LaterContainers(s)) :
                 x.profile = "default" /\ x.script \in LaterScripts /\ Rank(x.script) >= 15
           /\ \A x \in LaterSet(s) :
                 \E i \in DOMAIN LaterContainers(s) :
                     /\ LaterContainers(s)[i].profile = "default"
                     /\ LaterContainers(s)[i].script = x
<1> DEFINE e == Container("init-searxng-config", "default", When(s.searxng, "searxng"))
           f == Container("initContainers", "default", When(s.initContainers, "userContainer"))
           E == Entries("init-searxng-config", "default", If(s.searxng, "searxng"))
           F == Entries("initContainers", "default", If(s.initContainers, "userContainer"))
<1>1. e \in Seq(E) /\ Range(e) = E /\ InOrder(e)
  <2>1. "searxng" \in Between(15, 16)
    BY Ranks DEF Between
  <2> QED BY <2>1, ChainWhen, ContainerShape
<1>2. f \in Seq(F) /\ Range(f) = F /\ InOrder(f)
  <2>1. "userContainer" \in Between(16, 17)
    BY Ranks DEF Between
  <2> QED BY <2>1, ChainWhen, ContainerShape
<1>3. /\ \A x \in E : x.profile = "default" /\ x.script = "searxng" /\ Rank(x.script) = 15
      /\ \A x \in F : x.profile = "default" /\ x.script = "userContainer" /\ Rank(x.script) = 16
  BY Ranks DEF Entries, Entry, If
<1>4. E \subseteq StepSet(s)
  <2>1. ASSUME s.searxng
        PROVE  Entry("init-searxng-config", "default", "searxng") \in StepSet(s)
    <3>1. /\ "searxng" \in Scripts /\ "default" \in Declared(s)
          /\ "searxng" \in RunSet(s, "default")
      BY <2>1, Ranks DEF Declared, RunSet, LaterSet, If
    <3>2. /\ "init-searxng-config" \in Containers(s)
          /\ "searxng" = "append" <=> "init-searxng-config" = "init-egress"
          /\ "searxng" \in LaterScripts <=> "init-searxng-config" \in LaterNames
      BY <2>1 DEF Containers, If, LaterScripts, LaterNames
    <3> QED BY <3>1, <3>2, EntryInSteps
  <2> QED BY <2>1 DEF Entries, If
<1>5. F \subseteq StepSet(s)
  <2>1. ASSUME s.initContainers
        PROVE  Entry("initContainers", "default", "userContainer") \in StepSet(s)
    <3>1. /\ "userContainer" \in Scripts /\ "default" \in Declared(s)
          /\ "userContainer" \in RunSet(s, "default")
      BY <2>1, Ranks DEF Declared, RunSet, LaterSet, If
    <3>2. /\ "initContainers" \in Containers(s)
          /\ "userContainer" = "append" <=> "initContainers" = "init-egress"
          /\ "userContainer" \in LaterScripts <=> "initContainers" \in LaterNames
      BY <2>1 DEF Containers, If, LaterScripts, LaterNames
    <3> QED BY <3>1, <3>2, EntryInSteps
  <2> QED BY <2>1 DEF Entries, If
<1>6. LaterContainers(s) = e \o f
  BY DEF LaterContainers
<1>7. \A x \in LaterSet(s) : \E y \in E \cup F : y.profile = "default" /\ y.script = x
  <2>1. /\ s.searxng => Entry("init-searxng-config", "default", "searxng") \in E
        /\ s.initContainers => Entry("initContainers", "default", "userContainer") \in F
    BY DEF Entries, If
  <2>2. ASSUME NEW x \in LaterSet(s)
        PROVE  \/ s.searxng /\ x = "searxng"
               \/ s.initContainers /\ x = "userContainer"
    BY <2>2 DEF LaterSet, If
  <2>3. \A x : /\ Entry("init-searxng-config", "default", x).profile = "default"
               /\ Entry("init-searxng-config", "default", x).script = x
               /\ Entry("initContainers", "default", x).profile = "default"
               /\ Entry("initContainers", "default", x).script = x
    BY DEF Entry
  <2> HIDE DEF E, F
  <2> QED BY <2>1, <2>2, <2>3
<1> HIDE DEF e, f, E, F
<1>8. e \in Seq(StepSet(s)) /\ f \in Seq(StepSet(s))
  BY <1>1, <1>2, <1>4, <1>5, SeqMonotonic
<1>9. e \o f \in Seq(StepSet(s)) /\ Range(e \o f) = E \cup F /\ InOrder(e \o f)
  <2>1. \A x \in E, y \in F : x.profile = y.profile => Rank(x.script) < Rank(y.script)
    BY <1>3
  <2> QED BY <1>1, <1>2, <1>8, <2>1, OrderJoin
<1>10. \A x \in LaterSet(s) : \E i \in DOMAIN LaterContainers(s) :
          LaterContainers(s)[i].profile = "default" /\ LaterContainers(s)[i].script = x
  <2> TAKE x \in LaterSet(s)
  <2>1. PICK y \in Range(LaterContainers(s)) : y.profile = "default" /\ y.script = x
    BY <1>6, <1>7, <1>9
  <2> QED BY <2>1 DEF Range
<1> QED BY <1>3, <1>6, <1>9, <1>10 DEF LaterScripts

LEMMA PlanShape ==
    ASSUME NEW s \in Specs
    PROVE  /\ PlanOK(s, Plan(s))
           /\ Len(Plan(s)) >= 1
           /\ Plan(s)[1].profile = "default"
           /\ \A i, j \in DOMAIN Plan(s) :
                 i < j /\ Plan(s)[i].script \in {"append"} \cup LaterScripts =>
                     Plan(s)[j].script \in LaterScripts
<1> DEFINE r == AgentPlan(s)
           g == LaterContainers(s)
           q == Plan(s)
<1>1. q = r \o g
  BY DEF Plan, AgentPlan, LaterContainers
<1>2. /\ r \in Seq(StepSet(s)) /\ InOrder(r) /\ Len(r) >= 1 /\ r[1].profile = "default"
      /\ \A x \in Range(r) : Rank(x.script) <= 14
      /\ s.egress => r[Len(r)].script = "append"
      /\ \A p \in Declared(s) : \A x \in AgentSet(s, p) :
            \E i \in DOMAIN r : r[i].profile = p /\ r[i].script = x
  BY AgentPlanShape
<1>3. /\ g \in Seq(StepSet(s)) /\ InOrder(g)
      /\ \A x \in Range(g) : /\ x.profile = "default" /\ Rank(x.script) >= 15
                             /\ x.script \in LaterScripts
      /\ \A x \in LaterSet(s) : \E i \in DOMAIN g : g[i].profile = "default" /\ g[i].script = x
  BY LaterShape
<1> HIDE DEF r, g, q
<1>4. \A x : Rank(x) \in Nat
  BY RankType
<1>5. q \in Seq(StepSet(s)) /\ InOrder(q) /\ Range(q) = Range(r) \cup Range(g)
  <2>1. \A x \in Range(r), y \in Range(g) :
           x.profile = y.profile => Rank(x.script) < Rank(y.script)
    BY <1>2, <1>3, <1>4
  <2> QED BY <1>1, <1>2, <1>3, <2>1, OrderJoin
<1>6. /\ Len(q) = Len(r) + Len(g) /\ Len(r) \in Nat /\ Len(g) \in Nat
      /\ DOMAIN q = 1..Len(q) /\ DOMAIN r = 1..Len(r) /\ DOMAIN g = 1..Len(g)
      /\ \A i \in 1..(Len(r) + Len(g)) : q[i] = IF i <= Len(r) THEN r[i] ELSE g[i - Len(r)]
  BY <1>1, <1>2, <1>3, <1>5, ConcatProperties, LenProperties
<1>7. ASSUME NEW p \in Declared(s), NEW x \in RunSet(s, p)
      PROVE  \E i \in DOMAIN q : q[i].profile = p /\ q[i].script = x
  <2>1. CASE x \in AgentSet(s, p)
    <3>1. PICK y \in Range(r) : y.profile = p /\ y.script = x
      BY <1>2, <2>1 DEF Range
    <3>2. y \in Range(q)
      BY <1>5
    <3> QED BY <3>1, <3>2 DEF Range
  <2>2. CASE p = "default" /\ x \in LaterSet(s)
    <3>1. PICK y \in Range(g) : y.profile = p /\ y.script = x
      BY <1>3, <2>2 DEF Range
    <3>2. y \in Range(q)
      BY <1>5
    <3> QED BY <3>1, <3>2 DEF Range
  <2> QED BY <2>1, <2>2 DEF RunSet
<1>8. ASSUME NEW i \in DOMAIN q, NEW j \in DOMAIN q, i < j,
             q[i].script \in {"append"} \cup LaterScripts
      PROVE  q[j].script \in LaterScripts
  <2>1. CASE j > Len(r)
    <3>1. j - Len(r) \in DOMAIN g /\ q[j] = g[j - Len(r)]
      BY <1>6, <2>1
    <3> QED BY <1>3, <3>1 DEF Range
  <2>2. CASE j <= Len(r)
    <3>1. i \in 1..Len(r) /\ i < Len(r) /\ q[i] = r[i] /\ Len(r) \in 1..Len(r)
      BY <1>6, <1>8, <2>2
    <3>6. q[i].script = "append"
      <4>1. Rank(q[i].script) <= 14
        BY <1>2, <1>6, <3>1 DEF Range
      <4> QED BY <1>8, <4>1, Ranks DEF LaterScripts
    <3>2. s.egress /\ r[i].profile = "default"
      <4>1. r[i] \in StepSet(s)
        BY <1>2, <1>6, <3>1, ElementOfSeq
      <4>2. "append" \in RunSet(s, r[i].profile)
        BY <3>1, <3>6, <4>1 DEF StepSet
      <4> QED BY <4>2, DefaultSetType, ProfileSetType DEF RunSet, AgentSet, LaterSet, If
    <3>3. r[Len(r)].script = "append" /\ r[Len(r)].profile = "default"
      <4>1. r[Len(r)] \in StepSet(s) /\ r[Len(r)].script = "append"
        BY <1>2, <1>6, <3>1, <3>2, ElementOfSeq
      <4>2. "append" \in RunSet(s, r[Len(r)].profile)
        BY <4>1 DEF StepSet
      <4> QED BY <4>1, <4>2, ProfileSetType DEF RunSet, AgentSet, LaterSet, If
    <3>4. Rank(r[i].script) < Rank(r[Len(r)].script)
      BY <1>2, <1>6, <3>1, <3>2, <3>3 DEF InOrder
    <3>5. Rank("append") < Rank("append")
      BY <3>1, <3>3, <3>4, <3>6
    <3> QED BY <3>5, Ranks
  <2> QED BY <1>6, <2>1, <2>2
<1>9. PlanOK(s, q)
  BY <1>5, <1>7 DEF PlanOK
<1>10. Len(q) >= 1 /\ q[1].profile = "default"
  BY <1>2, <1>6
<1> QED BY <1>8, <1>9, <1>10 DEF q

\* The plan of the Pod's spec: strip is first, and behind append come only the
\* containers that are not the agent's, strip and append only with egress; no script
\* runs twice for a profile; what creates a named profile comes before all else that
\* runs for it.
LEMMA PlanOf ==
    ASSUME NEW s \in Specs, NEW q, q = Plan(s)
    PROVE  /\ Len(q) \in Nat /\ Len(q) >= 1 /\ DOMAIN q = 1..Len(q)
           /\ \A i \in 1..Len(q) :
                 /\ q[i] \in StepSet(s)
                 /\ q[i].script = "strip" => s.egress /\ i = 1
                 /\ q[i].script = "append" => s.egress
           /\ s.egress => /\ q[1].script = "strip"
                         /\ \E i \in 1..Len(q) : q[i].script = "append"
           /\ \A i, j \in 1..Len(q) :
                 i < j /\ q[i].script \in {"append"} \cup LaterScripts =>
                     q[j].script \in LaterScripts
           /\ \A i, j \in 1..Len(q) :
                 i < j /\ q[i].profile = q[j].profile =>
                     /\ q[i].script # q[j].script
                     /\ q[j].script \notin {"create", "distribution"}
           /\ \A p \in Declared(s) : \A x \in RunSet(s, p) :
                 \E i \in 1..Len(q) : q[i].profile = p /\ q[i].script = x
<1>1. q = Plan(s)
  OBVIOUS
<1>2. /\ PlanOK(s, q) /\ Len(q) >= 1 /\ q[1].profile = "default"
      /\ \A i, j \in DOMAIN q : i < j /\ q[i].script \in {"append"} \cup LaterScripts =>
                                   q[j].script \in LaterScripts
  BY <1>1, PlanShape
<1>3. Len(q) \in Nat /\ DOMAIN q = 1..Len(q)
  BY <1>2, LenProperties DEF PlanOK
<1>4. \A i \in 1..Len(q) : q[i] \in StepSet(s)
  BY <1>2, <1>3, ElementOfSeq DEF PlanOK
<1>5. \A i, j \in 1..Len(q) :
         i < j /\ q[i].profile = q[j].profile => Rank(q[i].script) < Rank(q[j].script)
  BY <1>2, <1>3 DEF PlanOK, InOrder
<1>6. \A p \in Declared(s) : \A x \in RunSet(s, p) :
         \E i \in 1..Len(q) : q[i].profile = p /\ q[i].script = x
  BY <1>2, <1>3 DEF PlanOK
<1>7. /\ \A p : "strip" \notin ProfileSet(s, p) /\ "append" \notin ProfileSet(s, p)
      /\ "create" \notin RunSet(s, "default") /\ "distribution" \notin RunSet(s, "default")
      /\ "strip" \in RunSet(s, "default") <=> s.egress
      /\ "append" \in RunSet(s, "default") <=> s.egress
  BY DEF RunSet, AgentSet, LaterSet, DefaultSet, ProfileSet, CommonSet, If, ItemScripts,
         PackageKinds
<1>8. ASSUME NEW i \in 1..Len(q), q[i].script \in {"strip", "append"}
      PROVE  q[i].profile = "default" /\ s.egress
  <2>1. q[i].script \in RunSet(s, q[i].profile)
    BY <1>4 DEF StepSet
  <2>2. q[i].profile = "default"
    BY <1>7, <1>8, <2>1, Zenon DEF RunSet, AgentSet
  <2> QED BY <1>7, <1>8, <2>1, <2>2
<1>9. \A x : Rank(x) \in Nat /\ Rank(x) >= 1
  BY RankType
<1>10. ASSUME NEW i \in 1..Len(q), q[i].script = "strip"
       PROVE  i = 1
  <2>1. q[i].profile = "default" /\ Rank(q[i].script) = 1
    BY <1>8, <1>10, Ranks
  <2>2. 1 \in 1..Len(q) /\ (i # 1 => 1 < i)
    BY <1>2, <1>3
  <2>3. i # 1 => Rank(q[1].script) < 1
    BY <1>2, <1>5, <2>1, <2>2
  <2> QED BY <1>9, <2>3
<1>11. ASSUME s.egress
       PROVE  \E i \in 1..Len(q) : q[i].script = "append"
  <2>1. "default" \in Declared(s) /\ "append" \in RunSet(s, "default")
    BY <1>7, <1>11 DEF Declared
  <2> QED BY <1>6, <2>1
<1>12. ASSUME s.egress
       PROVE  q[1].script = "strip"
  <2>1. PICK i \in 1..Len(q) : q[i].script = "strip"
    <3>1. "default" \in Declared(s) /\ "strip" \in RunSet(s, "default")
      BY <1>7, <1>12 DEF Declared
    <3> QED BY <1>6, <3>1
  <2> QED BY <1>10, <2>1
<1>13. ASSUME NEW i \in 1..Len(q), NEW j \in 1..Len(q), i < j,
              q[i].profile = q[j].profile
       PROVE  /\ q[i].script # q[j].script
              /\ q[j].script \notin {"create", "distribution"}
  <2>1. Rank(q[i].script) < Rank(q[j].script)
    BY <1>5, <1>13
  <2>2. q[i].script # q[j].script
    <3>1. Rank(q[i].script) # Rank(q[j].script)
      BY <1>9, <2>1
    <3> QED BY <3>1, Zenon
  <2>3. ASSUME q[j].script \in {"create", "distribution"}
        PROVE  FALSE
    <3>1. Rank(q[i].script) < 2
      BY <2>1, <2>3, Ranks
    <3>2. q[i].script \in RunSet(s, q[i].profile) /\ q[j].script \in RunSet(s, q[j].profile)
      BY <1>4 DEF StepSet
    <3>3. q[j].profile # "default"
      BY <1>7, <2>3, <3>2
    <3>4. q[i].script \in ProfileSet(s, q[i].profile)
      BY <1>13, <3>2, <3>3 DEF RunSet, AgentSet
    <3>5. q[i].script \in Between(2, 13)
      BY <3>4, ProfileSetType
    <3> QED BY <1>9, <3>1, <3>5 DEF Between
  <2> QED BY <2>2, <2>3
<1>14. /\ \A i \in 1..Len(q) :
             /\ q[i] \in StepSet(s)
             /\ q[i].script = "strip" => s.egress /\ i = 1
             /\ q[i].script = "append" => s.egress
  BY <1>4, <1>8, <1>10
<1>15. \A i, j \in 1..Len(q) :
          i < j /\ q[i].script \in {"append"} \cup LaterScripts => q[j].script \in LaterScripts
  BY <1>2, <1>3
<1> QED BY <1>2, <1>3, <1>6, <1>11, <1>12, <1>13, <1>14, <1>15

LEMMA PlanFacts ==
    ASSUME spec \in Specs
    PROVE  /\ Len(plan) \in Nat /\ Len(plan) >= 1 /\ DOMAIN plan = 1..Len(plan)
           /\ \A i \in 1..Len(plan) :
                 /\ plan[i] \in StepSet(spec)
                 /\ plan[i].script = "strip" => spec.egress /\ i = 1
                 /\ plan[i].script = "append" => spec.egress
           /\ spec.egress => /\ plan[1].script = "strip"
                         /\ \E i \in 1..Len(plan) : plan[i].script = "append"
           /\ \A i, j \in 1..Len(plan) :
                 i < j /\ plan[i].script \in {"append"} \cup LaterScripts =>
                     plan[j].script \in LaterScripts
           /\ \A i, j \in 1..Len(plan) :
                 i < j /\ plan[i].profile = plan[j].profile =>
                     /\ plan[i].script # plan[j].script
                     /\ plan[j].script \notin {"create", "distribution"}
           /\ \A p \in Declared(spec) : \A x \in RunSet(spec, p) :
                 \E i \in 1..Len(plan) : plan[i].profile = p /\ plan[i].script = x
<1>1. plan = Plan(spec)
  BY DEF plan, Plans
<1> QED BY <1>1, PlanOf

\* The same of the spec that a step leaves.
LEMMA NextPlanFacts ==
    ASSUME spec' \in Specs
    PROVE  /\ Len(plan)' \in Nat /\ Len(plan)' >= 1
           /\ spec'.egress => plan'[1].script = "strip"
<1>1. plan' = Plan(spec')
  BY DEF plan, Plans
<1> QED BY <1>1, PlanOf

\* A container that is restarted goes back to its own first script.
LEMMA FirstStepFacts ==
    ASSUME spec \in Specs, NEW n \in 1..Len(plan)
    PROVE  /\ FirstStep(plan[n].container) \in 1..n
           /\ plan[FirstStep(plan[n].container)].container = plan[n].container
<1> DEFINE T == {i \in 1..Len(plan) : plan[i].container = plan[n].container}
<1>1. Len(plan) \in Nat /\ DOMAIN plan = 1..Len(plan)
  BY PlanFacts
<1>2. PICK x \in T : \A y \in T : x <= y
  <2>1. T \subseteq Nat /\ n \in T
    BY <1>1
  <2> HIDE DEF T
  <2> QED BY <2>1, Least
<1>3. \E i \in DOMAIN plan :
        /\ plan[i].container = plan[n].container
        /\ \A j \in DOMAIN plan : plan[j].container = plan[n].container => i <= j
  BY <1>1, <1>2
<1> DEFINE f == FirstStep(plan[n].container)
<1>4. /\ f \in DOMAIN plan /\ plan[f].container = plan[n].container
      /\ \A j \in DOMAIN plan : plan[j].container = plan[n].container => f <= j
  BY <1>3 DEF FirstStep
<1> HIDE DEF f
<1>5. f \in 1..n
  BY <1>1, <1>4
<1> QED BY <1>4, <1>5 DEF f

-----------------------------------------------------------------------------
(* The names of the containers in the Pod's status.                        *)

\* The named profiles up to the n-th name.
NamedUpTo(s, n) == {NameOrder[i] : i \in {j \in 1..n : NameOrder[j] \in s.named}}

LEMMA NamesJoined ==
    ASSUME NEW s \in Specs, NEW q,
           q = Joined([i \in DOMAIN NameOrder |-> When(NameOrder[i] \in s.named, NameOrder[i])])
    PROVE  q \in Seq(Names) /\ s.named \subseteq Range(q)
<1> DEFINE seqs == [i \in DOMAIN NameOrder |-> When(NameOrder[i] \in s.named, NameOrder[i])]
           Shape(g, n) == g \in Seq(Names) /\ Range(g) = NamedUpTo(s, n)
<1>1. Len(NameOrder) \in Nat /\ DOMAIN NameOrder = 1..Len(NameOrder)
  BY NamesAssumption
<1>2. PICK f : /\ Joined(seqs) = f[Len(NameOrder)] /\ f[0] = <<>>
               /\ \A i \in 1..Len(NameOrder) : f[i] = f[i - 1] \o seqs[i]
  <2> HIDE DEF seqs
  <2> QED BY Unfolding
<1>3. ASSUME NEW m \in 1..Len(NameOrder)
      PROVE  /\ seqs[m] \in Seq(Names)
             /\ NamedUpTo(s, m) = NamedUpTo(s, m - 1) \cup Range(seqs[m])
  <2>1. CASE NameOrder[m] \in s.named
    <3>1. seqs[m] = <<NameOrder[m]>> /\ NameOrder[m] \in Names
      BY <1>1, <2>1 DEF When, Names
    <3>2. Range(<<NameOrder[m]>>) = {NameOrder[m]}
      BY DEF Range
    <3>3. {j \in 1..m : NameOrder[j] \in s.named}
            = {j \in 1..(m - 1) : NameOrder[j] \in s.named} \cup {m}
      BY <1>1, <2>1
    <3> HIDE DEF seqs
    <3>4. NamedUpTo(s, m) = NamedUpTo(s, m - 1) \cup {NameOrder[m]}
      BY <3>3 DEF NamedUpTo
    <3> QED BY <3>1, <3>2, <3>4
  <2>2. CASE NameOrder[m] \notin s.named
    <3>1. seqs[m] = <<>>
      BY <1>1, <2>2 DEF When
    <3>2. Range(<<>>) = {}
      BY DEF Range
    <3>3. {j \in 1..m : NameOrder[j] \in s.named} = {j \in 1..(m - 1) : NameOrder[j] \in s.named}
      BY <1>1, <2>2
    <3> HIDE DEF seqs
    <3>4. NamedUpTo(s, m) = NamedUpTo(s, m - 1)
      BY <3>3 DEF NamedUpTo
    <3> QED BY <3>1, <3>2, <3>4
  <2> QED BY <2>1, <2>2
<1> HIDE DEF seqs
<1> DEFINE T == {m \in 0..Len(NameOrder) : ~Shape(f[m], m)}
<1>4. ASSUME T # {}
      PROVE  FALSE
  <2>1. PICK m \in T : \A y \in T : m <= y
    <3>1. T \subseteq Nat
      BY <1>1
    <3> HIDE DEF T
    <3> QED BY <1>4, <3>1, Least
  <2>2. m \in 0..Len(NameOrder) /\ ~Shape(f[m], m)
    BY <2>1
  <2>3. CASE m = 0
    <3>1. NamedUpTo(s, 0) = {} /\ Range(<<>>) = {} /\ <<>> \in Seq(Names)
      BY DEF NamedUpTo, Range
    <3> QED BY <1>2, <2>2, <2>3, <3>1
  <2>4. CASE m # 0
    <3>1. m \in 1..Len(NameOrder) /\ m - 1 \in 0..Len(NameOrder) /\ m - 1 < m
      BY <1>1, <2>2, <2>4
    <3>2. m - 1 \notin T
      BY <1>1, <2>1, <3>1
    <3>3. Shape(f[m - 1], m - 1)
      BY <3>1, <3>2
    <3>4. f[m] = f[m - 1] \o seqs[m]
      BY <1>2, <3>1
    <3>5. Range(f[m]) = Range(f[m - 1]) \cup Range(seqs[m]) /\ f[m] \in Seq(Names)
      BY <1>3, <3>1, <3>3, <3>4, RangeConcatenation, ConcatProperties
    <3> QED BY <1>3, <2>2, <3>1, <3>3, <3>5
  <2> QED BY <2>3, <2>4
<1>5. Shape(f[Len(NameOrder)], Len(NameOrder))
  BY <1>1, <1>4
<1>6. s.named \subseteq NamedUpTo(s, Len(NameOrder))
  BY <1>1, SpecsAssumption DEF NamedUpTo, Names
<1>7. q = f[Len(NameOrder)]
  BY <1>2 DEF seqs
<1> QED BY <1>5, <1>6, <1>7

LEMMA RangeJoin ==
    ASSUME NEW S, NEW a \in Seq(S), NEW b \in Seq(S)
    PROVE  a \o b \in Seq(S) /\ Range(a \o b) = Range(a) \cup Range(b)
BY RangeConcatenation, ConcatProperties

\* Every container of the plan has a status.
LEMMA StatusNames ==
    ASSUME spec \in Specs
    PROVE  /\ Len(ContainerNames) \in Nat /\ DOMAIN ContainerNames = 1..Len(ContainerNames)
           /\ \A c \in Containers(spec) : \E i \in DOMAIN ContainerNames : ContainerNames[i] = c
<1> DEFINE q == Joined([i \in DOMAIN NameOrder |-> When(NameOrder[i] \in spec.named, NameOrder[i])])
           u == When(spec.userScript, "user")
           e == When(spec.egress, "init-egress")
           h == <<"init-hermes">>
           x == When(spec.searxng, "init-searxng-config")
           c == When(spec.initContainers, "initContainers")
           All == Names \cup {"init-hermes", "user", "init-egress", "init-searxng-config",
                              "initContainers"}
<1>1. q \in Seq(Names) /\ spec.named \subseteq Range(q)
  BY NamesJoined
<1>2. ContainerNames = ((((h \o q) \o u) \o e) \o x) \o c
  BY DEF ContainerNames
<1> HIDE DEF q
<1>3. h \in Seq(All) /\ q \in Seq(All) /\ u \in Seq(All) /\ e \in Seq(All)
      /\ x \in Seq(All) /\ c \in Seq(All)
  <2>1. Names \subseteq All
    OBVIOUS
  <2>2. q \in Seq(All)
    BY <1>1, <2>1, SeqMonotonic
  <2>3. "init-hermes" \in All /\ "user" \in All /\ "init-egress" \in All
        /\ "init-searxng-config" \in All /\ "initContainers" \in All
    OBVIOUS
  <2> HIDE DEF All
  <2>4. \A y \in All : <<y>> \in Seq(All) /\ <<>> \in Seq(All)
    OBVIOUS
  <2> QED BY <2>2, <2>3, <2>4 DEF When
<1>4. /\ Range(h) = {"init-hermes"}
      /\ spec.userScript => "user" \in Range(u)
      /\ spec.egress => "init-egress" \in Range(e)
      /\ spec.searxng => "init-searxng-config" \in Range(x)
      /\ spec.initContainers => "initContainers" \in Range(c)
  BY DEF Range, When
<1> HIDE DEF h, u, e, x, c, All
<1> DEFINE hq == h \o q
           hqu == hq \o u
           hque == hqu \o e
           hquex == hque \o x
<1>5. hq \in Seq(All) /\ Range(hq) = Range(h) \cup Range(q)
  BY <1>3, RangeJoin
<1>6. ContainerNames = hquex \o c
  BY <1>2
<1> HIDE DEF hq
<1>7. hqu \in Seq(All) /\ Range(hqu) = Range(hq) \cup Range(u)
  BY <1>3, <1>5, RangeJoin
<1> HIDE DEF hqu
<1>11. hque \in Seq(All) /\ Range(hque) = Range(hqu) \cup Range(e)
  BY <1>3, <1>7, RangeJoin
<1> HIDE DEF hque
<1>12. hquex \in Seq(All) /\ Range(hquex) = Range(hque) \cup Range(x)
  BY <1>3, <1>11, RangeJoin
<1> HIDE DEF hquex
<1>8. ContainerNames \in Seq(All) /\ Range(ContainerNames) = Range(hquex) \cup Range(c)
  BY <1>3, <1>6, <1>12, RangeJoin
<1>9. Containers(spec) \subseteq Range(ContainerNames)
  BY <1>1, <1>4, <1>5, <1>7, <1>8, <1>11, <1>12 DEF Containers, If
<1>10. Len(ContainerNames) \in Nat /\ DOMAIN ContainerNames = 1..Len(ContainerNames)
  BY <1>8, LenProperties
<1> QED BY <1>9, <1>10 DEF Range
=============================================================================
