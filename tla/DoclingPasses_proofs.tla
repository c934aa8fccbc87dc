------------------------- MODULE DoclingPasses_proofs -------------------------
(***************************************************************************)
(* Theorems about DoclingPasses for whatever Docling answers, in papers of *)
(* any length, and whatever is chosen in each pass.                        *)
(***************************************************************************)
EXTENDS DoclingPasses, WellFoundedInduction, FiniteSetTheorems, SequenceTheorems, TLAPS

Roles == Semantic \cup {"noise", "equation", "algorithm", "header", "figure", "table"}
Assignment == [role : Roles, section : Nat, para : Nat, from : Nat, hidden : BOOLEAN, swallowed : BOOLEAN,
               owners : SUBSET Nat, candidate : BOOLEAN, attached : BOOLEAN]
Visual == [item : Nat, part : Nat, kind : {"equation", "algorithm", "figure", "table"}, page : Nat, anchor : Nat,
           captions : SUBSET Nat]

-----------------------------------------------------------------------------
(* Numbers.                                                                 *)

\* The least-number principle for sets of naturals, and induction from it.
LEMMA LeastNatural ==
  ASSUME NEW T, T \subseteq Nat, T # {}
  PROVE  \E x \in T : \A y \in T : x <= y
<1> DEFINE R == OpToRel(<, Nat)
<1>1. IsWellFoundedOn(R, Nat)
  BY NatLessThanWellFounded
<1>2. \A y, x \in Nat : y < x => <<y, x>> \in R
  BY DEF OpToRel
<1> HIDE DEF R
<1>3. PICK x \in T : \A y \in T : ~ (<<y, x>> \in R)
  BY <1>1, WFMin
<1>4. ASSUME NEW y \in T PROVE x <= y
  <2>1. y \in Nat /\ x \in Nat /\ ~ (y < x)
    BY <1>2, <1>3
  <2> QED
    BY <2>1
<1> QED
  BY <1>4

LEMMA UpTo ==
  ASSUME NEW n \in Nat, NEW T, 0 \in T, \A k \in 1 .. n : k - 1 \in T => k \in T
  PROVE  0 .. n \subseteq T
<1> SUFFICES ASSUME (0 .. n) \ T # {} PROVE FALSE
  OBVIOUS
<1>1. PICK x \in (0 .. n) \ T : \A y \in (0 .. n) \ T : x <= y
  <2>1. (0 .. n) \ T \subseteq Nat
    OBVIOUS
  <2> QED
    BY <2>1, LeastNatural
<1>2. x \in 1 .. n /\ x - 1 \in 0 .. n /\ ~ (x <= x - 1)
  BY <1>1
<1> QED
  BY <1>1, <1>2

\* A loop of n steps over values of V, and where it has been after each of them.
Runs(h, n, V, base, step) == h \in [0 .. n -> V] /\ h[0] = base /\ \A k \in 1 .. n : h[k] = step[<<k, h[k - 1]>>]
LEMMA Loop ==
  ASSUME NEW n \in Nat, NEW V, NEW base \in V, NEW step \in [(1 .. n) \X V -> V]
  PROVE  \E h : Runs(h, n, V, base, step)
<1> DEFINE Ran(m) == \E h \in [0 .. m -> V] : h[0] = base /\ \A k \in 1 .. m : h[k] = step[<<k, h[k - 1]>>]
           T == {m \in 0 .. n : Ran(m)}
<1>1. Ran(0)
  <2> DEFINE h == [k \in 0 .. 0 |-> base]
  <2>1. h \in [0 .. 0 -> V] /\ h[0] = base /\ \A k \in 1 .. 0 : h[k] = step[<<k, h[k - 1]>>]
    OBVIOUS
  <2> HIDE DEF h
  <2> QED
    BY <2>1
<1>2. ASSUME NEW m \in 1 .. n, Ran(m - 1) PROVE Ran(m)
  <2>1. PICK h \in [0 .. m - 1 -> V] : h[0] = base /\ \A k \in 1 .. m - 1 : h[k] = step[<<k, h[k - 1]>>]
    BY <1>2
  <2> DEFINE g == [k \in 0 .. m |-> IF k = m THEN step[<<m, h[m - 1]>>] ELSE h[k]]
  <2>2. m - 1 \in 0 .. m - 1 /\ h[m - 1] \in V /\ step[<<m, h[m - 1]>>] \in V
    BY <2>1
  <2>3. \A k \in 0 .. m : k # m => k \in 0 .. m - 1
    OBVIOUS
  <2>4. g \in [0 .. m -> V]
    BY <2>2, <2>3
  <2>5. g[0] = base
    BY <2>1
  <2>6. ASSUME NEW k \in 1 .. m PROVE g[k] = step[<<k, g[k - 1]>>]
    <3>1. k - 1 \in 0 .. m /\ k \in 0 .. m /\ k - 1 # m
      OBVIOUS
    <3>2. g[k - 1] = h[k - 1]
      BY <3>1
    <3>3. CASE k = m
      BY <3>1, <3>2, <3>3
    <3>4. CASE k # m
      <4>1. k \in 1 .. m - 1
        BY <3>4
      <4> QED
        BY <2>1, <3>1, <3>2, <3>4, <4>1
    <3> QED
      BY <3>3, <3>4
  <2> HIDE DEF g
  <2> QED
    BY <2>4, <2>5, <2>6
<1>3. n \in T
  <2>1. 0 \in T
    BY <1>1
  <2>2. \A k \in 1 .. n : k - 1 \in T => k \in T
    <3> HIDE DEF Ran
    <3> QED
      BY <1>2
  <2> HIDE DEF T
  <2> QED
    BY <2>1, <2>2, UpTo
<1> QED
  BY <1>3 DEF Runs

LEMMA RoleNames ==
  /\ {"noise", "heading", "caption", "author", "reference", "paragraph", "equation", "verbatim", "title",
      "list_item"} \subseteq Roles
  /\ Body \subseteq Roles
BY DEF Roles, Semantic, Body, Translatable, FrontRoles

\* What the passes write keeps the form of an assignment.
LEMMA NoiseType ==
  ASSUME NEW r \in Assignment
  PROVE  /\ Noise(r) \in Assignment /\ InVisual(r) \in Assignment
         /\ Noise(r).role = "noise" /\ Noise(r).para = 0 /\ Noise(r).from = 0 /\ Noise(r).hidden
         /\ Noise(r).section = r.section
         /\ InVisual(r).role = "noise" /\ InVisual(r).para = 0 /\ InVisual(r).from = 0 /\ InVisual(r).section = 0
BY RoleNames DEF Noise, InVisual, Assignment
-----------------------------------------------------------------------------
(* The reading order.                                                       *)

Enumerates(o, bs) ==
  /\ o \in Seq(bs)
  /\ \A b \in bs : \E i \in 1 .. Len(o) : o[i] = b
  /\ \A i, j \in 1 .. Len(o) : o[i] = o[j] => i = j
InOrder(s) == Blocks(s) \subseteq Nat \ {0} /\ Enumerates(s.order, Blocks(s))
Pos(o, b) == CHOOSE i \in DOMAIN o : o[i] = b

LEMMA Position ==
  ASSUME NEW bs, NEW o, Enumerates(o, bs)
  PROVE  /\ Len(o) \in Nat
         /\ \A b \in bs : Pos(o, b) \in 1 .. Len(o) /\ o[Pos(o, b)] = b
         /\ \A i \in 1 .. Len(o) : o[i] \in bs /\ Pos(o, o[i]) = i
         /\ \A b, c \in bs : Pos(o, b) = Pos(o, c) => b = c
<1>1. DOMAIN o = 1 .. Len(o) /\ Len(o) \in Nat /\ \A i \in 1 .. Len(o) : o[i] \in bs
  BY DEF Enumerates
<1>2. ASSUME NEW b \in bs PROVE Pos(o, b) \in 1 .. Len(o) /\ o[Pos(o, b)] = b
  <2>1. \E i \in DOMAIN o : o[i] = b
    BY <1>1 DEF Enumerates
  <2> QED
    BY <1>1, <2>1 DEF Pos
<1>3. ASSUME NEW i \in 1 .. Len(o) PROVE Pos(o, o[i]) = i
  <2>1. o[i] \in bs
    BY <1>1
  <2>2. Pos(o, o[i]) \in 1 .. Len(o) /\ o[Pos(o, o[i])] = o[i]
    BY <1>2, <2>1
  <2> QED
    BY <2>2 DEF Enumerates
<1> QED
  BY <1>1, <1>2, <1>3

LEMMA PlaceIsPos == \A s, b : Place(s, b) = Pos(s.order, b)
BY DEF Place, Pos

LEMMA BeforeAndAfter ==
  ASSUME NEW s, InOrder(s), NEW b \in Blocks(s)
  PROVE  /\ Before(s, b) = {c \in Blocks(s) : Pos(s.order, c) < Pos(s.order, b)}
         /\ After(s, b) = {c \in Blocks(s) : Pos(s.order, b) < Pos(s.order, c)}
<1> DEFINE o == s.order
           p == Pos(o, b)
<1>1. /\ Len(o) \in Nat /\ p \in 1 .. Len(o)
      /\ \A c \in Blocks(s) : Pos(o, c) \in 1 .. Len(o) /\ o[Pos(o, c)] = c
      /\ \A i \in 1 .. Len(o) : o[i] \in Blocks(s) /\ Pos(o, o[i]) = i
  BY Position DEF InOrder
<1>2. Before(s, b) = {o[i] : i \in 1 .. p - 1} /\ After(s, b) = {o[i] : i \in p + 1 .. Len(o)}
  BY PlaceIsPos DEF Before, After
<1> HIDE DEF o, p
<1>3. \A c \in Blocks(s) : c \in {o[i] : i \in 1 .. p - 1} <=> Pos(o, c) < p
  <2> SUFFICES ASSUME NEW c \in Blocks(s) PROVE c \in {o[i] : i \in 1 .. p - 1} <=> Pos(o, c) < p
    OBVIOUS
  <2>1. ASSUME NEW i \in 1 .. p - 1, c = o[i] PROVE Pos(o, c) < p
    BY <1>1, <2>1
  <2>2. ASSUME Pos(o, c) < p PROVE Pos(o, c) \in 1 .. p - 1 /\ c = o[Pos(o, c)]
    BY <1>1, <2>2
  <2> QED
    BY <2>1, <2>2
<1>4. \A c \in Blocks(s) : c \in {o[i] : i \in p + 1 .. Len(o)} <=> p < Pos(o, c)
  <2> SUFFICES ASSUME NEW c \in Blocks(s) PROVE c \in {o[i] : i \in p + 1 .. Len(o)} <=> p < Pos(o, c)
    OBVIOUS
  <2>1. ASSUME NEW i \in p + 1 .. Len(o), c = o[i] PROVE p < Pos(o, c)
    BY <1>1, <2>1
  <2>2. ASSUME p < Pos(o, c) PROVE Pos(o, c) \in p + 1 .. Len(o) /\ c = o[Pos(o, c)]
    BY <1>1, <2>2
  <2> QED
    BY <2>1, <2>2
<1>5. {o[i] : i \in 1 .. p - 1} \subseteq Blocks(s) /\ {o[i] : i \in p + 1 .. Len(o)} \subseteq Blocks(s)
  BY <1>1
<1>6. Before(s, b) = {c \in Blocks(s) : Pos(o, c) < p}
  BY <1>2, <1>3, <1>5
<1>7. After(s, b) = {c \in Blocks(s) : p < Pos(o, c)}
  BY <1>2, <1>4, <1>5
<1> QED
  BY <1>6, <1>7 DEF o, p

\* The latest and the earliest of some blocks.
LEMMA Ends ==
  ASSUME NEW s, InOrder(s), NEW bs \in SUBSET Blocks(s), bs # {}
  PROVE  /\ Latest(s, bs) \in bs /\ \A b \in bs : Pos(s.order, b) <= Pos(s.order, Latest(s, bs))
         /\ Earliest(s, bs) \in bs /\ \A b \in bs : Pos(s.order, Earliest(s, bs)) <= Pos(s.order, b)
<1> DEFINE P(b) == Pos(s.order, b)
<1>1. /\ \A b \in Blocks(s) : P(b) \in Nat /\ P(b) <= Len(s.order)
      /\ \A b, c \in Blocks(s) : P(b) = P(c) => b = c
      /\ Len(s.order) \in Nat
  BY Position DEF InOrder
<1>2. /\ \A b \in Blocks(s) : Before(s, b) = {c \in Blocks(s) : P(c) < P(b)}
      /\ \A b \in Blocks(s) : After(s, b) = {c \in Blocks(s) : P(b) < P(c)}
  BY BeforeAndAfter
<1> HIDE DEF P
<1>3. \E b \in bs : \A c \in bs : P(b) <= P(c)
  <2>1. PICK n \in {P(b) : b \in bs} : \A m \in {P(b) : b \in bs} : n <= m
    <3>1. {P(b) : b \in bs} \subseteq Nat /\ {P(b) : b \in bs} # {}
      BY <1>1
    <3> QED
      BY <3>1, LeastNatural
  <2> QED
    BY <2>1
<1>4. \E b \in bs : \A c \in bs : P(c) <= P(b)
  <2> DEFINE D(b) == Len(s.order) - P(b)
  <2>1. \A b \in bs : D(b) \in Nat
    BY <1>1
  <2>2. \A b, c \in bs : D(b) <= D(c) => P(c) <= P(b)
    BY <1>1
  <2> HIDE DEF D
  <2>3. PICK n \in {D(b) : b \in bs} : \A m \in {D(b) : b \in bs} : n <= m
    <3>1. {D(b) : b \in bs} \subseteq Nat /\ {D(b) : b \in bs} # {}
      BY <2>1
    <3> QED
      BY <3>1, LeastNatural
  <2> QED
    BY <2>2, <2>3
<1>5. \E b \in bs : bs \ {b} \subseteq Before(s, b)
  BY <1>1, <1>2, <1>4
<1>6. \E b \in bs : bs \ {b} \subseteq After(s, b)
  BY <1>1, <1>2, <1>3
<1>7. Latest(s, bs) \in bs /\ bs \ {Latest(s, bs)} \subseteq Before(s, Latest(s, bs))
  BY <1>5 DEF Latest
<1>8. Earliest(s, bs) \in bs /\ bs \ {Earliest(s, bs)} \subseteq After(s, Earliest(s, bs))
  BY <1>6 DEF Earliest
<1>9. \A b \in bs : P(b) <= P(Latest(s, bs)) /\ P(Earliest(s, bs)) <= P(b)
  BY <1>1, <1>2, <1>7, <1>8
<1> QED
  BY <1>7, <1>8, <1>9 DEF P
LEMMA EndsOrNone ==
  ASSUME NEW s, InOrder(s), NEW bs \in SUBSET Blocks(s)
  PROVE  /\ Latest(s, bs) \in bs \cup {0} /\ Earliest(s, bs) \in bs \cup {0}
         /\ bs # {} <=> Latest(s, bs) # 0
         /\ bs # {} <=> Earliest(s, bs) # 0
<1>1. 0 \notin Blocks(s)
  BY DEF InOrder
<1>2. CASE bs = {}
  BY <1>2 DEF Latest, Earliest
<1>3. CASE bs # {}
  BY <1>1, <1>3, Ends
<1> QED
  BY <1>2, <1>3

-----------------------------------------------------------------------------
(* What holds of a structure between the passes.                            *)

Structured(s) ==
  s = [order |-> s.order, page |-> s.page, sections |-> s.sections, references |-> s.references, at |-> s.at,
       visuals |-> s.visuals]
Anchored(s) == s.visuals \subseteq Visual /\ \A v \in s.visuals : v.anchor \in Blocks(s) \cup {0}
Resolved(s) ==
  /\ DOMAIN s.sections \subseteq Blocks(s)
  /\ \A b \in Blocks(s) : s.at[b].section \in DOMAIN s.sections \cup {0}
  /\ \A x \in DOMAIN s.sections : s.sections[x] \in DOMAIN s.sections \cup {0}
Formed(s) == Structured(s) /\ InOrder(s) /\ s.at \in [Blocks(s) -> Assignment] /\ Anchored(s) /\ Resolved(s)

\* A section comes after its parent, and before what is in it.
Nested(s) ==
  /\ \A x \in DOMAIN s.sections : s.sections[x] # 0 => Pos(s.order, s.sections[x]) < Pos(s.order, x)
  /\ \A b \in Blocks(s) : s.at[b].section # 0 => Pos(s.order, s.at[b].section) <= Pos(s.order, b)
\* What a section is named by is not text of the body.
Titled(s) == \A x \in DOMAIN s.sections : s.at[x].role \notin {"paragraph", "equation"}
\* A paragraph is named by its first block, or one that was its first.
GroupedAs(o, at) ==
  \A b \in DOMAIN at : at[b].para # 0 => at[b].para \in DOMAIN at /\ Pos(o, at[b].para) <= Pos(o, b)
Grouped(s) == GroupedAs(s.order, s.at)
\* A block that continues none is alone or the first of its paragraph.
FreshAs(at) == \A b \in DOMAIN at : at[b].from = 0 => at[b].para \in {0, b}
Fresh(s) == FreshAs(s.at)
\* No picture has been cut.
Uncut(s) == \A v \in s.visuals : v.part = 0
Early(s) == Formed(s) /\ Nested(s) /\ Titled(s) /\ Grouped(s) /\ Uncut(s)

\* t is s with the same blocks in the same order.
Alongside(s, t) == Structured(t) /\ t.order = s.order /\ t.page = s.page /\ Blocks(t) = Blocks(s)

\* A pass that takes no section away and moves blocks at most out of their section.
LEMMA SectionsStay ==
  ASSUME NEW s, NEW t, Formed(s), Alongside(s, t), t.sections = s.sections,
         t.at \in [Blocks(s) -> Assignment], Anchored(t),
         \A b \in Blocks(s) : t.at[b].section \in {s.at[b].section, 0}
  PROVE  Formed(t) /\ (Nested(s) => Nested(t))
<1>1. InOrder(t)
  BY DEF Formed, InOrder, Alongside
<1>2. Resolved(t)
  BY DEF Formed, Resolved, Alongside
<1>3. Nested(s) => Nested(t)
  BY DEF Nested, Alongside
<1> QED
  BY <1>1, <1>2, <1>3 DEF Formed, Alongside

\* Structures field by field.
Rec(o, p, x, r, a, v) == [order |-> o, page |-> p, sections |-> x, references |-> r, at |-> a, visuals |-> v]
LEMMA RecFields ==
  \A o, p, x, r, a, v :
    LET t == Rec(o, p, x, r, a, v) IN
    /\ Structured(t) /\ Blocks(t) = DOMAIN a
    /\ t.order = o /\ t.page = p /\ t.sections = x /\ t.references = r /\ t.at = a /\ t.visuals = v
BY DEF Rec, Structured, Blocks
LEMMA RecExcept ==
  \A o, p, x, r, a, v, e :
    LET t == Rec(o, p, x, r, a, v) IN
    /\ [t EXCEPT !.order = e] = Rec(e, p, x, r, a, v)
    /\ [t EXCEPT !.page = e] = Rec(o, e, x, r, a, v)
    /\ [t EXCEPT !.sections = e] = Rec(o, p, e, r, a, v)
    /\ [t EXCEPT !.references = e] = Rec(o, p, x, e, a, v)
    /\ [t EXCEPT !.at = e] = Rec(o, p, x, r, e, v)
    /\ [t EXCEPT !.visuals = e] = Rec(o, p, x, r, a, e)
BY DEF Rec
LEMMA IsRec == \A s : Structured(s) => s = Rec(s.order, s.page, s.sections, s.references, s.at, s.visuals)
BY DEF Rec, Structured

LEMMA AtExcept ==
  ASSUME NEW s, Structured(s), NEW a
  PROVE  [s EXCEPT !.at = a] = Rec(s.order, s.page, s.sections, s.references, a, s.visuals)
BY IsRec, RecExcept
AtVisuals(s, a, vs) == [s EXCEPT !.at = a, !.visuals = vs]
LEMMA AtVisualsExcept ==
  ASSUME NEW s, Structured(s), NEW a, NEW vs
  PROVE  AtVisuals(s, a, vs) = Rec(s.order, s.page, s.sections, s.references, a, vs)
<1>1. s = Rec(s.order, s.page, s.sections, s.references, s.at, s.visuals)
  BY IsRec
<1>2. [s EXCEPT !.at = a] = Rec(s.order, s.page, s.sections, s.references, a, s.visuals)
  BY AtExcept
<1>3. [Rec(s.order, s.page, s.sections, s.references, a, s.visuals) EXCEPT !.visuals = vs]
        = Rec(s.order, s.page, s.sections, s.references, a, vs)
  BY RecExcept
<1> QED
  BY <1>2, <1>3 DEF AtVisuals
LEMMA SectionsExcept ==
  ASSUME NEW s, Structured(s), NEW x, NEW r, NEW a
  PROVE  [s EXCEPT !.sections = x, !.references = r, !.at = a] = Rec(s.order, s.page, x, r, a, s.visuals)
<1>1. s = Rec(s.order, s.page, s.sections, s.references, s.at, s.visuals)
  BY IsRec
<1>2. [s EXCEPT !.sections = x] = Rec(s.order, s.page, x, s.references, s.at, s.visuals)
  BY <1>1, RecExcept
<1>3. [Rec(s.order, s.page, x, s.references, s.at, s.visuals) EXCEPT !.references = r]
        = Rec(s.order, s.page, x, r, s.at, s.visuals)
  BY RecExcept
<1>4. [Rec(s.order, s.page, x, r, s.at, s.visuals) EXCEPT !.at = a] = Rec(s.order, s.page, x, r, a, s.visuals)
  BY RecExcept
<1> QED
  BY <1>2, <1>3, <1>4

-----------------------------------------------------------------------------
(* Paragraphs that are joined and parted.                                   *)

\* What may be assigned instead of s.at, when only paragraphs change.
Regrouped(s) ==
  {at \in [Blocks(s) -> Assignment] :
     /\ \A b \in Blocks(s) : at[b].section = s.at[b].section /\ at[b].role = s.at[b].role
     /\ GroupedAs(s.order, at)
     /\ FreshAs(s.at) => FreshAs(at)}

LEMMA RegroupedNow == ASSUME NEW s, Formed(s), Grouped(s) PROVE s.at \in Regrouped(s)
BY DEF Regrouped, Formed, Grouped

LEMMA JoinOne ==
  ASSUME NEW s, InOrder(s), NEW at \in Regrouped(s), NEW b \in Blocks(s), NEW p \in Alike(s, at, b)
  PROVE  [at EXCEPT ![b] = [@ EXCEPT !.para = at[p].para, !.from = p]] \in Regrouped(s)
<1> DEFINE r == [at[b] EXCEPT !.para = at[p].para, !.from = p]
           new == [at EXCEPT ![b] = r]
<1>1. p \in Blocks(s) /\ p \in Nat \ {0} /\ at[p].para # 0 /\ Pos(s.order, p) < Pos(s.order, b)
  BY BeforeAndAfter DEF Alike, InOrder
<1>2. at \in [Blocks(s) -> Assignment] /\ GroupedAs(s.order, at) /\ DOMAIN at = Blocks(s)
  BY DEF Regrouped
<1>3. /\ at[p].para \in Blocks(s) /\ Pos(s.order, at[p].para) <= Pos(s.order, p) /\ at[p].para \in Nat
      /\ \A c \in Blocks(s) : Pos(s.order, c) \in Nat
  BY SMTT(40), <1>1, <1>2, Position DEF GroupedAs, Assignment, InOrder
<1>4. /\ r \in Assignment /\ r.para = at[p].para /\ r.from = p /\ r.section = at[b].section /\ r.role = at[b].role
  BY ZenonT(40), <1>1, <1>2, <1>3 DEF Assignment
<1> HIDE DEF r
<1>5. /\ new \in [Blocks(s) -> Assignment] /\ DOMAIN new = Blocks(s) /\ new[b] = r
      /\ \A c \in Blocks(s) \ {b} : new[c] = at[c]
  BY <1>2, <1>4
<1> HIDE DEF new
<1>6. GroupedAs(s.order, new)
  BY <1>1, <1>2, <1>3, <1>4, <1>5 DEF GroupedAs
<1>7. FreshAs(at) => FreshAs(new)
  BY <1>1, <1>2, <1>4, <1>5 DEF FreshAs
<1>8. \A c \in Blocks(s) : new[c].section = s.at[c].section /\ new[c].role = s.at[c].role
  BY <1>4, <1>5 DEF Regrouped
<1>9. new \in Regrouped(s)
  BY <1>5, <1>6, <1>7, <1>8 DEF Regrouped
<1> QED
  BY <1>9 DEF new, r

LEMMA PartOne ==
  ASSUME NEW s, InOrder(s), NEW at \in Regrouped(s), NEW b \in Blocks(s)
  PROVE  [at EXCEPT ![b] = [@ EXCEPT !.para = b, !.from = 0]] \in Regrouped(s)
<1> DEFINE r == [at[b] EXCEPT !.para = b, !.from = 0]
           new == [at EXCEPT ![b] = r]
<1>1. at \in [Blocks(s) -> Assignment] /\ GroupedAs(s.order, at) /\ DOMAIN at = Blocks(s)
  BY DEF Regrouped
<1>2. b \in Nat \ {0} /\ \A c \in Blocks(s) : Pos(s.order, c) \in Nat
  BY Position DEF InOrder
<1>3. /\ r \in Assignment /\ r.para = b /\ r.from = 0 /\ r.section = at[b].section /\ r.role = at[b].role
  BY <1>1, <1>2 DEF Assignment
<1> HIDE DEF r
<1>4. /\ new \in [Blocks(s) -> Assignment] /\ DOMAIN new = Blocks(s) /\ new[b] = r
      /\ \A c \in Blocks(s) \ {b} : new[c] = at[c]
  BY <1>1, <1>3
<1> HIDE DEF new
<1>5. GroupedAs(s.order, new)
  BY <1>1, <1>2, <1>3, <1>4 DEF GroupedAs
<1>6. FreshAs(at) => FreshAs(new)
  BY <1>1, <1>3, <1>4 DEF FreshAs
<1>7. \A c \in Blocks(s) : new[c].section = s.at[c].section /\ new[c].role = s.at[c].role
  BY <1>3, <1>4 DEF Regrouped
<1>8. new \in Regrouped(s)
  BY <1>4, <1>5, <1>6, <1>7 DEF Regrouped
<1> QED
  BY <1>8 DEF new, r

LEMMA JoinTailsAt ==
  ASSUME NEW s, Formed(s), Grouped(s), NEW tails
  PROVE  \E a \in Regrouped(s) : JoinTails(s, tails) = [s EXCEPT !.at = a]
<1> DEFINE V == Regrouped(s)
           n == Len(s.order)
           Step(at, b) ==
             LET like == Alike(s, at, b)
                 p == Latest(s, like)
             IN IF b \notin tails \/ like = {} THEN at
                ELSE IF s.page[b] - s.page[p] \notin {0, 1} THEN at
                ELSE [at EXCEPT ![b] = [@ EXCEPT !.para = at[p].para, !.from = p]]
           step == [q \in (1 .. n) \X V |-> Step(q[2], s.order[q[1]])]
           Is(f) == f = [k \in 0 .. n |-> IF k = 0 THEN s.at ELSE Step(f[k - 1], s.order[k])]
           done == CHOOSE f : Is(f)
<1>1. n \in Nat /\ s.at \in V /\ \A k \in 1 .. n : s.order[k] \in Blocks(s)
  BY Position, RegroupedNow DEF Formed, InOrder
<1>2. ASSUME NEW at \in V, NEW b \in Blocks(s) PROVE Step(at, b) \in V
  <2>1. Alike(s, at, b) \in SUBSET Blocks(s)
    BY BeforeAndAfter DEF Alike, Formed
  <2>2. Alike(s, at, b) # {} => Latest(s, Alike(s, at, b)) \in Alike(s, at, b)
    BY <2>1, Ends DEF Formed
  <2> QED
    BY <2>2, JoinOne DEF Formed
<1> HIDE DEF V, Step
<1>3. step \in [(1 .. n) \X V -> V] /\ \A k \in 1 .. n, at \in V : step[<<k, at>>] = Step(at, s.order[k])
  BY <1>1, <1>2
<1> HIDE DEF step
<1>4. PICK h : Runs(h, n, V, s.at, step)
  BY <1>1, <1>3, Loop
<1>5. Is(h)
  <2>1. \A k \in 0 .. n : k # 0 => k \in 1 .. n /\ k - 1 \in 0 .. n
    BY <1>1
  <2>2. h \in [0 .. n -> V] /\ h[0] = s.at /\ \A k \in 1 .. n : h[k] = step[<<k, h[k - 1]>>]
    BY <1>4 DEF Runs
  <2>3. \A k \in 1 .. n : h[k - 1] \in V
    BY <1>1, <2>2
  <2>4. \A k \in 1 .. n : h[k] = Step(h[k - 1], s.order[k])
    BY <1>3, <2>2, <2>3
  <2> QED
    BY <2>1, <2>2, <2>4
<1>6. Is(done)
  BY <1>5
<1>7. 0 .. n \subseteq {k \in 0 .. n : done[k] \in V}
  <2>1. done[0] = s.at /\ \A k \in 1 .. n : done[k] = Step(done[k - 1], s.order[k])
    <3> HIDE DEF done
    <3> QED
      BY <1>1, <1>6
  <2>2. \A k \in 1 .. n : done[k - 1] \in V => done[k] \in V
    BY <1>1, <1>2, <2>1
  <2> DEFINE T == {k \in 0 .. n : done[k] \in V}
  <2>3. 0 \in T /\ \A k \in 1 .. n : k - 1 \in T => k \in T
    BY <1>1, <2>1, <2>2
  <2> HIDE DEF T
  <2>4. 0 .. n \subseteq T
    BY <1>1, <2>3, UpTo
  <2> QED
    BY <2>4 DEF T
<1>8. done[n] \in V
  <2> HIDE DEF done
  <2> QED
    BY <1>1, <1>7
<1>9. JoinTails(s, tails) = [s EXCEPT !.at = done[n]]
  BY DEF JoinTails, done, Step
<1> QED
  BY <1>8, <1>9 DEF V
LEMMA RejoinedAt ==
  ASSUME NEW s, Formed(s), Grouped(s), NEW hide, NEW lowercase
  PROVE  Rejoined(s, hide, lowercase) \in Regrouped(s)
<1> DEFINE V == Regrouped(s)
           n == Len(s.order)
           Step(at, b) ==
             LET like == Alike(s, at, b) \ hide
                 p == Latest(s, like)
             IN IF at[b].from \notin hide THEN at
                ELSE [at EXCEPT ![b] = IF b \in lowercase /\ like # {} THEN [@ EXCEPT !.para = at[p].para, !.from = p]
                                       ELSE [@ EXCEPT !.para = b, !.from = 0]]
           step == [q \in (1 .. n) \X V |-> Step(q[2], s.order[q[1]])]
           Is(f) == f = [k \in 0 .. n |-> IF k = 0 THEN s.at ELSE Step(f[k - 1], s.order[k])]
           done == CHOOSE f : Is(f)
<1>1. n \in Nat /\ s.at \in V /\ \A k \in 1 .. n : s.order[k] \in Blocks(s)
  BY Position, RegroupedNow DEF Formed, InOrder
<1>2. ASSUME NEW at \in V, NEW b \in Blocks(s) PROVE Step(at, b) \in V
  <2>1. Alike(s, at, b) \ hide \in SUBSET Blocks(s)
    BY BeforeAndAfter DEF Alike, Formed
  <2>2. Alike(s, at, b) \ hide # {} => Latest(s, Alike(s, at, b) \ hide) \in Alike(s, at, b)
    BY <2>1, Ends DEF Formed
  <2>3. CASE at[b].from \in hide /\ b \in lowercase /\ Alike(s, at, b) \ hide # {}
    BY <2>2, <2>3, JoinOne DEF Formed
  <2>4. CASE at[b].from \in hide /\ ~(b \in lowercase /\ Alike(s, at, b) \ hide # {})
    BY <2>4, PartOne DEF Formed
  <2> QED
    BY <2>3, <2>4
<1> HIDE DEF V, Step
<1>3. step \in [(1 .. n) \X V -> V] /\ \A k \in 1 .. n, at \in V : step[<<k, at>>] = Step(at, s.order[k])
  BY <1>1, <1>2
<1> HIDE DEF step
<1>4. PICK h : Runs(h, n, V, s.at, step)
  BY <1>1, <1>3, Loop
<1>5. Is(h)
  <2>1. \A k \in 0 .. n : k # 0 => k \in 1 .. n /\ k - 1 \in 0 .. n
    BY <1>1
  <2>2. h \in [0 .. n -> V] /\ h[0] = s.at /\ \A k \in 1 .. n : h[k] = step[<<k, h[k - 1]>>]
    BY <1>4 DEF Runs
  <2>3. \A k \in 1 .. n : h[k - 1] \in V
    BY <1>1, <2>2
  <2>4. \A k \in 1 .. n : h[k] = Step(h[k - 1], s.order[k])
    BY <1>3, <2>2, <2>3
  <2> QED
    BY <2>1, <2>2, <2>4
<1>6. Is(done)
  BY <1>5
<1>7. 0 .. n \subseteq {k \in 0 .. n : done[k] \in V}
  <2>1. done[0] = s.at /\ \A k \in 1 .. n : done[k] = Step(done[k - 1], s.order[k])
    <3> HIDE DEF done
    <3> QED
      BY <1>1, <1>6
  <2>2. \A k \in 1 .. n : done[k - 1] \in V => done[k] \in V
    BY <1>1, <1>2, <2>1
  <2> DEFINE T == {k \in 0 .. n : done[k] \in V}
  <2>3. 0 \in T /\ \A k \in 1 .. n : k - 1 \in T => k \in T
    BY <1>1, <2>1, <2>2
  <2> HIDE DEF T
  <2>4. 0 .. n \subseteq T
    BY <1>1, <2>3, UpTo
  <2> QED
    BY <2>4 DEF T
<1>8. done[n] \in V
  <2> HIDE DEF done
  <2> QED
    BY <1>1, <1>7
<1>9. Rejoined(s, hide, lowercase) = done[n]
  BY DEF Rejoined, done, Step
<1> QED
  BY <1>8, <1>9 DEF V

\* A block that is put into the order: the others keep theirs.
ShiftedFrom(o, n, i, bs) == \A b \in bs : Pos(n, b) = IF Pos(o, b) <= i THEN Pos(o, b) ELSE Pos(o, b) + 1
LEMMA Insertion ==
  ASSUME NEW bs, NEW o, Enumerates(o, bs), NEW i \in 0 .. Len(o), NEW x, x \notin bs
  PROVE  /\ Enumerates(InsertAt(o, i + 1, x), bs \cup {x})
         /\ ShiftedFrom(o, InsertAt(o, i + 1, x), i, bs)
<1> DEFINE n == InsertAt(o, i + 1, x)
           all == bs \cup {x}
<1>1. o \in Seq(bs) /\ Len(o) \in Nat /\ i \in Nat /\ i <= Len(o)
  BY DEF Enumerates
<1>2. /\ n \in Seq(all) /\ Len(n) = Len(o) + 1
      /\ \A j \in 1 .. Len(n) : n[j] = IF j <= i THEN o[j] ELSE IF j = i + 1 THEN x ELSE o[j - 1]
  <2> DEFINE u == SubSeq(o, 1, i)
             w == SubSeq(o, i + 1, Len(o))
  <2>1. o \in Seq(all)
    BY <1>1
  <2>2. /\ u \in Seq(all) /\ Len(u) = i /\ \A j \in 1 .. i : u[j] = o[j]
        /\ w \in Seq(all) /\ Len(w) = Len(o) - i /\ \A j \in 1 .. Len(o) - i : w[j] = o[j + i]
    BY <1>1, <2>1
  <2>3. n = u \o <<x>> \o w
    <3>1. (i + 1) - 1 = i
      BY <1>1
    <3> QED
      BY <3>1 DEF InsertAt
  <2> HIDE DEF u, w, n
  <2>4. u \o <<x>> \in Seq(all) /\ Len(u \o <<x>>) = i + 1
        /\ \A j \in 1 .. i + 1 : (u \o <<x>>)[j] = IF j <= i THEN u[j] ELSE x
    BY <1>1, <2>2
  <2>5. n \in Seq(all) /\ Len(n) = Len(o) + 1
        /\ \A j \in 1 .. Len(n) : n[j] = IF j <= i + 1 THEN (u \o <<x>>)[j] ELSE w[j - (i + 1)]
    BY <1>1, <2>2, <2>3, <2>4
  <2> QED
    BY SMTT(40), <1>1, <2>2, <2>4, <2>5
<1> HIDE DEF n
<1>3. \A j \in 1 .. Len(o) : o[j] \in bs /\ o[j] # x
  BY <1>1
<1>4. /\ \A b \in bs : Pos(o, b) \in 1 .. Len(o) /\ o[Pos(o, b)] = b
      /\ \A j, k \in 1 .. Len(o) : o[j] = o[k] => j = k
  BY Position DEF Enumerates
<1> DEFINE q(b) == IF Pos(o, b) <= i THEN Pos(o, b) ELSE Pos(o, b) + 1
<1>5. \A b \in bs : q(b) \in 1 .. Len(n) /\ n[q(b)] = b
  BY SMTT(40), <1>1, <1>2, <1>4
<1>6. i + 1 \in 1 .. Len(n) /\ n[i + 1] = x
  BY <1>1, <1>2
<1>7. \A j, k \in 1 .. Len(n) : n[j] = n[k] => j = k
  <2> SUFFICES ASSUME NEW j \in 1 .. Len(n), NEW k \in 1 .. Len(n), n[j] = n[k] PROVE j = k
    OBVIOUS
  <2> DEFINE f(m) == IF m <= i THEN m ELSE m - 1
  <2>3. \A m \in 1 .. Len(n) : m # i + 1 => f(m) \in 1 .. Len(o) /\ n[m] = o[f(m)]
    BY <1>1, <1>2
  <2>4. \A m \in 1 .. Len(n) : m # i + 1 => n[m] # x
    <3> HIDE DEF f
    <3> QED
      BY <1>3, <2>3
  <2>1. CASE j = i + 1 \/ k = i + 1
    BY <1>6, <2>1, <2>4
  <2>2. CASE j # i + 1 /\ k # i + 1
    <3>1. f(j) \in 1 .. Len(o) /\ f(k) \in 1 .. Len(o) /\ n[j] = o[f(j)] /\ n[k] = o[f(k)]
      BY <2>2, <2>3
    <3>2. f(j) = f(k)
      BY <1>4, <3>1
    <3> QED
      BY <1>1, <2>2, <3>2
  <2> QED
    BY <2>1, <2>2
<1>8. Enumerates(n, all)
  <2>1. \A b \in all : \E j \in 1 .. Len(n) : n[j] = b
    BY <1>5, <1>6
  <2> HIDE DEF all
  <2> QED
    BY <1>2, <1>7, <2>1 DEF Enumerates
<1>9. \A b \in bs : Pos(n, b) = q(b)
  <2> SUFFICES ASSUME NEW b \in bs PROVE Pos(n, b) = q(b)
    OBVIOUS
  <2>1. \A j \in 1 .. Len(n) : Pos(n, n[j]) = j
    BY <1>8, Position
  <2> QED
    BY <1>5, <2>1
<1> QED
  BY <1>8, <1>9 DEF n, ShiftedFrom

\* A pass that only makes text noise.
LEMMA Lessened ==
  ASSUME NEW s, NEW t, Early(s), Alongside(s, t), t.sections = s.sections,
         t.at \in [Blocks(s) -> Assignment],
         Anchored(t), Uncut(t),
         \A b \in Blocks(s) : \/ t.at[b] = s.at[b]
                              \/ /\ t.at[b].section \in {s.at[b].section, 0} /\ t.at[b].role = "noise"
                                 /\ t.at[b].para = 0 /\ t.at[b].from = 0
  PROVE  Early(t) /\ (Fresh(s) => Fresh(t))
<1>1. Formed(t) /\ Nested(t)
  BY SectionsStay DEF Early
<1>2. DOMAIN s.at = Blocks(s) /\ DOMAIN t.at = Blocks(s) /\ DOMAIN s.sections \subseteq Blocks(s)
  BY DEF Alongside, Blocks, Early, Formed, Resolved
<1>3. Titled(t)
  BY <1>2 DEF Titled, Early
<1>4. Grouped(t)
  BY <1>2 DEF Grouped, GroupedAs, Early, Alongside
<1>5. Fresh(s) => Fresh(t)
  BY <1>2 DEF Fresh, FreshAs
<1> QED
  BY <1>1, <1>3, <1>4, <1>5 DEF Early

LEMMA AnchorMoves ==
  ASSUME NEW v \in Visual, NEW b \in Nat
  PROVE  [v EXCEPT !.anchor = b] \in Visual /\ [v EXCEPT !.anchor = b].anchor = b /\ [v EXCEPT !.anchor = b].part = v.part
         /\ [v EXCEPT !.anchor = b].kind = v.kind
BY DEF Visual

LEMMA RecoverFrontMatterKeeps ==
  ASSUME NEW s, Early(s), Fresh(s), NEW hide \in FrontMatter(s), NEW lowercase,
         NEW front \in Nat \ {0}, front \notin Blocks(s)
  PROVE  Early(RecoverFrontMatter(s, hide, lowercase, front)) /\ Fresh(RecoverFrontMatter(s, hide, lowercase, front))
<1> DEFINE ha == [b \in Blocks(s) |-> IF b \in hide THEN Noise(s.at[b]) ELSE s.at[b]]
           hidden == [s EXCEPT !.at = ha]
           CaptionFor(v) == Latest(hidden, v.captions \cap Visible(hidden))
           To(v) == IF v.anchor \in hide /\ CaptionFor(v) # 0 THEN [v EXCEPT !.anchor = CaptionFor(v)] ELSE v
           vs == {To(v) : v \in s.visuals}
           titles == VisibleAs(s, {"title"}) \cap OnPage(s, 1)
           title == Latest(s, titles)
           i == Place(s, title)
           a == Rejoined(hidden, hide, lowercase)
           o == InsertAt(s.order, i + 1, front)
           at == With(a, front, Assigned("author"))
           t == Rec(o, With(s.page, front, 1), s.sections, s.references, at, vs)
<1>1. /\ Formed(s) /\ Structured(s) /\ InOrder(s) /\ s.at \in [Blocks(s) -> Assignment] /\ Anchored(s)
      /\ Nested(s) /\ Grouped(s) /\ Titled(s) /\ Uncut(s)
  BY DEF Early, Formed
<1>2. hidden = Rec(s.order, s.page, s.sections, s.references, ha, s.visuals)
  BY <1>1, AtExcept
<1>3. ha \in [Blocks(s) -> Assignment] /\ DOMAIN ha = Blocks(s)
  BY <1>1, NoiseType
<1>4. Alongside(s, hidden) /\ hidden.sections = s.sections /\ hidden.at = ha /\ hidden.visuals = s.visuals
  BY <1>2, <1>3, RecFields DEF Alongside
<1>5. Early(hidden) /\ Fresh(hidden)
  <2>1. Anchored(hidden) /\ Uncut(hidden)
    BY <1>1, <1>4 DEF Anchored, Uncut, Alongside
  <2>2. \A b \in Blocks(s) : b \in hide => ha[b] = Noise(s.at[b]) /\ s.at[b] \in Assignment
    BY <1>1
  <2>3. \A b \in Blocks(s) : b \notin hide => ha[b] = s.at[b]
    OBVIOUS
  <2> HIDE DEF ha, hidden
  <2> QED
    BY <1>3, <1>4, <2>1, <2>2, <2>3, NoiseType, Lessened
<1> HIDE DEF ha, hidden
<1>6. a \in Regrouped(hidden)
  BY <1>5, RejoinedAt DEF Early
<1>7. vs \subseteq Visual /\ \A v \in vs : v.anchor \in Blocks(s) \cup {0} /\ v.part = 0
  <2>1. \A v \in s.visuals : CaptionFor(v) # 0 => CaptionFor(v) \in Blocks(s)
    BY <1>4, <1>5, EndsOrNone DEF Alongside, Early, Formed, Visible
  <2>2. Blocks(s) \subseteq Nat
    BY <1>1 DEF InOrder
  <2> HIDE DEF CaptionFor
  <2>3. ASSUME NEW v \in s.visuals PROVE To(v) \in Visual /\ To(v).anchor \in Blocks(s) \cup {0} /\ To(v).part = 0
    BY <1>1, <2>1, <2>2, AnchorMoves DEF Anchored, Uncut
  <2> HIDE DEF To
  <2> QED
    BY <2>3
<1> HIDE DEF CaptionFor, To, vs
<1>8. i \in 1 .. Len(s.order) /\ i \in 0 .. Len(s.order) /\ Len(s.order) \in Nat
  <2>1. titles # {} /\ titles \subseteq Blocks(s)
    BY DEF FrontMatter, OnPage
  <2>2. title \in Blocks(s)
    BY <1>1, <2>1, Ends
  <2> QED
    BY <1>1, <2>2, Position, PlaceIsPos DEF InOrder
<1> HIDE DEF titles, title, i
<1>9. Structured(t) /\ Blocks(t) = DOMAIN at /\ t.order = o /\ t.sections = s.sections /\ t.at = at /\ t.visuals = vs
  BY RecFields
<1>10. RecoverFrontMatter(s, hide, lowercase, front) = t
  <2>1. RecoverFrontMatter(s, hide, lowercase, front)
          = [hidden EXCEPT !.visuals = vs, !.order = o, !.page = With(@, front, 1), !.at = at]
    BY DEF RecoverFrontMatter, hidden, ha, vs, To, CaptionFor, i, title, titles
  <2> HIDE DEF at, o
  <2>2. [hidden EXCEPT !.visuals = vs] = Rec(s.order, s.page, s.sections, s.references, ha, vs)
    BY <1>2, RecExcept
  <2>3. [Rec(s.order, s.page, s.sections, s.references, ha, vs) EXCEPT !.order = o]
          = Rec(o, s.page, s.sections, s.references, ha, vs)
    BY RecExcept
  <2>4. [Rec(o, s.page, s.sections, s.references, ha, vs) EXCEPT !.page = With(hidden.page, front, 1)]
          = Rec(o, With(s.page, front, 1), s.sections, s.references, ha, vs)
    BY <1>4, RecExcept DEF Alongside
  <2>5. [Rec(o, With(s.page, front, 1), s.sections, s.references, ha, vs) EXCEPT !.at = at] = t
    BY RecExcept
  <2> QED
    BY <2>1, <2>2, <2>3, <2>4, <2>5
<1> DEFINE r == Assigned("author")
           all == Blocks(s) \cup {front}
<1>11. r \in Assignment /\ r.section = 0 /\ r.para = 0 /\ r.from = 0 /\ r.role = "author"
  BY RoleNames DEF Assigned, Assignment
<1>12. /\ a \in [Blocks(s) -> Assignment] /\ DOMAIN a = Blocks(s)
       /\ \A b \in Blocks(s) : a[b].section = ha[b].section /\ a[b].role = ha[b].role
       /\ GroupedAs(s.order, a) /\ FreshAs(a)
  BY <1>4, <1>5, <1>6 DEF Regrouped, Alongside, Fresh
<1> HIDE DEF a, r
<1>13. /\ at \in [all -> Assignment] /\ DOMAIN at = all /\ at[front] = r
       /\ \A b \in Blocks(s) : at[b] = a[b]
  BY <1>11, <1>12 DEF With, r
<1> HIDE DEF at
<1>14. InOrder(t) /\ Blocks(t) = all
  <2>1. Enumerates(o, all)
    BY <1>1, <1>8, Insertion DEF InOrder
  <2> QED
    BY <1>1, <1>9, <1>13, <2>1 DEF InOrder
<1>15. \A b, c \in Blocks(s) : /\ Pos(s.order, b) < Pos(s.order, c) => Pos(o, b) < Pos(o, c)
                               /\ Pos(s.order, b) <= Pos(s.order, c) => Pos(o, b) <= Pos(o, c)
  <2>1. \A b \in Blocks(s) : Pos(s.order, b) \in Nat
    BY <1>1, Position DEF InOrder
  <2>2. ShiftedFrom(s.order, o, i, Blocks(s))
    BY <1>1, <1>8, Insertion DEF InOrder
  <2> QED
    BY <1>8, <2>1, <2>2 DEF ShiftedFrom
<1> HIDE DEF o, t
<1>16. Resolved(hidden) /\ Nested(hidden) /\ Titled(hidden) /\ hidden.order = s.order /\ Blocks(hidden) = Blocks(s)
  BY <1>4, <1>5 DEF Early, Formed, Alongside
<1>17. Resolved(t)
  BY <1>4, <1>9, <1>11, <1>12, <1>13, <1>14, <1>16 DEF Resolved
<1>18. Formed(t)
  BY <1>7, <1>9, <1>13, <1>14, <1>17 DEF Formed, Anchored
<1>19. Nested(t)
  <2>1. \A x \in DOMAIN t.sections : t.sections[x] # 0 => Pos(o, t.sections[x]) < Pos(o, x)
    BY <1>4, <1>9, <1>15, <1>16 DEF Nested, Resolved
  <2>2. \A b \in Blocks(s) : at[b].section # 0 => Pos(o, at[b].section) <= Pos(o, b)
    BY <1>4, <1>12, <1>13, <1>15, <1>16 DEF Nested, Resolved
  <2> QED
    BY <1>9, <1>11, <1>13, <1>14, <2>1, <2>2 DEF Nested
<1>20. Titled(t)
  BY <1>4, <1>9, <1>12, <1>13, <1>16 DEF Titled, Resolved
<1>21. Grouped(t)
  <2>1. \A b \in Blocks(s) : a[b].para # 0 => a[b].para \in Blocks(s) /\ Pos(o, a[b].para) <= Pos(o, b)
    BY <1>12, <1>15 DEF GroupedAs
  <2> QED
    BY <1>9, <1>11, <1>13, <1>14, <2>1 DEF Grouped, GroupedAs
<1>22. Fresh(t)
  <2>1. \A b \in Blocks(s) : a[b].from = 0 => a[b].para \in {0, b}
    BY <1>12 DEF FreshAs
  <2> QED
    BY <1>9, <1>11, <1>13, <2>1 DEF Fresh, FreshAs
<1> QED
  BY <1>7, <1>9, <1>10, <1>18, <1>19, <1>20, <1>21, <1>22 DEF Early, Uncut

-----------------------------------------------------------------------------
(* Sections that are taken away.                                            *)

\* c leads from a section, or none, to one that stays, or none.
Leads(s, gone, c) ==
  \A x \in DOMAIN s.sections \cup {0} :
    /\ c[x] \in (DOMAIN s.sections \ gone) \cup {0}
    /\ c[x] # 0 => x # 0 /\ Pos(s.order, c[x]) <= Pos(s.order, x)
\* Where a fallback is a section, it comes before the one that is gone.
FallsBack(s, gone, fallback) ==
  \A x \in gone : /\ fallback[x] \in DOMAIN s.sections \cup {0}
                  /\ fallback[x] # 0 => Pos(s.order, fallback[x]) < Pos(s.order, x)

\* w is s with the sections of gone away, and all that was in them where c leads.
Climbed(s, gone, c, w) ==
  /\ Leads(s, gone, c)
  /\ w = Rec(s.order, s.page, [k \in DOMAIN s.sections \ gone |-> c[s.sections[k]]], s.references \ gone,
             [b \in Blocks(s) |-> [s.at[b] EXCEPT !.section = c[@]]], s.visuals)
LEMMA Climbing ==
  ASSUME NEW s, Formed(s), Nested(s), NEW gone \in SUBSET DOMAIN s.sections, NEW fallback,
         FallsBack(s, gone, fallback)
  PROVE  \E c : Climbed(s, gone, c, WithoutSections(s, gone, fallback))
<1> DEFINE D == DOMAIN s.sections \cup {0}
           R(x) == IF x = 0 THEN 0 ELSE Pos(s.order, x)
           Up(x) == IF s.sections[x] # 0 THEN s.sections[x] ELSE fallback[x]
           Is(c) == c = [x \in D |-> IF x \notin gone THEN x
                                     ELSE IF s.sections[x] # 0 THEN c[s.sections[x]] ELSE c[fallback[x]]]
           climb == CHOOSE c : Is(c)
           n == Len(s.order)
           Near(m) == {x \in D : R(x) <= m}
           Found(m) == \E f : DOMAIN f = Near(m) /\ \A x \in Near(m) : f[x] = IF x \notin gone THEN x ELSE f[Up(x)]
           T == {m \in 0 .. n : Found(m)}
<1>1. /\ n \in Nat /\ 0 \notin DOMAIN s.sections /\ DOMAIN s.sections \subseteq Blocks(s)
      /\ \A x \in DOMAIN s.sections : Pos(s.order, x) \in 1 .. n
      /\ \A x, y \in DOMAIN s.sections : Pos(s.order, x) = Pos(s.order, y) => x = y
  BY Position DEF Formed, InOrder, Resolved
<1>2. \A x \in D : R(x) \in 0 .. n /\ (R(x) = 0 <=> x = 0)
  BY <1>1
<1>3. \A x, y \in D : R(x) = R(y) => x = y
  BY <1>1
<1>4. \A x \in gone : x \in D /\ x # 0 /\ Up(x) \in D /\ R(Up(x)) < R(x)
  BY <1>1 DEF Formed, Resolved, Nested, FallsBack
<1>5. \A c : DOMAIN c = D /\ (\A x \in D : c[x] = IF x \notin gone THEN x ELSE c[Up(x)]) /\ (\E y : c = [x \in D |-> y[x]]) => Is(c)
  OBVIOUS
<1>6. \A c : Is(c) => DOMAIN c = D /\ \A x \in D : c[x] = IF x \notin gone THEN x ELSE c[Up(x)]
  OBVIOUS
<1> HIDE DEF R, Up, Is
<1>7. Found(0)
  <2>1. Near(0) = {0} /\ 0 \notin gone
    BY <1>1, <1>2, <1>4
  <2> DEFINE f == [x \in {0} |-> 0]
  <2>2. DOMAIN f = Near(0) /\ \A x \in Near(0) : f[x] = IF x \notin gone THEN x ELSE f[Up(x)]
    BY <2>1
  <2> HIDE DEF f, Near
  <2> QED
    BY <2>2
<1>8. ASSUME NEW m \in 1 .. n, Found(m - 1) PROVE Found(m)
  <2>1. PICK f : DOMAIN f = Near(m - 1) /\ \A x \in Near(m - 1) : f[x] = IF x \notin gone THEN x ELSE f[Up(x)]
    BY <1>8
  <2> DEFINE g == [x \in Near(m) |-> IF x \notin gone THEN x ELSE f[Up(x)]]
  <2>2. \A x \in Near(m) : x \in gone => Up(x) \in Near(m - 1) /\ Up(x) \in Near(m)
    BY <1>1, <1>2, <1>4
  <2>3. \A x \in Near(m - 1) : x \in Near(m) /\ g[x] = f[x]
    <3>1. \A x \in Near(m - 1) : x \in Near(m)
      BY <1>1, <1>2
    <3> HIDE DEF Near
    <3> QED
      BY <2>1, <3>1
  <2>4. DOMAIN g = Near(m) /\ \A x \in Near(m) : g[x] = IF x \notin gone THEN x ELSE g[Up(x)]
    <3>1. DOMAIN g = Near(m) /\ \A x \in Near(m) : g[x] = IF x \notin gone THEN x ELSE f[Up(x)]
      OBVIOUS
    <3> HIDE DEF Near, g
    <3> QED
      BY <2>2, <2>3, <3>1
  <2> HIDE DEF Near, g
  <2> QED
    BY <2>4
<1>9. n \in T
  <2>1. 0 \in T /\ \A m \in 1 .. n : m - 1 \in T => m \in T
    <3> HIDE DEF Found
    <3> QED
      BY <1>1, <1>7, <1>8
  <2> HIDE DEF T
  <2>2. 0 .. n \subseteq T
    BY <1>1, <2>1, UpTo
  <2> QED
    BY <1>1, <2>2
<1>10. Is(climb)
  <2>1. PICK f : DOMAIN f = Near(n) /\ \A x \in Near(n) : f[x] = IF x \notin gone THEN x ELSE f[Up(x)]
    BY <1>9
  <2>2. Near(n) = D
    BY <1>1, <1>2
  <2> DEFINE g == [x \in D |-> f[x]]
  <2>3. Is(g)
    <3>1. DOMAIN g = D /\ \A x \in D : g[x] = IF x \notin gone THEN x ELSE g[Up(x)]
      BY <1>4, <2>1, <2>2
    <3>2. \E y : g = [x \in D |-> y[x]]
      OBVIOUS
    <3> QED
      BY <1>5, <3>1, <3>2
  <2> HIDE DEF g
  <2> QED
    BY <2>3
<1>11. DOMAIN climb = D /\ \A x \in D : climb[x] = IF x \notin gone THEN x ELSE climb[Up(x)]
  <2> HIDE DEF climb
  <2> QED
    BY <1>6, <1>10
<1>12. Leads(s, gone, climb)
  <2> HIDE DEF climb
  <2> DEFINE Good(x) == climb[x] \in D \ gone /\ R(climb[x]) <= R(x)
             S == {m \in 0 .. n : \A x \in Near(m) : Good(x)}
  <2>1. ASSUME NEW x \in D, x \notin gone PROVE Good(x)
    BY <1>1, <1>2, <1>11, <2>1
  <2>2. ASSUME NEW x \in gone, Good(Up(x)) PROVE Good(x)
    BY <1>2, <1>4, <1>11, <2>2
  <2>3. \A x \in gone : R(x) > 0
    BY <1>1, <1>2, <1>4
  <2>4. 0 \in S
    BY <1>1, <1>2, <2>1, <2>3
  <2>5. ASSUME NEW m \in 1 .. n, m - 1 \in S PROVE m \in S
    <3> SUFFICES ASSUME NEW x \in Near(m) PROVE Good(x)
      OBVIOUS
    <3>1. x \in gone => Up(x) \in Near(m - 1)
      BY <1>1, <1>2, <1>4
    <3> HIDE DEF Good
    <3> QED
      BY <2>1, <2>2, <2>5, <3>1
  <2>6. 0 .. n \subseteq S
    <3> HIDE DEF S
    <3> QED
      BY <1>1, <2>4, <2>5, UpTo
  <2>7. \A x \in D : Good(x)
    <3>1. n \in S
      BY <1>1, <2>6
    <3> HIDE DEF Good
    <3> QED
      BY <1>2, <3>1
  <2> QED
    BY <1>1, <1>2, <2>7 DEF Leads, R
<1>13. WithoutSections(s, gone, fallback) =
         [s EXCEPT !.sections = [k \in DOMAIN s.sections \ gone |-> climb[s.sections[k]]],
                   !.references = @ \ gone,
                   !.at = [b \in Blocks(s) |-> [s.at[b] EXCEPT !.section = climb[@]]]]
  BY DEF WithoutSections, climb, Is
<1> HIDE DEF climb
<1> DEFINE x == [k \in DOMAIN s.sections \ gone |-> climb[s.sections[k]]]
           a == [b \in Blocks(s) |-> [s.at[b] EXCEPT !.section = climb[@]]]
<1>14. [s EXCEPT !.sections = x, !.references = s.references \ gone, !.at = a]
         = Rec(s.order, s.page, x, s.references \ gone, a, s.visuals)
  <2> HIDE DEF x, a
  <2> QED
    BY SectionsExcept DEF Formed
<1>15. Climbed(s, gone, climb, WithoutSections(s, gone, fallback))
  BY <1>12, <1>13, <1>14 DEF Climbed
<1> QED
  BY <1>15

\* A pass that takes the sections of gone away: t is s without them, and what t makes of the blocks
\* moves them at most out of the section that climbing found.
LEMMA SectionsGone ==
  ASSUME NEW s, Formed(s), Nested(s), NEW gone \in SUBSET DOMAIN s.sections, NEW fallback,
         FallsBack(s, gone, fallback),
         NEW t, Alongside(s, t), t.sections = WithoutSections(s, gone, fallback).sections,
         t.at \in [Blocks(s) -> Assignment], Anchored(t),
         \A b \in Blocks(s) : t.at[b].section \in {WithoutSections(s, gone, fallback).at[b].section, 0}
  PROVE  Formed(t) /\ Nested(t) /\ DOMAIN t.sections = DOMAIN s.sections \ gone
<1> DEFINE w == WithoutSections(s, gone, fallback)
           D == DOMAIN s.sections \ gone
<1>1. PICK c : Climbed(s, gone, c, w)
  BY Climbing
<1>2. w.sections = [k \in D |-> c[s.sections[k]]] /\ w.at = [b \in Blocks(s) |-> [s.at[b] EXCEPT !.section = c[@]]]
  <2> DEFINE x == [k \in D |-> c[s.sections[k]]]
             a == [b \in Blocks(s) |-> [s.at[b] EXCEPT !.section = c[@]]]
  <2>1. w = Rec(s.order, s.page, x, s.references \ gone, a, s.visuals)
    BY <1>1 DEF Climbed
  <2> HIDE DEF x, a, w
  <2>2. w.sections = x /\ w.at = a
    BY <2>1, RecFields
  <2> QED
    BY SMTT(40), <2>2 DEF x, a
<1> HIDE DEF w
<1>3. \A b \in Blocks(s) : s.at[b] \in Assignment /\ w.at[b].section = c[s.at[b].section]
  BY SMTT(40), <1>2 DEF Formed, Assignment
<1>4. /\ DOMAIN t.sections = D /\ \A k \in D : t.sections[k] = c[s.sections[k]]
      /\ \A b \in Blocks(s) : t.at[b].section \in {c[s.at[b].section], 0}
  BY <1>2, <1>3 DEF w
<1>5. /\ DOMAIN s.sections \subseteq Blocks(s) /\ 0 \notin Blocks(s)
      /\ \A k \in D : s.sections[k] \in DOMAIN s.sections \cup {0}
      /\ \A b \in Blocks(s) : s.at[b].section \in DOMAIN s.sections \cup {0}
      /\ \A b \in Blocks(s) : Pos(s.order, b) \in Nat
  BY Position DEF Formed, Resolved, InOrder
<1>10. Leads(s, gone, c)
  BY <1>1 DEF Climbed
<1>6. /\ \A k \in D : c[s.sections[k]] \in D \cup {0}
      /\ \A b \in Blocks(s) : c[s.at[b].section] \in D \cup {0}
      /\ \A k \in D : c[s.sections[k]] # 0 => s.sections[k] # 0 /\ Pos(s.order, c[s.sections[k]]) <= Pos(s.order, s.sections[k])
      /\ \A b \in Blocks(s) : c[s.at[b].section] # 0 =>
           s.at[b].section # 0 /\ Pos(s.order, c[s.at[b].section]) <= Pos(s.order, s.at[b].section)
  BY <1>5, <1>10 DEF Leads
<1>7. Resolved(t)
  BY <1>4, <1>5, <1>6 DEF Resolved, Alongside
<1>8. InOrder(t)
  BY DEF Formed, InOrder, Alongside
<1>9. Nested(t)
  <2>1. \A k \in D : t.sections[k] # 0 => Pos(s.order, t.sections[k]) < Pos(s.order, k)
    BY <1>4, <1>5, <1>6 DEF Nested
  <2>2. \A b \in Blocks(s) : t.at[b].section # 0 => Pos(s.order, t.at[b].section) <= Pos(s.order, b)
    BY <1>4, <1>5, <1>6 DEF Nested
  <2> QED
    BY <1>4, <2>1, <2>2 DEF Nested, Alongside
<1> QED
  BY <1>4, <1>7, <1>8, <1>9 DEF Formed, Alongside

\* w is s but for its sections.
Apart(s, w) ==
  /\ Alongside(s, w) /\ w.visuals = s.visuals /\ w.at \in [Blocks(s) -> Assignment]
  /\ w = Rec(s.order, s.page, w.sections, w.references, w.at, s.visuals)
  /\ \A b \in Blocks(s) : w.at[b].role = s.at[b].role /\ w.at[b].para = s.at[b].para /\ w.at[b].from = s.at[b].from
LEMMA WithoutIs ==
  ASSUME NEW s, Formed(s), Nested(s), NEW gone \in SUBSET DOMAIN s.sections, NEW fallback,
         FallsBack(s, gone, fallback),
         NEW w, w = WithoutSections(s, gone, fallback)
  PROVE  Apart(s, w)
<1> DEFINE D == DOMAIN s.sections \ gone
<1>1. PICK c : Climbed(s, gone, c, w)
  BY Climbing
<1> DEFINE x == [k \in D |-> c[s.sections[k]]]
           a == [b \in Blocks(s) |-> [s.at[b] EXCEPT !.section = c[@]]]
           r == s.references \ gone
<1>2. w = Rec(s.order, s.page, x, r, a, s.visuals)
  BY <1>1 DEF Climbed
<1>3. Leads(s, gone, c)
  BY <1>1 DEF Climbed
<1>4. \A b \in Blocks(s) : s.at[b] \in Assignment /\ c[s.at[b].section] \in Nat
  <2>1. \A b \in Blocks(s) : s.at[b].section \in DOMAIN s.sections \cup {0} /\ DOMAIN s.sections \subseteq Nat
    BY DEF Formed, Resolved, InOrder
  <2> QED
    BY <1>3, <2>1 DEF Leads, Formed
<1>5. /\ a \in [Blocks(s) -> Assignment] /\ DOMAIN a = Blocks(s)
      /\ \A b \in Blocks(s) : a[b].role = s.at[b].role /\ a[b].para = s.at[b].para /\ a[b].from = s.at[b].from
  BY <1>4 DEF Assignment
<1> HIDE DEF x, a, r
<1>6. Structured(w) /\ Blocks(w) = DOMAIN a /\ w.order = s.order /\ w.page = s.page /\ w.at = a /\ w.visuals = s.visuals
      /\ w.sections = x /\ w.references = r
  BY <1>2, RecFields
<1> QED
  BY <1>2, <1>5, <1>6 DEF Alongside, Apart

LEMMA GoneKeeps ==
  ASSUME NEW s, Early(s), NEW gone \in SUBSET DOMAIN s.sections, NEW fallback, FallsBack(s, gone, fallback),
         NEW t, Alongside(s, t), t.sections = WithoutSections(s, gone, fallback).sections,
         t.at \in [Blocks(s) -> Assignment], Anchored(t), Uncut(t),
         \A b \in Blocks(s) : t.at[b].section \in {WithoutSections(s, gone, fallback).at[b].section, 0},
         \A b \in Blocks(s) :
           \/ t.at[b].role = s.at[b].role /\ t.at[b].para = s.at[b].para /\ t.at[b].from = s.at[b].from
           \/ b \notin DOMAIN s.sections \ gone /\ t.at[b].para \in {0, b} /\ t.at[b].from = 0
  PROVE  Early(t) /\ (Fresh(s) => Fresh(t))
<1>1. Formed(t) /\ Nested(t) /\ DOMAIN t.sections = DOMAIN s.sections \ gone
  BY SectionsGone DEF Early
<1>2. DOMAIN s.at = Blocks(s) /\ DOMAIN t.at = Blocks(s) /\ DOMAIN s.sections \subseteq Blocks(s)
  BY DEF Alongside, Blocks, Early, Formed, Resolved
<1>3. Titled(t)
  BY <1>1, <1>2 DEF Titled, Early
<1>4. Grouped(t)
  <2>1. \A b \in Blocks(s) : Pos(s.order, b) \in Nat
    BY Position DEF Early, Formed, InOrder
  <2> QED
    BY <1>2, <2>1 DEF Grouped, GroupedAs, Early, Alongside
<1>5. Fresh(s) => Fresh(t)
  BY <1>2 DEF Fresh, FreshAs
<1> QED
  BY <1>1, <1>3, <1>4, <1>5 DEF Early

\* The section of a block before b may be b's fallback.
LEMMA EarlierSection ==
  ASSUME NEW s, Early(s), NEW b \in Blocks(s), NEW p \in Before(s, b)
  PROVE  /\ s.at[p].section \in DOMAIN s.sections \cup {0}
         /\ s.at[p].section # 0 => Pos(s.order, s.at[p].section) < Pos(s.order, b)
<1>1. p \in Blocks(s) /\ Pos(s.order, p) < Pos(s.order, b)
  BY BeforeAndAfter DEF Early, Formed
<1>2. s.at[p].section \in DOMAIN s.sections \cup {0} /\ DOMAIN s.sections \subseteq Blocks(s)
  BY <1>1 DEF Early, Formed, Resolved
<1>3. \A x \in Blocks(s) : Pos(s.order, x) \in Nat
  BY Position DEF Early, Formed, InOrder
<1>4. s.at[p].section # 0 => Pos(s.order, s.at[p].section) <= Pos(s.order, p)
  BY <1>1 DEF Early, Nested
<1> QED
  BY <1>1, <1>2, <1>3, <1>4

LEMMA SuppressBlankKeeps ==
  ASSUME NEW s, Early(s), NEW gone \in SUBSET Blocks(s)
  PROVE  LET t == SuppressBlank(s, gone) IN Early(t) /\ (Fresh(s) => Fresh(t)) /\ Blocks(t) = Blocks(s)
<1> DEFINE fallback == [b \in gone |-> Latest(s, (Before(s, b) \cap VisibleAs(s, AnchorRoles)) \ gone)]
           section == [b \in gone |-> IF fallback[b] = 0 THEN 0 ELSE s.at[fallback[b]].section]
           out == gone \cap DOMAIN s.sections
           w == WithoutSections(s, out, section)
           a == [b \in Blocks(s) |-> IF b \in gone THEN InVisual(w.at[b]) ELSE w.at[b]]
           To(v) == IF v.anchor \in gone /\ v \in FiguresAt(s, v.anchor) THEN [v EXCEPT !.anchor = fallback[v.anchor]] ELSE v
           vs == {To(v) : v \in s.visuals}
           t == Rec(s.order, s.page, w.sections, w.references, a, vs)
<1>1. Formed(s) /\ Nested(s) /\ Anchored(s) /\ Uncut(s) /\ Blocks(s) \subseteq Nat \ {0}
  BY DEF Early, Formed, InOrder
<1>2. ASSUME NEW b \in gone
      PROVE  fallback[b] \in Before(s, b) \cup {0} /\ fallback[b] \in Blocks(s) \cup {0}
  <2>1. Before(s, b) \subseteq Blocks(s)
    BY <1>1, BeforeAndAfter DEF Formed
  <2>2. Latest(s, (Before(s, b) \cap VisibleAs(s, AnchorRoles)) \ gone) \in Before(s, b) \cup {0}
    BY <1>1, <2>1, EndsOrNone DEF Formed
  <2> QED
    BY <2>1, <2>2
<1> HIDE DEF fallback
<1>3. FallsBack(s, out, section)
  BY <1>1, <1>2, EarlierSection DEF FallsBack
<1> HIDE DEF section
<1>14. out \in SUBSET DOMAIN s.sections
  OBVIOUS
<1> HIDE DEF out, w
<1>15. w = WithoutSections(s, out, section)
  BY DEF w
<1>4. /\ Alongside(s, w) /\ w.visuals = s.visuals /\ w.at \in [Blocks(s) -> Assignment]
      /\ w = Rec(s.order, s.page, w.sections, w.references, w.at, s.visuals)
      /\ \A b \in Blocks(s) : w.at[b].role = s.at[b].role /\ w.at[b].para = s.at[b].para /\ w.at[b].from = s.at[b].from
  <2>1. Apart(s, w)
    BY <1>1, <1>3, <1>14, <1>15, WithoutIs
  <2> QED
    BY <2>1 DEF Apart
<1>5. vs \subseteq Visual /\ \A v \in vs : v.anchor \in Blocks(s) \cup {0} /\ v.part = 0
  <2>1. ASSUME NEW v \in s.visuals PROVE To(v) \in Visual /\ To(v).anchor \in Blocks(s) \cup {0} /\ To(v).part = 0
    BY <1>1, <1>2, AnchorMoves DEF Anchored, Uncut
  <2> HIDE DEF To
  <2> QED
    BY <2>1
<1>6. SuppressBlank(s, gone) = t
  <2>1. SuppressBlank(s, gone) = [w EXCEPT !.at = a, !.visuals = vs]
    BY <1>4 DEF SuppressBlank, w, out, section, fallback
  <2> HIDE DEF a, vs
  <2>2. Structured(w) /\ w.order = s.order /\ w.page = s.page
    BY <1>4 DEF Alongside
  <2>3. AtVisuals(w, a, vs) = Rec(w.order, w.page, w.sections, w.references, a, vs)
    BY <2>2, AtVisualsExcept
  <2> QED
    BY SMTT(40), <2>1, <2>2, <2>3 DEF AtVisuals
<1> HIDE DEF To, vs
<1>7. \A b \in Blocks(s) : w.at[b] \in Assignment
  BY <1>4
<1>8. /\ a \in [Blocks(s) -> Assignment] /\ DOMAIN a = Blocks(s)
      /\ \A b \in gone : a[b].section = 0 /\ a[b].para = 0 /\ a[b].from = 0
      /\ \A b \in Blocks(s) \ gone : a[b] = w.at[b]
  BY <1>7, NoiseType
<1> HIDE DEF a
<1>9. Alongside(s, t) /\ t.sections = w.sections /\ t.at = a /\ t.visuals = vs
  BY <1>8, RecFields DEF Alongside
<1> HIDE DEF t
<1>10. Anchored(t) /\ Uncut(t)
  BY <1>5, <1>9 DEF Anchored, Uncut, Alongside
<1>11. \A b \in Blocks(s) : t.at[b].section \in {w.at[b].section, 0}
  BY <1>8, <1>9
<1>12. \A b \in Blocks(s) :
         \/ t.at[b].role = s.at[b].role /\ t.at[b].para = s.at[b].para /\ t.at[b].from = s.at[b].from
         \/ b \notin DOMAIN s.sections \ out /\ t.at[b].para \in {0, b} /\ t.at[b].from = 0
  <2>1. \A b \in gone : b \notin DOMAIN s.sections \ out
    BY DEF out
  <2> QED
    BY <1>4, <1>8, <1>9, <2>1
<1>13. Early(t) /\ (Fresh(s) => Fresh(t))
  BY <1>3, <1>8, <1>9, <1>10, <1>11, <1>12, <1>14, <1>15, GoneKeeps
<1> QED
  BY <1>6, <1>9, <1>13 DEF Alongside

LEMMA AbsorbPanelsKeeps ==
  ASSUME NEW s, Early(s), NEW rows,
         \A r \in rows : r.headings \in SUBSET Blocks(s) /\ r.headings # {} /\ RowFallback(s, r) # 0
  PROVE  LET t == AbsorbPanels(s, rows) IN Early(t) /\ (Fresh(s) => Fresh(t)) /\ Blocks(t) = Blocks(s)
<1> DEFINE gone == UNION {r.headings : r \in rows}
           row == [b \in gone |-> CHOOSE r \in rows : b \in r.headings]
           fallback == [b \in gone |-> RowFallback(s, row[b])]
           section == [b \in gone |-> s.at[fallback[b]].section]
           out == gone \cap DOMAIN s.sections
           w == WithoutSections(s, out, section)
           a == [b \in Blocks(s) |-> IF b \in gone THEN InVisual(w.at[b]) ELSE w.at[b]]
           To(v) == [v EXCEPT !.anchor = IF @ \in DOMAIN fallback THEN fallback[@] ELSE @]
           vs == {To(v) : v \in s.visuals}
           t == Rec(s.order, s.page, w.sections, w.references, a, vs)
<1>1. Formed(s) /\ Nested(s) /\ Anchored(s) /\ Uncut(s) /\ Blocks(s) \subseteq Nat \ {0} /\ InOrder(s)
  BY DEF Early, Formed, InOrder
<1>2. gone \subseteq Blocks(s) /\ DOMAIN fallback = gone
  OBVIOUS
<1>3. ASSUME NEW b \in gone PROVE fallback[b] \in Before(s, b) /\ fallback[b] \in Blocks(s)
  <2>1. row[b] \in rows /\ b \in row[b].headings
    <3>1. \E r \in rows : b \in r.headings
      BY <1>3
    <3> QED
      BY <3>1
  <2> DEFINE hs == row[b].headings
             e == Earliest(s, hs)
             ps == {c \in Before(s, e) \cap VisibleAs(s, AnchorRoles) : s.at[c].section # 0}
  <2>2. fallback[b] = Latest(s, ps) /\ fallback[b] # 0
    BY <2>1 DEF RowFallback
  <2>3. hs \in SUBSET Blocks(s) /\ hs # {} /\ b \in hs
    BY <2>1
  <2> HIDE DEF row, hs, fallback
  <2>4. e \in Blocks(s) /\ Pos(s.order, e) <= Pos(s.order, b)
    BY <1>1, <2>3, Ends
  <2> HIDE DEF e
  <2>5. ps \in SUBSET Blocks(s) /\ \A c \in ps : Pos(s.order, c) < Pos(s.order, e)
    BY <1>1, <2>4, BeforeAndAfter
  <2> HIDE DEF ps
  <2>6. fallback[b] \in ps
    BY <1>1, <2>2, <2>5, Ends, EndsOrNone
  <2>7. \A c \in Blocks(s) : Pos(s.order, c) \in Nat
    BY <1>1, Position DEF InOrder
  <2>8. b \in Blocks(s) /\ fallback[b] \in Blocks(s) /\ Pos(s.order, fallback[b]) < Pos(s.order, b)
    BY <1>2, <2>3, <2>4, <2>5, <2>6, <2>7
  <2> QED
    BY <1>1, <2>8, BeforeAndAfter
<1> HIDE DEF gone, fallback
<1>4. FallsBack(s, out, section)
  BY <1>1, <1>2, <1>3, EarlierSection DEF FallsBack
<1> HIDE DEF section
<1>5. out \in SUBSET DOMAIN s.sections /\ \A b \in gone : b \notin DOMAIN s.sections \ out
  OBVIOUS
<1> HIDE DEF out, w
<1>6. w = WithoutSections(s, out, section)
  BY DEF w
<1>7. Apart(s, w)
  BY <1>1, <1>4, <1>5, <1>6, WithoutIs
<1>8. vs \subseteq Visual /\ \A v \in vs : v.anchor \in Blocks(s) \cup {0} /\ v.part = 0
  <2>1. ASSUME NEW v \in s.visuals PROVE To(v) \in Visual /\ To(v).anchor \in Blocks(s) \cup {0} /\ To(v).part = 0
    <3> DEFINE to == IF v.anchor \in DOMAIN fallback THEN fallback[v.anchor] ELSE v.anchor
    <3>1. v \in Visual /\ v.part = 0 /\ to \in Blocks(s) \cup {0} /\ to \in Nat
      BY <1>1, <1>2, <1>3 DEF Anchored, Uncut
    <3>2. To(v) = [v EXCEPT !.anchor = to]
      OBVIOUS
    <3> HIDE DEF to, To
    <3> QED
      BY <3>1, <3>2, AnchorMoves
  <2> HIDE DEF To
  <2> QED
    BY <2>1
<1>9. AbsorbPanels(s, rows) = t
  <2>1. AbsorbPanels(s, rows) = [w EXCEPT !.at = a, !.visuals = vs]
    BY DEF AbsorbPanels, Reanchored, w, out, section, fallback, gone
  <2> HIDE DEF a, vs
  <2>2. Structured(w) /\ w.order = s.order /\ w.page = s.page
    BY <1>7 DEF Alongside, Apart
  <2>3. AtVisuals(w, a, vs) = Rec(w.order, w.page, w.sections, w.references, a, vs)
    BY <2>2, AtVisualsExcept
  <2> QED
    BY <2>1, <2>2, <2>3 DEF AtVisuals
<1> HIDE DEF To, vs
<1>10. \A b \in Blocks(s) : w.at[b] \in Assignment
  BY <1>7 DEF Apart
<1>11. /\ a \in [Blocks(s) -> Assignment] /\ DOMAIN a = Blocks(s)
       /\ \A b \in gone : a[b].section = 0 /\ a[b].para = 0 /\ a[b].from = 0
       /\ \A b \in Blocks(s) \ gone : a[b] = w.at[b]
  BY <1>2, <1>10, NoiseType
<1> HIDE DEF a
<1>12. Alongside(s, t) /\ t.sections = w.sections /\ t.at = a /\ t.visuals = vs
  BY <1>11, RecFields DEF Alongside
<1> HIDE DEF t
<1>13. Anchored(t) /\ Uncut(t)
  BY <1>8, <1>12 DEF Anchored, Uncut, Alongside
<1>14. \A b \in Blocks(s) : t.at[b].section \in {w.at[b].section, 0}
  BY <1>11, <1>12
<1>15. \A b \in Blocks(s) :
         \/ t.at[b].role = s.at[b].role /\ t.at[b].para = s.at[b].para /\ t.at[b].from = s.at[b].from
         \/ b \notin DOMAIN s.sections \ out /\ t.at[b].para \in {0, b} /\ t.at[b].from = 0
  BY <1>5, <1>7, <1>11, <1>12 DEF Apart
<1>16. Early(t) /\ (Fresh(s) => Fresh(t))
  BY <1>4, <1>5, <1>6, <1>11, <1>12, <1>13, <1>14, <1>15, GoneKeeps
<1> QED
  BY <1>9, <1>12, <1>16 DEF Alongside

Rewrite(r, q, p) == [r EXCEPT !.role = q, !.para = p, !.from = 0]
LEMMA Rewritten ==
  ASSUME NEW r \in Assignment, NEW q \in Roles, NEW p \in Nat
  PROVE  /\ Rewrite(r, q, p) \in Assignment /\ Rewrite(r, q, p).section = r.section
         /\ Rewrite(r, q, p).para = p /\ Rewrite(r, q, p).from = 0
<1> DEFINE u == [r EXCEPT !.role = q]
           w == [u EXCEPT !.para = p]
<1>1. u \in Assignment /\ u.section = r.section
  BY DEF Assignment
<1> HIDE DEF u
<1>2. w \in Assignment /\ w.section = r.section /\ w.para = p
  BY <1>1 DEF Assignment
<1> HIDE DEF w
<1>3. [w EXCEPT !.from = 0] \in Assignment /\ [w EXCEPT !.from = 0].section = r.section /\ [w EXCEPT !.from = 0].para = p
      /\ [w EXCEPT !.from = 0].from = 0
  BY <1>2 DEF Assignment
<1> QED
  BY <1>3 DEF w, u, Rewrite

LEMMA DemoteKeeps ==
  ASSUME NEW s, Early(s), NEW to, DOMAIN to \in SUBSET DOMAIN s.sections, \A b \in DOMAIN to : to[b] \in Roles
  PROVE  LET t == Demote(s, to) IN Early(t) /\ (Fresh(s) => Fresh(t)) /\ Blocks(t) = Blocks(s)
<1> DEFINE gone == DOMAIN to
           Left(b) == {c \in Before(s, b) \cap Visible(s) : s.at[c].section \notin gone \cup {0}}
           fallback == [b \in gone |-> LET p == Latest(s, Left(b)) IN IF p = 0 THEN 0 ELSE s.at[p].section]
           w == WithoutSections(s, gone, fallback)
           Now(b) == IF b \notin gone THEN w.at[b]
                     ELSE IF to[b] = "noise" THEN [Noise(w.at[b]) EXCEPT !.swallowed = TRUE, !.owners = {}]
                     ELSE [w.at[b] EXCEPT !.role = to[b], !.para = b, !.from = 0]
           a == [b \in Blocks(s) |-> Now(b)]
           t == Rec(s.order, s.page, w.sections, w.references, a, s.visuals)
<1>1. Formed(s) /\ Nested(s) /\ Anchored(s) /\ Uncut(s) /\ Blocks(s) \subseteq Nat \ {0} /\ InOrder(s) /\ gone \subseteq Blocks(s)
  BY DEF Early, Formed, InOrder, Resolved
<1>2. FallsBack(s, gone, fallback)
  <2>1. ASSUME NEW b \in gone PROVE Latest(s, Left(b)) \in Before(s, b) \cup {0}
    <3>1. Before(s, b) \subseteq Blocks(s)
      BY <1>1, BeforeAndAfter
    <3>2. Left(b) \in SUBSET Blocks(s) /\ Left(b) \subseteq Before(s, b)
      BY <3>1
    <3> HIDE DEF Left
    <3> QED
      BY <1>1, <3>2, EndsOrNone
  <2> HIDE DEF Left
  <2> QED
    BY <1>1, <2>1, EarlierSection DEF FallsBack
<1>3. gone \in SUBSET DOMAIN s.sections /\ \A b \in gone : b \notin DOMAIN s.sections \ gone
  OBVIOUS
<1> HIDE DEF fallback, w
<1>4. w = WithoutSections(s, gone, fallback)
  BY DEF w
<1>5. Apart(s, w)
  BY <1>1, <1>2, <1>3, <1>4, WithoutIs
<1>6. Demote(s, to) = t
  <2>1. Demote(s, to) = [w EXCEPT !.at = a]
    BY DEF Demote, w, fallback, Left
  <2> HIDE DEF a
  <2>2. Structured(w) /\ w.order = s.order /\ w.page = s.page /\ w.visuals = s.visuals
    BY <1>5 DEF Alongside, Apart
  <2>3. [w EXCEPT !.at = a] = Rec(w.order, w.page, w.sections, w.references, a, w.visuals)
    BY <2>2, AtExcept
  <2> QED
    BY <2>1, <2>2, <2>3
<1>7. \A b \in Blocks(s) : w.at[b] \in Assignment
  BY <1>5 DEF Apart
<1>8. /\ a \in [Blocks(s) -> Assignment] /\ DOMAIN a = Blocks(s)
      /\ \A b \in gone : a[b].section \in {w.at[b].section, 0} /\ a[b].para \in {0, b} /\ a[b].from = 0
      /\ \A b \in Blocks(s) \ gone : a[b] = w.at[b]
  <2>1. ASSUME NEW b \in gone
        PROVE Now(b) \in Assignment /\ Now(b).section \in {w.at[b].section, 0} /\ Now(b).para \in {0, b} /\ Now(b).from = 0
    <3> DEFINE e == w.at[b]
               q == to[b]
    <3>1. e \in Assignment /\ b \in Nat /\ q \in Roles /\ b \in Blocks(s)
      BY <1>1, <1>7
    <3>2. CASE q = "noise"
      <4> DEFINE r == Noise(e)
      <4>1. r \in Assignment /\ r.para = 0 /\ r.from = 0 /\ r.section = e.section
        BY <3>1, NoiseType
      <4>2. Now(b) = [r EXCEPT !.swallowed = TRUE, !.owners = {}]
        BY <3>2
      <4> HIDE DEF r, e, Now
      <4> QED
        BY <4>1, <4>2 DEF e, Assignment
    <3>3. CASE q # "noise"
      <4>1. Now(b) = [e EXCEPT !.role = q, !.para = b, !.from = 0]
        BY <3>3
      <4>2. Now(b) = Rewrite(e, q, b)
        BY <4>1 DEF Rewrite
      <4> HIDE DEF e, q, Now
      <4> QED
        BY <3>1, <4>2, Rewritten DEF e
    <3> QED
      BY <3>2, <3>3
  <2>2. \A b \in Blocks(s) \ gone : Now(b) = w.at[b]
    OBVIOUS
  <2> HIDE DEF Now
  <2> QED
    BY <1>1, <1>7, <2>1, <2>2
<1> HIDE DEF a
<1>9. Alongside(s, t) /\ t.sections = w.sections /\ t.at = a /\ t.visuals = s.visuals
  BY <1>8, RecFields DEF Alongside
<1> HIDE DEF t
<1>10. Anchored(t) /\ Uncut(t)
  BY <1>1, <1>9 DEF Anchored, Uncut, Alongside
<1>11. \A b \in Blocks(s) : t.at[b].section \in {w.at[b].section, 0}
  BY <1>8, <1>9
<1>12. \A b \in Blocks(s) :
         \/ t.at[b].role = s.at[b].role /\ t.at[b].para = s.at[b].para /\ t.at[b].from = s.at[b].from
         \/ b \notin DOMAIN s.sections \ gone /\ t.at[b].para \in {0, b} /\ t.at[b].from = 0
  BY <1>3, <1>5, <1>8, <1>9 DEF Apart
<1>13. Early(t) /\ (Fresh(s) => Fresh(t))
  BY <1>2, <1>3, <1>4, <1>8, <1>9, <1>10, <1>11, <1>12, GoneKeeps
<1> QED
  BY <1>6, <1>9, <1>13 DEF Alongside

-----------------------------------------------------------------------------
(* Passes that leave the sections alone.                                    *)

LEMMA JoinTailsKeeps ==
  ASSUME NEW s, Early(s), NEW tails
  PROVE  LET t == JoinTails(s, tails) IN Early(t) /\ (Fresh(s) => Fresh(t)) /\ Blocks(t) = Blocks(s)
<1>1. PICK a \in Regrouped(s) : JoinTails(s, tails) = [s EXCEPT !.at = a]
  BY JoinTailsAt DEF Early
<1> DEFINE t == Rec(s.order, s.page, s.sections, s.references, a, s.visuals)
<1>2. JoinTails(s, tails) = t
  BY <1>1, AtExcept DEF Early, Formed
<1>3. /\ a \in [Blocks(s) -> Assignment] /\ DOMAIN a = Blocks(s) /\ GroupedAs(s.order, a) /\ (Fresh(s) => FreshAs(a))
      /\ \A b \in Blocks(s) : a[b].section = s.at[b].section /\ a[b].role = s.at[b].role
  BY DEF Regrouped, Fresh
<1>4. Alongside(s, t) /\ t.sections = s.sections /\ t.at = a /\ t.visuals = s.visuals
  BY <1>3, RecFields DEF Alongside
<1> HIDE DEF t
<1>5. Anchored(t) /\ Uncut(t)
  BY <1>4 DEF Anchored, Uncut, Alongside, Early, Formed
<1>6. Formed(t) /\ Nested(t)
  BY <1>3, <1>4, <1>5, SectionsStay DEF Early
<1>7. Titled(t)
  BY <1>3, <1>4 DEF Titled, Early, Formed, Resolved
<1>8. Grouped(t) /\ (Fresh(s) => Fresh(t))
  BY <1>3, <1>4 DEF Grouped, Fresh, Alongside
<1> QED
  BY <1>2, <1>4, <1>5, <1>6, <1>7, <1>8 DEF Early, Alongside

\* Some text becomes noise that its visual has.
Hushed(s, bs) == [b \in Blocks(s) |-> IF b \in bs THEN [Noise(s.at[b]) EXCEPT !.swallowed = TRUE] ELSE s.at[b]]
LEMMA HushedKeeps ==
  ASSUME NEW s, Early(s), NEW bs, NEW vs, vs \subseteq Visual, \A v \in vs : v.anchor \in Blocks(s) \cup {0} /\ v.part = 0,
         NEW t, t = AtVisuals(s, Hushed(s, bs), vs)
  PROVE  Early(t) /\ (Fresh(s) => Fresh(t)) /\ Blocks(t) = Blocks(s)
<1> DEFINE Now(b) == IF b \in bs THEN [Noise(s.at[b]) EXCEPT !.swallowed = TRUE] ELSE s.at[b]
           a == [b \in Blocks(s) |-> Now(b)]
           Less(b) == /\ Now(b) \in Assignment
                      /\ \/ Now(b) = s.at[b]
                         \/ /\ Now(b).section \in {s.at[b].section, 0} /\ Now(b).role = "noise"
                            /\ Now(b).para = 0 /\ Now(b).from = 0
<1>1. ASSUME NEW b \in Blocks(s) PROVE Less(b)
  <2> DEFINE r == Noise(s.at[b])
  <2>1. s.at[b] \in Assignment
    BY DEF Early, Formed
  <2>2. r \in Assignment /\ r.para = 0 /\ r.from = 0 /\ r.section = s.at[b].section /\ r.role = "noise"
    BY <2>1, NoiseType
  <2>3. Now(b) = IF b \in bs THEN [r EXCEPT !.swallowed = TRUE] ELSE s.at[b]
    OBVIOUS
  <2> HIDE DEF r, Now
  <2> QED
    BY ZenonT(40), <2>1, <2>2, <2>3 DEF Assignment
<1>2. a = Hushed(s, bs)
  BY DEF Hushed
<1> HIDE DEF Now
<1>3. a \in [Blocks(s) -> Assignment] /\ DOMAIN a = Blocks(s) /\ \A b \in Blocks(s) : a[b] = Now(b)
  BY <1>1
<1> HIDE DEF a
<1>4. t = Rec(s.order, s.page, s.sections, s.references, a, vs)
  BY <1>2, AtVisualsExcept DEF Early, Formed
<1>5. Alongside(s, t) /\ t.sections = s.sections /\ t.at = a /\ t.visuals = vs
  BY <1>3, <1>4, RecFields DEF Alongside
<1>6. Anchored(t) /\ Uncut(t)
  BY <1>5 DEF Anchored, Uncut, Alongside
<1>7. Early(t) /\ (Fresh(s) => Fresh(t))
  BY <1>1, <1>3, <1>5, <1>6, Lessened
<1> QED
  BY <1>5, <1>7 DEF Alongside

LEMMA SuppressOverlaysKeeps ==
  ASSUME NEW s, Early(s), NEW overlays
  PROVE  LET t == SuppressOverlays(s, overlays) IN Early(t) /\ (Fresh(s) => Fresh(t)) /\ Blocks(t) = Blocks(s)
<1> DEFINE bs == {v.item : v \in overlays}
           vs == s.visuals \ overlays
<1>1. vs \subseteq Visual /\ \A v \in vs : v.anchor \in Blocks(s) \cup {0} /\ v.part = 0
  BY DEF Early, Formed, Anchored, Uncut
<1>2. SuppressOverlays(s, overlays) = AtVisuals(s, Hushed(s, bs), vs)
  BY DEF SuppressOverlays, AtVisuals, Hushed
<1> HIDE DEF bs, vs
<1> QED
  BY <1>1, <1>2, HushedKeeps

LEMMA AbsorbSignsKeeps ==
  ASSUME NEW s, Early(s), NEW all, NEW absorbing \in SUBSET WithSign(s, all)
  PROVE  LET t == AbsorbSigns(s, absorbing) IN Early(t) /\ (Fresh(s) => Fresh(t)) /\ Blocks(t) = Blocks(s)
<1> DEFINE signs == {SignOf(s, v) : v \in absorbing}
           Near(b) == (Before(s, b) \cap OnPage(s, s.page[b]) \cap VisibleAs(s, AnchorsEquation)) \ signs
           fallback == [b \in signs |-> LET p == Latest(s, Near(b)) IN IF p = 0 THEN b ELSE p]
           To(v) == [v EXCEPT !.anchor = fallback[v.anchor]]
           vs == (s.visuals \ absorbing) \cup {To(v) : v \in absorbing}
<1>1. s.visuals \subseteq Visual /\ \A v \in s.visuals : v.anchor \in Blocks(s) \cup {0} /\ v.part = 0
  BY DEF Early, Formed, Anchored, Uncut
<1>2. \A v \in absorbing : v \in s.visuals /\ v.anchor \in signs /\ SignOf(s, v) \in Blocks(s)
  BY DEF WithSign, Equations, Visible
<1>3. Blocks(s) \subseteq Nat
  BY DEF Early, Formed, InOrder
<1>4. ASSUME NEW b \in signs PROVE fallback[b] \in Blocks(s)
  <2>1. Near(b) \in SUBSET Blocks(s) /\ b \in Blocks(s)
    BY <1>2 DEF OnPage
  <2> HIDE DEF signs, Near
  <2>2. Latest(s, Near(b)) \in Blocks(s) \cup {0}
    BY <2>1, EndsOrNone DEF Early, Formed
  <2> QED
    BY <1>4, <2>1, <2>2
<1> HIDE DEF fallback
<1>5. ASSUME NEW v \in absorbing PROVE To(v) \in Visual /\ To(v).anchor \in Blocks(s) \cup {0} /\ To(v).part = 0
  <2> DEFINE to == fallback[v.anchor]
  <2>1. v \in Visual /\ v.part = 0 /\ to \in Blocks(s) /\ to \in Nat
    BY <1>1, <1>2, <1>3, <1>4
  <2> HIDE DEF to
  <2>2. To(v) = [v EXCEPT !.anchor = to]
    BY DEF to
  <2> HIDE DEF To
  <2> QED
    BY <2>1, <2>2, AnchorMoves
<1>6. AbsorbSigns(s, absorbing) = AtVisuals(s, Hushed(s, signs), vs)
  BY DEF AbsorbSigns, AtVisuals, Hushed, fallback
<1> HIDE DEF To
<1>7. vs \subseteq Visual /\ \A v \in vs : v.anchor \in Blocks(s) \cup {0} /\ v.part = 0
  BY <1>1, <1>5
<1> HIDE DEF signs, vs
<1> QED
  BY <1>6, <1>7, HushedKeeps

\* A block that moves up in the order to where another one is.
MovedUp(o, n, x, y, bs) ==
  \A b, c \in bs :
    /\ c # x /\ Pos(o, b) <= Pos(o, c) => Pos(n, b) <= Pos(n, c)
    /\ c # x /\ Pos(o, b) < Pos(o, c) => Pos(n, b) < Pos(n, c)
    /\ Pos(o, b) < Pos(o, y) => Pos(n, b) < Pos(n, x)
LEMMA Rotation ==
  ASSUME NEW bs, NEW o, Enumerates(o, bs), NEW x \in bs, NEW y \in bs, Pos(o, y) < Pos(o, x),
         NEW n, n = [i \in DOMAIN o |-> IF i = Pos(o, y) THEN x ELSE IF Pos(o, y) < i /\ i <= Pos(o, x) THEN o[i - 1] ELSE o[i]]
  PROVE  Enumerates(n, bs) /\ MovedUp(o, n, x, y, bs)
<1> DEFINE p == Pos(o, x)
           q == Pos(o, y)
           L == Len(o)
           to(b) == IF b = x THEN q ELSE IF q <= Pos(o, b) /\ Pos(o, b) < p THEN Pos(o, b) + 1 ELSE Pos(o, b)
           back(i) == IF i = q THEN p ELSE IF q < i /\ i <= p THEN i - 1 ELSE i
<1>1. /\ L \in Nat /\ p \in 1 .. L /\ q \in 1 .. L /\ q < p /\ DOMAIN o = 1 .. L
      /\ \A b \in bs : Pos(o, b) \in 1 .. L /\ o[Pos(o, b)] = b
      /\ \A i \in 1 .. L : o[i] \in bs
      /\ \A i, j \in 1 .. L : o[i] = o[j] => i = j
      /\ \A b, c \in bs : Pos(o, b) = Pos(o, c) => b = c
  <2>1. o \in Seq(bs) /\ \A i, j \in 1 .. L : o[i] = o[j] => i = j
    BY DEF Enumerates
  <2>2. DOMAIN o = 1 .. L
    BY <2>1
  <2> QED
    BY <2>1, <2>2, Position
<1>2. o[p] = x
  BY <1>1
<1>3. DOMAIN n = 1 .. L /\ \A i \in 1 .. L : n[i] = IF i = q THEN x ELSE IF q < i /\ i <= p THEN o[i - 1] ELSE o[i]
  BY <1>1
<1> DEFINE P(b) == Pos(o, b)
<1> HIDE DEF p, q, L, P
<1>4. \A i \in 1 .. L : back(i) \in 1 .. L /\ n[i] = o[back(i)]
  BY <1>1, <1>2, <1>3
<1>5. \A i, j \in 1 .. L : back(i) = back(j) => i = j
  BY <1>1
<1> HIDE DEF back
<1>6. n \in Seq(bs) /\ Len(n) = L
  <2>1. \A i \in 1 .. L : n[i] \in bs
    BY <1>1, <1>4
  <2>2. n \in [1 .. L -> bs]
    BY <1>3, <2>1
  <2> QED
    BY <1>1, <2>2
<1>7. \A b \in bs : to(b) \in 1 .. L /\ n[to(b)] = b
  <2> SUFFICES ASSUME NEW b \in bs PROVE to(b) \in 1 .. L /\ n[to(b)] = b
    OBVIOUS
  <2>1. P(b) \in 1 .. L /\ o[P(b)] = b /\ (b # x => P(b) # p)
    BY <1>1 DEF P, p
  <2>2. to(b) = IF b = x THEN q ELSE IF q <= P(b) /\ P(b) < p THEN P(b) + 1 ELSE P(b)
    BY DEF P
  <2> QED
    BY SMTT(40), <1>1, <1>3, <2>1, <2>2
<1>8. Enumerates(n, bs)
  <2> HIDE DEF to
  <2>1. \A b \in bs : \E i \in 1 .. L : n[i] = b
    BY <1>7
  <2>2. \A i, j \in 1 .. L : n[i] = n[j] => i = j
    BY <1>1, <1>4, <1>5
  <2> QED
    BY ZenonT(40), <1>6, <2>1, <2>2 DEF Enumerates
<1>9. ASSUME NEW b \in bs PROVE Pos(n, b) = to(b)
  <2>1. \A j \in 1 .. L : Pos(n, n[j]) = j
    BY ZenonT(40), <1>6, <1>8, Position
  <2> HIDE DEF to
  <2> QED
    BY <1>7, <2>1
<1>10. ASSUME NEW b \in bs, NEW c \in bs
       PROVE  /\ c # x /\ P(b) <= P(c) => to(b) <= to(c)
              /\ c # x /\ P(b) < P(c) => to(b) < to(c)
              /\ P(b) < q => to(b) < to(x)
  <2>1. P(b) \in 1 .. L /\ P(c) \in 1 .. L /\ (b # x => P(b) # p) /\ (c # x => P(c) # p) /\ P(x) = p
    BY <1>1 DEF P, p
  <2>2. /\ to(b) = IF b = x THEN q ELSE IF q <= P(b) /\ P(b) < p THEN P(b) + 1 ELSE P(b)
        /\ to(c) = IF c = x THEN q ELSE IF q <= P(c) /\ P(c) < p THEN P(c) + 1 ELSE P(c)
        /\ to(x) = q
    BY DEF P
  <2> HIDE DEF to
  <2> QED
    BY SMTT(40), <1>1, <2>1, <2>2
<1> QED
  BY <1>8, <1>9, <1>10 DEF MovedUp, P, q

LEMMA MovePrefaceKeeps ==
  ASSUME NEW s, Early(s), Fresh(s), NEW m \in Prefaces(s)
  PROVE  LET t == MovePreface(s, m) IN Early(t) /\ Blocks(t) = Blocks(s)
<1> DEFINE o == s.order
           x == m[1]
           y == m[2]
           n == [i \in DOMAIN o |-> IF i = Pos(o, y) THEN x ELSE IF Pos(o, y) < i /\ i <= Pos(o, x) THEN o[i - 1] ELSE o[i]]
           r == IF s.at[x].from # 0 THEN [s.at[x] EXCEPT !.para = x, !.from = 0] ELSE s.at[x]
           a == [s.at EXCEPT ![x] = r]
           t == Rec(n, s.page, s.sections, s.references, a, s.visuals)
<1>1. /\ Formed(s) /\ Structured(s) /\ InOrder(s) /\ s.at \in [Blocks(s) -> Assignment] /\ Anchored(s) /\ Resolved(s)
      /\ Nested(s) /\ Grouped(s) /\ Titled(s) /\ Uncut(s) /\ DOMAIN s.at = Blocks(s) /\ Blocks(s) \subseteq Nat \ {0}
  BY DEF Early, Formed, InOrder
<1>2. /\ x \in Blocks(s) /\ y \in Blocks(s) /\ y \in Before(s, x) /\ s.at[x].role = "paragraph" /\ s.at[y].role = "equation"
      /\ s.at[x].section # 0 /\ s.at[y].section = s.at[x].section
  <2>1. m \in VisibleAs(s, {"paragraph"}) \X VisibleAs(s, {"equation"})
    BY DEF Prefaces
  <2>2. x \in VisibleAs(s, {"paragraph"}) /\ y \in VisibleAs(s, {"equation"})
    BY <2>1
  <2>3. s.at[x].section # 0 /\ s.at[y].section = s.at[x].section /\ y \in Before(s, x)
    BY DEF Prefaces
  <2> HIDE DEF x, y
  <2> QED
    BY <2>2, <2>3 DEF VisibleAs, Visible
<1>3. MovePreface(s, m) = t
  <2> DEFINE e == [i \in DOMAIN s.order |->
                     IF i = Place(s, y) THEN x ELSE IF Place(s, y) < i /\ i <= Place(s, x) THEN s.order[i - 1] ELSE s.order[i]]
  <2>1. MovePreface(s, m) = [s EXCEPT !.order = e, !.at = a]
    BY DEF MovePreface
  <2>2. e = n
    BY PlaceIsPos
  <2> HIDE DEF e, n, a
  <2>3. s = Rec(s.order, s.page, s.sections, s.references, s.at, s.visuals)
    BY <1>1, IsRec
  <2>4. [s EXCEPT !.order = n] = Rec(n, s.page, s.sections, s.references, s.at, s.visuals)
    BY <2>3, RecExcept
  <2>5. [Rec(n, s.page, s.sections, s.references, s.at, s.visuals) EXCEPT !.at = a] = t
    BY RecExcept
  <2> QED
    BY <2>1, <2>2, <2>4, <2>5
<1> HIDE DEF x, y
<1>4. Pos(o, y) < Pos(o, x) /\ \A b \in Blocks(s) : Pos(o, b) \in Nat
  BY <1>1, <1>2, BeforeAndAfter, Position DEF InOrder
<1>5. Enumerates(n, Blocks(s)) /\ MovedUp(o, n, x, y, Blocks(s))
  <2>1. Enumerates(o, Blocks(s))
    BY <1>1 DEF InOrder
  <2> DEFINE nn == n
  <2>2. nn = [i \in DOMAIN o |-> IF i = Pos(o, y) THEN x ELSE IF Pos(o, y) < i /\ i <= Pos(o, x) THEN o[i - 1] ELSE o[i]]
    OBVIOUS
  <2> HIDE DEF nn
  <2>3. Enumerates(nn, Blocks(s)) /\ MovedUp(o, nn, x, y, Blocks(s))
    BY <1>2, <1>4, <2>1, <2>2, Rotation
  <2> QED
    BY <2>3 DEF nn
<1> HIDE DEF n
<1>6. r \in Assignment /\ r.section = s.at[x].section /\ r.role = s.at[x].role /\ r.para \in {0, x}
  <2>1. s.at[x] \in Assignment /\ x \in Nat
    BY <1>1, <1>2
  <2>2. s.at[x].from = 0 => s.at[x].para \in {0, x}
    BY <1>1, <1>2 DEF Fresh, FreshAs
  <2> QED
    BY <2>1, <2>2 DEF Assignment
<1> HIDE DEF r
<1>7. a \in [Blocks(s) -> Assignment] /\ DOMAIN a = Blocks(s) /\ a[x] = r /\ \A b \in Blocks(s) \ {x} : a[b] = s.at[b]
  BY <1>1, <1>2, <1>6
<1> HIDE DEF a
<1>8. /\ Structured(t) /\ Blocks(t) = Blocks(s) /\ t.order = n /\ t.page = s.page /\ t.sections = s.sections /\ t.at = a
      /\ t.visuals = s.visuals
  BY <1>7, RecFields
<1> HIDE DEF t, o
<1>9. \A b \in Blocks(s) : a[b].section = s.at[b].section /\ a[b].role = s.at[b].role
  BY <1>6, <1>7
<1>10. Formed(t) /\ Uncut(t)
  <2>1. InOrder(t)
    BY <1>1, <1>5, <1>8 DEF InOrder
  <2>2. Resolved(t) /\ Anchored(t)
    BY <1>1, <1>8, <1>9 DEF Resolved, Anchored
  <2> QED
    BY <1>1, <1>7, <1>8, <2>1, <2>2 DEF Formed, Uncut
<1>11. DOMAIN s.sections \subseteq Blocks(s) /\ x \notin DOMAIN s.sections /\ y \notin DOMAIN s.sections
  BY <1>1, <1>2 DEF Resolved, Titled
<1>12. Nested(t)
  <2>1. \A z \in DOMAIN s.sections : s.sections[z] # 0 => Pos(n, s.sections[z]) < Pos(n, z)
    BY <1>1, <1>5, <1>11 DEF Nested, MovedUp, Resolved, o
  <2>2. ASSUME NEW b \in Blocks(s), s.at[b].section # 0 PROVE Pos(n, s.at[b].section) <= Pos(n, b)
    <3>1. s.at[b].section \in Blocks(s) /\ Pos(o, s.at[b].section) <= Pos(o, b)
      BY <1>1, <1>11, <2>2 DEF Nested, Resolved, o
    <3>2. CASE b # x
      BY <1>5, <3>1, <3>2 DEF MovedUp
    <3>3. CASE b = x
      <4>1. s.at[y].section \in DOMAIN s.sections /\ Pos(o, s.at[y].section) <= Pos(o, y) /\ s.at[y].section # y
        BY <1>1, <1>2, <1>11 DEF Nested, Resolved, o
      <4>2. Pos(o, s.at[y].section) # Pos(o, y)
        BY <1>1, <1>2, <1>11, <4>1, Position DEF InOrder, o
      <4>3. Pos(o, s.at[y].section) < Pos(o, y)
        BY <1>2, <1>4, <1>11, <4>1, <4>2
      <4>4. Pos(n, s.at[y].section) < Pos(n, x)
        BY <1>2, <1>5, <1>11, <4>1, <4>3 DEF MovedUp
      <4>5. \A c \in Blocks(s) : Pos(n, c) \in Nat
        BY <1>5, Position
      <4> QED
        BY <1>2, <1>11, <3>3, <4>1, <4>4, <4>5
    <3> QED
      BY <3>2, <3>3
  <2> QED
    BY <1>8, <1>9, <2>1, <2>2 DEF Nested
<1>13. Titled(t)
  BY <1>1, <1>8, <1>9, <1>11 DEF Titled
<1>14. Grouped(t)
  <2>1. \A b \in Blocks(s) \ {x} : s.at[b].para # 0 => s.at[b].para \in Blocks(s) /\ Pos(n, s.at[b].para) <= Pos(n, b)
    BY <1>1, <1>5 DEF Grouped, GroupedAs, MovedUp, o
  <2>2. \A c \in Blocks(s) : Pos(n, c) \in Nat
    BY <1>5, Position
  <2> QED
    BY <1>2, <1>6, <1>7, <1>8, <2>1, <2>2 DEF Grouped, GroupedAs
<1> QED
  BY <1>3, <1>8, <1>10, <1>12, <1>13, <1>14 DEF Early

\* Paragraphs that are parted at the anchors of equations.
Parted(s) ==
  {at \in [Blocks(s) -> Assignment] :
     /\ \A b \in Blocks(s) : at[b].section = s.at[b].section /\ at[b].role = s.at[b].role /\ at[b].hidden = s.at[b].hidden
     /\ GroupedAs(s.order, at)}
PartAt(s, anchors, at, a) ==
  LET tails == TailsOf(s, at, a) IN
  IF a \notin anchors \/ at[a].para = 0 THEN at
  ELSE [b \in Blocks(s) |-> IF b \notin tails THEN at[b]
                            ELSE [at[b] EXCEPT !.para = Earliest(s, tails), !.from = Latest(s, tails \cap Before(s, b))]]
EndsAt(s, anchors, at, a) == a \in anchors /\ at[a].para # 0 => TailsOf(s, at, a) = {}
EndsTo(s, anchors, at, k) == \A j \in 1 .. k : EndsAt(s, anchors, at, s.order[j])

LEMMA PartAtKeeps ==
  ASSUME NEW s, Formed(s), NEW anchors, NEW at \in Parted(s), NEW k \in 1 .. Len(s.order)
  PROVE  LET new == PartAt(s, anchors, at, s.order[k]) IN
         new \in Parted(s) /\ (EndsTo(s, anchors, at, k - 1) => EndsTo(s, anchors, new, k))
<1> DEFINE a == s.order[k]
           new == PartAt(s, anchors, at, a)
           tails == TailsOf(s, at, a)
           e == Earliest(s, tails)
           P(b) == Pos(s.order, b)
<1>1. InOrder(s) /\ Blocks(s) \subseteq Nat \ {0}
  BY DEF Formed, InOrder
<1>2. /\ Len(s.order) \in Nat /\ a \in Blocks(s) /\ P(a) = k
      /\ \A j \in 1 .. Len(s.order) : s.order[j] \in Blocks(s) /\ P(s.order[j]) = j
      /\ \A b \in Blocks(s) : P(b) \in Nat
  BY <1>1, Position DEF InOrder
<1>3. \A b \in Blocks(s) : After(s, b) = {c \in Blocks(s) : P(b) < P(c)}
  BY <1>1, BeforeAndAfter
<1>4. /\ at \in [Blocks(s) -> Assignment] /\ DOMAIN at = Blocks(s)
      /\ \A b \in Blocks(s) : at[b].section = s.at[b].section /\ at[b].role = s.at[b].role /\ at[b].hidden = s.at[b].hidden
      /\ \A b \in Blocks(s) : at[b].para # 0 => at[b].para \in Blocks(s) /\ P(at[b].para) <= P(b)
  BY DEF Parted, GroupedAs
<1>5. tails = {b \in Blocks(s) : k < P(b) /\ ~at[b].hidden /\ at[b].para = at[a].para}
  BY <1>2, <1>3 DEF TailsOf
<1>6. tails # {} => e \in tails /\ \A b \in tails : P(e) <= P(b)
  <2>1. tails \in SUBSET Blocks(s)
    BY <1>5
  <2> HIDE DEF tails
  <2> QED
    BY <1>1, <2>1, Ends
<1>7. CASE a \notin anchors \/ at[a].para = 0
  <2>1. new = at
    BY <1>7 DEF PartAt
  <2>2. EndsAt(s, anchors, at, a)
    BY <1>7 DEF EndsAt
  <2>3. \A j \in 1 .. k : j = k \/ j \in 1 .. k - 1
    BY <1>2
  <2> HIDE DEF new
  <2>4. EndsTo(s, anchors, at, k - 1) => EndsTo(s, anchors, new, k)
    BY <2>1, <2>2, <2>3 DEF EndsTo
  <2>5. new \in Parted(s)
    BY <2>1
  <2> QED
    BY <2>4, <2>5 DEF new
<1>8. CASE a \in anchors /\ at[a].para # 0
  <2> DEFINE Back(b) == Latest(s, tails \cap Before(s, b))
             Now(b) == IF b \notin tails THEN at[b] ELSE [at[b] EXCEPT !.para = e, !.from = Back(b)]
  <2>1. new = [b \in Blocks(s) |-> Now(b)]
    BY <1>8 DEF PartAt
  <2>2. ASSUME NEW b \in Blocks(s)
        PROVE /\ Now(b) \in Assignment /\ Now(b).section = s.at[b].section /\ Now(b).role = s.at[b].role
              /\ Now(b).hidden = s.at[b].hidden /\ Now(b).para = IF b \in tails THEN e ELSE at[b].para
    <3>1. CASE b \notin tails
      BY <1>4, <3>1
    <3>2. CASE b \in tails
      <4>1. Back(b) \in Nat
        <5>1. tails \cap Before(s, b) \in SUBSET Blocks(s)
          BY <1>5
        <5> HIDE DEF tails
        <5>2. Back(b) \in Blocks(s) \cup {0}
          BY <1>1, <5>1, EndsOrNone
        <5> QED
          BY <1>1, <5>2
      <4>2. e \in Nat
        BY <1>1, <1>5, <1>6, <3>2
      <4>3. Now(b) = [at[b] EXCEPT !.para = e, !.from = Back(b)]
        BY <3>2
      <4>4. at[b] \in Assignment
        BY <1>4
      <4> HIDE DEF e, Back, Now, tails
      <4>5. /\ Now(b) \in Assignment /\ Now(b).section = at[b].section /\ Now(b).role = at[b].role
            /\ Now(b).hidden = at[b].hidden /\ Now(b).para = e
        BY <4>1, <4>2, <4>3, <4>4 DEF Assignment
      <4> QED
        BY <1>4, <3>2, <4>5
    <3> QED
      BY <3>1, <3>2
  <2> HIDE DEF Now, new, e
  <2>3. new \in [Blocks(s) -> Assignment] /\ DOMAIN new = Blocks(s) /\ \A b \in Blocks(s) : new[b] = Now(b)
    BY <2>1, <2>2
  <2>4. \A b \in Blocks(s) : new[b].para # 0 => new[b].para \in Blocks(s) /\ P(new[b].para) <= P(b)
    <3> SUFFICES ASSUME NEW b \in Blocks(s), new[b].para # 0 PROVE new[b].para \in Blocks(s) /\ P(new[b].para) <= P(b)
      OBVIOUS
    <3>1. CASE b \in tails
      <4>1. new[b].para = e /\ e \in tails /\ P(e) <= P(b)
        BY <1>6, <2>2, <2>3, <3>1
      <4> QED
        BY <1>5, <4>1
    <3>2. CASE b \notin tails
      BY <1>4, <2>2, <2>3, <3>2
    <3> HIDE DEF tails
    <3> QED
      BY <3>1, <3>2
  <2>5. new \in Parted(s)
    BY <2>2, <2>3, <2>4 DEF Parted, GroupedAs
  <2>6. ASSUME EndsTo(s, anchors, at, k - 1), NEW j \in 1 .. k PROVE EndsAt(s, anchors, new, s.order[j])
    <3> DEFINE c == s.order[j]
    <3>1. c \in Blocks(s) /\ P(c) = j /\ j <= k /\ j \in Nat
      BY <1>2
    <3> HIDE DEF c
    <3> SUFFICES ASSUME c \in anchors, new[c].para # 0, NEW b \in TailsOf(s, new, c) PROVE FALSE
      BY DEF EndsAt, c
    <3>2. c \notin tails
      BY <1>2, <1>5, <3>1
    <3>3. new[c].para = at[c].para /\ at[c].para \in Blocks(s) /\ P(at[c].para) <= j
      BY <1>4, <2>2, <2>3, <3>1, <3>2
    <3>4. b \in Blocks(s) /\ j < P(b) /\ ~at[b].hidden /\ new[b].para = at[c].para
      <4>1. b \in After(s, c) /\ ~new[b].hidden /\ new[b].para = new[c].para
        BY DEF TailsOf
      <4>2. b \in Blocks(s) /\ j < P(b)
        BY <1>3, <3>1, <4>1
      <4>3. new[b].hidden = at[b].hidden
        BY <1>4, <2>2, <2>3, <4>2
      <4> QED
        BY <3>3, <4>1, <4>2, <4>3
    <3>5. b \notin tails
      <4> SUFFICES ASSUME b \in tails PROVE FALSE
        OBVIOUS
      <4>1. e \in tails /\ new[b].para = e
        BY <1>6, <2>2, <2>3, <3>4
      <4>2. e \in Blocks(s) /\ k < P(e)
        BY <1>5, <4>1
      <4> QED
        BY <1>2, <3>1, <3>3, <3>4, <4>1, <4>2
    <3>6. at[b].para = at[c].para
      BY <2>2, <2>3, <3>4, <3>5
    <3>7. CASE j = k
      BY <1>5, <3>4, <3>5, <3>6, <3>7 DEF c
    <3>8. CASE j # k
      <4>1. j \in 1 .. k - 1
        BY <3>1, <3>8
      <4>2. TailsOf(s, at, c) = {}
        BY <2>6, <3>3, <4>1, <1>1 DEF EndsTo, EndsAt, c
      <4>3. b \in TailsOf(s, at, c)
        BY <1>3, <3>1, <3>4, <3>6 DEF TailsOf
      <4> QED
        BY <4>2, <4>3
    <3> QED
      BY <3>7, <3>8
  <2>7. EndsTo(s, anchors, at, k - 1) => EndsTo(s, anchors, new, k)
    BY <2>6 DEF EndsTo
  <2> QED
    BY <2>5, <2>7 DEF new
<1> QED
  BY <1>7, <1>8

\* No paragraph goes on behind an equation that stands in it.
Ended(s) ==
  \A v \in Equations(s) : v.anchor # 0 /\ s.at[v.anchor].para # 0 =>
    \A b \in After(s, v.anchor) \cap Visible(s) : s.at[b].para # s.at[v.anchor].para
LEMMA ReanchorEquationsKeeps ==
  ASSUME NEW s, Early(s), NEW to \in [Equations(s) -> Blocks(s) \cup {0}]
  PROVE  LET t == ReanchorEquations(s, to) IN Early(t) /\ Ended(t) /\ Blocks(t) = Blocks(s)
<1> DEFINE anchors == Range(to)
           n == Len(s.order)
           V == Parted(s)
           Step(at, a) == PartAt(s, anchors, at, a)
           step == [q \in (1 .. n) \X V |-> Step(q[2], s.order[q[1]])]
           Is(f) == f = [k \in 0 .. n |-> IF k = 0 THEN s.at ELSE Step(f[k - 1], s.order[k])]
           done == CHOOSE f : Is(f)
           To(v) == [v EXCEPT !.anchor = to[v]]
           vs == (s.visuals \ Equations(s)) \cup {To(v) : v \in Equations(s)}
           a == done[n]
           t == Rec(s.order, s.page, s.sections, s.references, a, vs)
<1>1. /\ Formed(s) /\ Structured(s) /\ InOrder(s) /\ s.at \in [Blocks(s) -> Assignment] /\ Anchored(s) /\ Resolved(s)
      /\ Nested(s) /\ Grouped(s) /\ Titled(s) /\ Uncut(s) /\ Blocks(s) \subseteq Nat \ {0}
  BY DEF Early, Formed, InOrder
<1>2. n \in Nat /\ s.at \in V
  BY <1>1, Position DEF InOrder, Parted, Grouped
<1>3. \A k \in 1 .. n, at \in V :
        Step(at, s.order[k]) \in V /\ (EndsTo(s, anchors, at, k - 1) => EndsTo(s, anchors, Step(at, s.order[k]), k))
  BY <1>1, PartAtKeeps
<1> HIDE DEF V, Step, anchors
<1>4. step \in [(1 .. n) \X V -> V] /\ \A k \in 1 .. n, at \in V : step[<<k, at>>] = Step(at, s.order[k])
  BY <1>3
<1> HIDE DEF step
<1>5. PICK h : Runs(h, n, V, s.at, step)
  BY <1>2, <1>4, Loop
<1>6. Is(h)
  <2>1. \A k \in 0 .. n : k # 0 => k \in 1 .. n /\ k - 1 \in 0 .. n
    BY <1>2
  <2>2. h \in [0 .. n -> V] /\ h[0] = s.at /\ \A k \in 1 .. n : h[k] = step[<<k, h[k - 1]>>]
    BY <1>5 DEF Runs
  <2>3. \A k \in 1 .. n : h[k - 1] \in V
    BY <1>2, <2>2
  <2>4. \A k \in 1 .. n : h[k] = Step(h[k - 1], s.order[k])
    BY <1>4, <2>2, <2>3
  <2> QED
    BY <2>1, <2>2, <2>4
<1>7. Is(done)
  BY <1>6
<1>8. a \in V /\ EndsTo(s, anchors, a, n)
  <2>1. done[0] = s.at /\ \A k \in 1 .. n : done[k] = Step(done[k - 1], s.order[k])
    <3>1. 0 \in 0 .. n /\ \A k \in 1 .. n : k \in 0 .. n /\ k # 0
      BY <1>2
    <3> HIDE DEF done, n
    <3> QED
      BY <1>7, <3>1
  <2> DEFINE T == {k \in 0 .. n : done[k] \in V /\ EndsTo(s, anchors, done[k], k)}
  <2>2. 0 \in T
    BY <1>2, <2>1 DEF EndsTo
  <2>3. ASSUME NEW k \in 1 .. n, k - 1 \in T PROVE k \in T
    <3> HIDE DEF done
    <3> QED
      BY <1>2, <1>3, <2>1, <2>3
  <2> HIDE DEF T
  <2>4. 0 .. n \subseteq T
    BY <1>2, <2>2, <2>3, UpTo
  <2>5. n \in T
    BY <1>2, <2>4
  <2> HIDE DEF done
  <2> QED
    BY <2>5 DEF T
<1>9. ReanchorEquations(s, to) = AtVisuals(s, a, vs)
  BY DEF ReanchorEquations, AtVisuals, done, Step, PartAt, anchors
<1> HIDE DEF a, done
<1>10. ASSUME NEW v \in Equations(s)
       PROVE  /\ To(v) \in Visual /\ To(v).anchor = to[v] /\ to[v] \in Blocks(s) \cup {0} /\ To(v).part = 0
              /\ to[v] \in anchors
  <2>1. v \in Visual /\ v.part = 0 /\ to[v] \in Blocks(s) \cup {0} /\ to[v] \in Nat
    BY <1>1 DEF Equations, Anchored, Uncut
  <2>2. to[v] \in anchors
    BY DEF anchors, Range
  <2> DEFINE e == to[v]
  <2> HIDE DEF e
  <2>3. [v EXCEPT !.anchor = e] \in Visual /\ [v EXCEPT !.anchor = e].anchor = e /\ [v EXCEPT !.anchor = e].part = v.part
    BY <2>1, AnchorMoves DEF e
  <2> QED
    BY <2>1, <2>2, <2>3 DEF e
<1> HIDE DEF To
<1>11. vs \subseteq Visual /\ \A v \in vs : v.anchor \in Blocks(s) \cup {0} /\ v.part = 0
  BY <1>1, <1>10 DEF Anchored, Uncut
<1>12. \A v \in vs : v.kind = "equation" => v.anchor \in anchors
  <2>1. \A v \in s.visuals \ Equations(s) : v.kind # "equation"
    BY DEF Equations
  <2> QED
    BY <1>10, <2>1
<1> HIDE DEF vs
<1>13. /\ a \in [Blocks(s) -> Assignment] /\ DOMAIN a = Blocks(s) /\ GroupedAs(s.order, a)
       /\ \A b \in Blocks(s) : a[b].section = s.at[b].section /\ a[b].role = s.at[b].role /\ a[b].hidden = s.at[b].hidden
  BY <1>8 DEF V, Parted
<1>14. ReanchorEquations(s, to) = t
  BY <1>1, <1>9, AtVisualsExcept
<1>15. Alongside(s, t) /\ t.sections = s.sections /\ t.at = a /\ t.visuals = vs
  BY <1>13, RecFields DEF Alongside
<1> HIDE DEF t
<1>16. Anchored(t) /\ Uncut(t)
  BY <1>11, <1>15 DEF Anchored, Uncut, Alongside
<1>17. Formed(t) /\ Nested(t)
  BY <1>1, <1>13, <1>15, <1>16, SectionsStay
<1>18. Titled(t) /\ Grouped(t)
  BY <1>1, <1>13, <1>15 DEF Titled, Grouped, Resolved, Alongside
<1>19. Ended(t)
  <2> SUFFICES ASSUME NEW v \in Equations(t), v.anchor # 0, t.at[v.anchor].para # 0,
                      NEW b \in After(t, v.anchor) \cap Visible(t)
               PROVE  t.at[b].para # t.at[v.anchor].para
    BY DEF Ended
  <2>1. v \in vs /\ v.kind = "equation" /\ v.anchor \in Blocks(s) /\ v.anchor \in anchors
    BY <1>11, <1>12, <1>15 DEF Equations
  <2>2. PICK k \in 1 .. n : s.order[k] = v.anchor
    BY <1>1, <2>1 DEF InOrder, Enumerates
  <2>3. TailsOf(s, a, v.anchor) = {}
    BY <1>8, <1>15, <2>1, <2>2 DEF EndsTo, EndsAt
  <2>4. b \in After(s, v.anchor) /\ ~a[b].hidden
    BY <1>15 DEF After, Place, Visible, Alongside
  <2> QED
    BY <1>15, <2>3, <2>4 DEF TailsOf
<1> QED
  BY <1>14, <1>15, <1>16, <1>17, <1>18, <1>19 DEF Early, Alongside

-----------------------------------------------------------------------------
(* What is kept of a sequence.                                              *)

\* r is what of o is in bs, in its order.
Sifted(o, bs, all, r) ==
  /\ Enumerates(r, all \cap bs)
  /\ \A b, c \in all \cap bs : Pos(o, b) < Pos(o, c) <=> Pos(r, b) < Pos(r, c)
LEMMA OnlyKeeps ==
  ASSUME NEW all, NEW o, Enumerates(o, all), NEW bs
  PROVE  Sifted(o, bs, all, Only(o, bs))
<1> DEFINE n == Len(o)
           V == Seq(all)
           P(b) == Pos(o, b)
           Step(r, b) == IF b \in bs THEN Append(r, b) ELSE r
           step == [q \in (1 .. n) \X V |-> Step(q[2], o[q[1]])]
           Is(f) == f = [k \in 0 .. n |-> IF k = 0 THEN <<>> ELSE Step(f[k - 1], o[k])]
           done == CHOOSE f : Is(f)
           So(k, r) == /\ r \in V /\ \A i \in 1 .. Len(r) : r[i] \in bs /\ P(r[i]) <= k
                       /\ \A i, j \in 1 .. Len(r) : i < j => P(r[i]) < P(r[j])
                       /\ \A m \in 1 .. k : o[m] \in bs => \E i \in 1 .. Len(r) : r[i] = o[m]
<1>1. /\ n \in Nat /\ <<>> \in V /\ \A k \in 1 .. n : o[k] \in all /\ P(o[k]) = k
      /\ \A b \in all : P(b) \in 1 .. n /\ o[P(b)] = b
  <2> HIDE DEF Enumerates
  <2> QED
    BY Position
<1>2. ASSUME NEW r \in V, NEW b \in all PROVE Step(r, b) \in V
  OBVIOUS
<1>3. ASSUME NEW r \in V, NEW k \in 1 .. n, So(k - 1, r) PROVE So(k, Step(r, o[k]))
  <2>1. k - 1 \in Nat /\ k \in Nat /\ o[k] \in all /\ P(o[k]) = k /\ Len(r) \in Nat
        /\ \A i \in 1 .. Len(r) : P(r[i]) \in Nat
    BY <1>1
  <2> HIDE DEF P, V, n
  <2>2. CASE o[k] \in bs
    <3> DEFINE w == Append(r, o[k])
    <3>1. w \in V /\ Len(w) = Len(r) + 1 /\ w[Len(r) + 1] = o[k] /\ \A i \in 1 .. Len(r) : w[i] = r[i]
      BY <2>1 DEF V
    <3>2. Step(r, o[k]) = w
      BY <2>2
    <3> HIDE DEF w, Step
    <3>3. \A i \in 1 .. Len(w) : i \in 1 .. Len(r) \/ i = Len(r) + 1
      BY <2>1, <3>1
    <3>4. \A i \in 1 .. Len(w) : w[i] \in bs /\ P(w[i]) <= k
      BY <1>3, <2>1, <2>2, <3>1, <3>3
    <3>5. \A i, j \in 1 .. Len(w) : i < j => P(w[i]) < P(w[j])
      BY <1>3, <2>1, <2>2, <3>1, <3>3
    <3>6. ASSUME NEW m \in 1 .. k, o[m] \in bs PROVE \E i \in 1 .. Len(w) : w[i] = o[m]
      <4>1. CASE m = k
        BY <2>1, <3>1, <4>1
      <4>2. CASE m # k
        <5>1. m \in 1 .. k - 1
          BY <4>2, <2>1
        <5>2. PICK i \in 1 .. Len(r) : r[i] = o[m]
          BY <1>3, <3>6, <5>1
        <5>3. i \in 1 .. Len(w) /\ w[i] = o[m]
          BY <2>1, <3>1, <5>2
        <5> QED
          BY <5>3
      <4> QED
        BY <4>1, <4>2
    <3> QED
      BY <3>1, <3>2, <3>4, <3>5, <3>6
  <2>3. CASE o[k] \notin bs
    <3>1. Step(r, o[k]) = r
      BY <2>3
    <3> HIDE DEF Step
    <3>2. \A m \in 1 .. k : o[m] \in bs => m \in 1 .. k - 1
      BY <2>1, <2>3
    <3> QED
      BY <1>3, <2>1, <3>1, <3>2
  <2> QED
    BY <2>2, <2>3
<1> HIDE DEF V, Step, So, n
<1>4. step \in [(1 .. n) \X V -> V] /\ \A k \in 1 .. n, r \in V : step[<<k, r>>] = Step(r, o[k])
  BY <1>1, <1>2
<1> HIDE DEF step
<1>5. PICK h : Runs(h, n, V, <<>>, step)
  BY <1>1, <1>4, Loop
<1>6. Is(h)
  <2>1. \A k \in 0 .. n : k # 0 => k \in 1 .. n /\ k - 1 \in 0 .. n
    BY <1>1
  <2>2. h \in [0 .. n -> V] /\ h[0] = <<>> /\ \A k \in 1 .. n : h[k] = step[<<k, h[k - 1]>>]
    BY <1>5 DEF Runs
  <2>3. \A k \in 1 .. n : h[k - 1] \in V
    BY <1>1, <2>2
  <2>4. \A k \in 1 .. n : h[k] = Step(h[k - 1], o[k])
    BY <1>4, <2>2, <2>3
  <2> QED
    BY <2>1, <2>2, <2>4
<1>7. Is(done)
  BY <1>6
<1>8. So(n, done[n])
  <2>1. done[0] = <<>> /\ \A k \in 1 .. n : done[k] = Step(done[k - 1], o[k])
    <3>1. 0 \in 0 .. n /\ \A k \in 1 .. n : k \in 0 .. n /\ k # 0
      BY <1>1
    <3> HIDE DEF done
    <3> QED
      BY <1>7, <3>1
  <2> DEFINE T == {k \in 0 .. n : So(k, done[k])}
  <2>2. 0 \in T
    <3>1. So(0, <<>>)
      BY <1>1 DEF So
    <3> HIDE DEF done
    <3> QED
      BY <1>1, <2>1, <3>1
  <2>3. ASSUME NEW k \in 1 .. n, k - 1 \in T PROVE k \in T
    <3>1. So(k - 1, done[k - 1]) /\ done[k - 1] \in V
      BY <2>3 DEF So
    <3> HIDE DEF done
    <3> QED
      BY <1>1, <1>3, <2>1, <3>1
  <2> HIDE DEF T
  <2>4. 0 .. n \subseteq T
    BY <1>1, <2>2, <2>3, UpTo
  <2>5. n \in T
    BY <1>1, <2>4
  <2> HIDE DEF done
  <2> QED
    BY <2>5 DEF T
<1> DEFINE r == done[n]
<1>9. Only(o, bs) = r
  BY DEF Only, done, Step, n
<1>10. /\ r \in V /\ \A i \in 1 .. Len(r) : r[i] \in bs /\ r[i] \in all
       /\ \A i, j \in 1 .. Len(r) : i < j => P(r[i]) < P(r[j])
       /\ \A m \in 1 .. n : o[m] \in bs => \E i \in 1 .. Len(r) : r[i] = o[m]
       /\ Len(r) \in Nat
  <2>1. So(n, r)
    BY <1>8
  <2> HIDE DEF r, done
  <2> QED
    BY <1>1, <2>1 DEF So, V
<1> HIDE DEF r
<1>11. Enumerates(r, all \cap bs)
  <2>1. r \in Seq(all \cap bs)
    <3>1. r \in [1 .. Len(r) -> all]
      BY <1>10 DEF V
    <3>2. r \in [1 .. Len(r) -> all \cap bs]
      BY <1>10, <3>1
    <3> QED
      BY <1>10, <3>2
  <2>2. \A b \in all \cap bs : \E i \in 1 .. Len(r) : r[i] = b
    BY <1>1, <1>10
  <2>3. \A i, j \in 1 .. Len(r) : r[i] = r[j] => i = j
    <3>1. \A i \in 1 .. Len(r) : P(r[i]) \in Nat
      BY <1>1, <1>10
    <3>2. \A i, j \in 1 .. Len(r) : i < j \/ j < i \/ i = j
      BY <1>10
    <3> HIDE DEF P
    <3> QED
      BY <1>10, <3>1, <3>2
  <2> QED
    BY <2>1, <2>2, <2>3 DEF Enumerates
<1>12. ASSUME NEW b \in all \cap bs, NEW c \in all \cap bs PROVE P(b) < P(c) <=> Pos(r, b) < Pos(r, c)
  <2>1. Pos(r, b) \in 1 .. Len(r) /\ Pos(r, c) \in 1 .. Len(r) /\ r[Pos(r, b)] = b /\ r[Pos(r, c)] = c
    BY <1>11, Position
  <2>2. P(b) \in Nat /\ P(c) \in Nat /\ (Pos(r, b) < Pos(r, c) \/ Pos(r, c) < Pos(r, b) \/ Pos(r, b) = Pos(r, c))
    BY <1>1, <1>10, <2>1
  <2> HIDE DEF P
  <2> QED
    BY <1>10, <2>1, <2>2
<1> QED
  BY <1>9, <1>11, <1>12 DEF Sifted

-----------------------------------------------------------------------------
(* The conversion: a paper's items in their own order.                      *)

LEMMA LastOfIs ==
  ASSUME NEW n \in Nat, NEW S \in SUBSET (1 .. n)
  PROVE  LastOf(S) \in S \cup {0} /\ FirstOf(S) \in S \cup {0}
<1>1. CASE S = {}
  BY <1>1 DEF LastOf, FirstOf
<1>2. CASE S # {}
  <2> DEFINE D == {n - i : i \in S}
  <2>1. D \subseteq Nat /\ D # {}
    <3>1. \A i \in S : i \in 1 .. n /\ n - i \in Nat
      OBVIOUS
    <3>2. D \subseteq Nat
      BY <3>1
    <3>3. \A i \in S : n - i \in D
      OBVIOUS
    <3> HIDE DEF D
    <3> QED
      BY <1>2, <3>2, <3>3
  <2>2. \E i \in S : \A j \in S : j <= i
    <3>1. PICK d \in D : \A e \in D : d <= e
      <4> HIDE DEF D
      <4> QED
        BY <2>1, LeastNatural
    <3>2. PICK i \in S : d = n - i
      OBVIOUS
    <3>3. \A j \in S : n - i <= n - j
      BY <3>1, <3>2
    <3> QED
      BY <3>3
  <2>3. \E i \in S : \A j \in S : i <= j
    <3>1. S \subseteq Nat
      OBVIOUS
    <3> QED
      BY <1>2, <3>1, LeastNatural
  <2>4. LastOf(S) \in S
    BY <1>2, <2>2 DEF LastOf
  <2>5. FirstOf(S) \in S
    BY <1>2, <2>3 DEF FirstOf
  <2> QED
    BY <2>4, <2>5
<1> QED
  BY <1>1, <1>2

LEMMA ItemsAre ==
  ASSUME NEW d \in Seq(Items)
  PROVE  /\ Len(d) \in Nat /\ DOMAIN d = 1 .. Len(d)
         /\ \A i \in DOMAIN d : d[i].kind \in Kinds /\ d[i].page \in Nat /\ d[i].level \in Nat /\ d[i].within \in Nat
         /\ TextItems(d) \subseteq 1 .. Len(d) /\ Crops(d) \subseteq 1 .. Len(d)
<1>1. Len(d) \in Nat /\ DOMAIN d = 1 .. Len(d) /\ \A i \in DOMAIN d : d[i] \in Items
  OBVIOUS
<1>2. \A x \in Items : x.kind \in Kinds /\ x.page \in Nat /\ x.level \in Nat /\ x.within \in Nat
  BY DEF Items
<1> QED
  BY <1>1, <1>2 DEF TextItems, Crops, VisualItems

\* What is assigned to the texts, as the conversion goes on; hs are the titles of sections.
Texts(d, hs, at) ==
  /\ at \in [TextItems(d) -> Assignment]
  /\ \A i \in TextItems(d) :
       /\ at[i].section \in hs \cup {0} /\ at[i].section <= i
       /\ at[i].para \in TextItems(d) \cup {0} /\ at[i].para <= i
       /\ at[i].from = 0 => at[i].para \in {0, i}
       /\ i \in hs => at[i].role \notin {"paragraph", "equation"}

LEMMA RecordsAre ==
  ASSUME NEW d \in Seq(Items), NEW f \in Overlaps(d), NEW title
  PROVE  LET at == Records(d, f, title) IN
         /\ at \in [TextItems(d) -> Assignment]
         /\ \A i \in TextItems(d) :
              /\ at[i].from = 0 /\ at[i].para \in {0, i}
              /\ at[i].role = "heading" => d[i].kind # "code"
<1> DEFINE Owners(i) == IF d[i].within # 0 THEN {d[i].within} ELSE f[i]
           Role(i) == IF Owners(i) # {} THEN "noise" ELSE IF i = title THEN "title" ELSE Label(d, i)
           Now(i) == [Assigned(Role(i)) EXCEPT !.owners = Owners(i), !.swallowed = Owners(i) # {},
                                               !.para = IF Role(i) \in {"paragraph",
                                               "footnote"} THEN i ELSE 0]
<1>1. Records(d, f, title) = [i \in TextItems(d) |-> Now(i)]
  BY DEF Records
<1>2. ASSUME NEW i \in TextItems(d)
      PROVE /\ Now(i) \in Assignment /\ Now(i).from = 0 /\ Now(i).para \in {0, i}
            /\ Now(i).role = "heading" => d[i].kind # "code"
  <2>1. d[i].kind \in Kinds \ {"figure", "table"} /\ d[i].within \in Nat /\ i \in Nat
    BY ItemsAre DEF TextItems
  <2>2. Owners(i) \in SUBSET Nat
    <3>1. f[i] \in SUBSET VisualItems(d)
      BY DEF Overlaps
    <3>2. VisualItems(d) \subseteq Nat
      BY ItemsAre DEF VisualItems
    <3> QED
      BY <2>1, <3>1, <3>2
  <2>3. Label(d, i) \in Roles /\ (Label(d, i) = "heading" => d[i].kind # "code")
    BY <2>1 DEF Label, Kinds, Roles, Semantic, Body, Translatable, FrontRoles
  <2>4. Role(i) \in Roles /\ (Role(i) = "heading" => d[i].kind # "code")
    BY <2>3, RoleNames
  <2> DEFINE o == Owners(i)
             q == Role(i)
             p == IF q \in {"paragraph", "footnote"} THEN i ELSE 0
             r == Assigned(q)
  <2>5. p \in {0, i} /\ p \in Nat
    BY <2>1
  <2>6. Now(i) = [r EXCEPT !.owners = o, !.swallowed = o # {}, !.para = p]
    OBVIOUS
  <2>7. r \in Assignment /\ r.role = q /\ r.from = 0
    BY <2>4 DEF Assigned, Assignment
  <2> HIDE DEF Owners, Role, Now, o, q, p, r
  <2>8. o \in SUBSET Nat
    BY <2>2 DEF o
  <2> DEFINE r1 == [r EXCEPT !.owners = o]
             w == o # {}
             r2 == [r1 EXCEPT !.swallowed = w]
  <2>9. r1 \in Assignment /\ r1.role = q /\ r1.from = 0
    BY <2>7, <2>8 DEF Assignment
  <2>10. w \in BOOLEAN
    OBVIOUS
  <2>11. Now(i) = [r2 EXCEPT !.para = p]
    BY <2>6
  <2> HIDE DEF r1, w
  <2>12. r2 \in Assignment /\ r2.role = q /\ r2.from = 0
    BY <2>9, <2>10 DEF Assignment
  <2> HIDE DEF r2
  <2>13. Now(i) \in Assignment /\ Now(i).role = q /\ Now(i).from = 0 /\ Now(i).para = p
    BY <2>5, <2>11, <2>12 DEF Assignment
  <2> QED
    BY <2>4, <2>5, <2>13 DEF q
<1> HIDE DEF Now
<1> QED
  BY <1>1, <1>2

LEMMA SectionedIs ==
  ASSUME NEW d \in Seq(Items), NEW at \in [TextItems(d) -> Assignment],
         \A i \in TextItems(d) : at[i].from = 0 /\ at[i].para \in {0, i}
  PROVE  Texts(d, HeadingsOf(at), Sectioned(d, at))
<1> DEFINE hs == HeadingsOf(at)
           S(i) == LastOf({h \in hs : h <= i})
           Listed(i) == S(i) # 0 /\ at[i].role = "paragraph" /\ d[S(i)].kind = "references"
           q(i) == IF Listed(i) THEN "reference" ELSE at[i].role
           Now(i) == [at[i] EXCEPT !.section = S(i), !.role = q(i)]
<1>1. /\ DOMAIN at = TextItems(d) /\ hs \subseteq TextItems(d) /\ TextItems(d) \subseteq 1 .. Len(d) /\ Len(d) \in Nat
      /\ \A h \in hs : at[h].role = "heading"
  BY ItemsAre DEF HeadingsOf
<1>2. Sectioned(d, at) = [i \in TextItems(d) |-> Now(i)]
  <2>1. \A i \in TextItems(d) : Now(i) = [at[i] EXCEPT !.section = S(i), !.role = IF Listed(i) THEN "reference" ELSE @]
    OBVIOUS
  <2> HIDE DEF Now
  <2> QED
    BY <1>1, <2>1 DEF Sectioned
<1>3. ASSUME NEW i \in TextItems(d)
      PROVE /\ Now(i) \in Assignment /\ Now(i).section \in hs \cup {0} /\ Now(i).section <= i
            /\ Now(i).para \in {0, i} /\ (i \in hs => Now(i).role \notin {"paragraph", "equation"})
  <2>1. S(i) \in hs \cup {0} /\ S(i) <= i /\ S(i) \in Nat /\ i \in Nat
    <3>1. {h \in hs : h <= i} \in SUBSET (1 .. Len(d))
      BY <1>1
    <3>2. S(i) \in {h \in hs : h <= i} \cup {0}
      <4> HIDE DEF hs
      <4> QED
        BY <1>1, <3>1, LastOfIs
    <3> HIDE DEF S, hs
    <3> QED
      BY <1>1, <3>2
  <2>2. at[i] \in Assignment /\ at[i].role \in Roles
    BY DEF Assignment
  <2>3. q(i) \in Roles /\ (i \in hs => q(i) = "heading")
    BY <1>1, <2>2, RoleNames
  <2> DEFINE r == at[i]
             x == S(i)
             y == q(i)
             r1 == [r EXCEPT !.section = x]
  <2>4. Now(i) = [r1 EXCEPT !.role = y]
    OBVIOUS
  <2>5. r \in Assignment /\ r.para \in {0, i}
    BY <2>2
  <2> HIDE DEF S, q, r, Now
  <2>6. r1 \in Assignment /\ r1.para \in {0, i} /\ r1.section = x
    BY <2>1, <2>5 DEF Assignment
  <2> HIDE DEF x, y, r1
  <2>7. Now(i) \in Assignment /\ Now(i).role = y /\ Now(i).para \in {0, i} /\ Now(i).section = x
    BY <2>3, <2>4, <2>6 DEF y, Assignment
  <2> QED
    BY <2>1, <2>3, <2>7 DEF x, y
<1> HIDE DEF Now, hs
<1>4. \A i \in TextItems(d) : i \in Nat /\ 0 <= i /\ i <= i
  BY <1>1
<1>5. \A i \in TextItems(d) : Now(i).para \in TextItems(d) \cup {0} /\ Now(i).para <= i
  BY <1>3, <1>4
<1> QED
  BY <1>2, <1>3, <1>5 DEF Texts, hs

\* One text is given its place in a paragraph, or none.
TextIs(d, hs, i, r) ==
  /\ r \in Assignment /\ r.section \in hs \cup {0} /\ r.section <= i
  /\ r.para \in TextItems(d) \cup {0} /\ r.para <= i
  /\ (r.from = 0 => r.para \in {0, i})
  /\ (i \in hs => r.role \notin {"paragraph", "equation"})
LEMMA TextsAre ==
  \A d, hs, at : Texts(d, hs, at) =>
    DOMAIN at = TextItems(d) /\ \A i \in TextItems(d) : TextIs(d, hs, i, at[i])
BY DEF Texts, TextIs

Placed(r, q, p, e) == [r EXCEPT !.role = q, !.para = p, !.from = e]
LEMMA TextIsGiven ==
  ASSUME NEW d \in Seq(Items), NEW hs, NEW i \in TextItems(d), NEW r, TextIs(d, hs, i, r),
         NEW q \in Roles,
         i \in hs => q \notin {"paragraph", "equation"},
         NEW p \in TextItems(d) \cup {0}, p <= i, NEW e \in Nat, e = 0 => p \in {0, i}
  PROVE  TextIs(d, hs, i, Placed(r, q, p, e))
<1>1. TextItems(d) \subseteq Nat
  BY ItemsAre
<1> DEFINE u == [r EXCEPT !.role = q]
           w == [u EXCEPT !.para = p]
           z == [w EXCEPT !.from = e]
<1>2. u \in Assignment /\ u.section = r.section /\ u.role = q
  BY DEF TextIs, Assignment
<1> HIDE DEF u
<1>3. w \in Assignment /\ w.section = r.section /\ w.role = q /\ w.para = p
  BY SMTT(40), <1>1, <1>2 DEF Assignment
<1> HIDE DEF w
<1>4. z \in Assignment /\ z.section = r.section /\ z.role = q /\ z.para = p /\ z.from = e
  BY <1>3 DEF Assignment
<1> HIDE DEF z
<1>5. TextIs(d, hs, i, z)
  BY <1>4 DEF TextIs
<1> QED
  BY <1>5 DEF z, w, u, Placed
LEMMA TextIsFlagged ==
  ASSUME NEW d, NEW hs, NEW i, NEW r, TextIs(d, hs, i, r), NEW e \in BOOLEAN
  PROVE  /\ TextIs(d, hs, i, [r EXCEPT !.swallowed = e]) /\ TextIs(d, hs, i, [r EXCEPT !.candidate = e])
         /\ TextIs(d, hs, i, [r EXCEPT !.attached = e]) /\ TextIs(d, hs, i, [r EXCEPT !.hidden = e])
<1>1. r \in Assignment
  BY DEF TextIs
<1>2. TextIs(d, hs, i, [r EXCEPT !.swallowed = e])
  <2> DEFINE u == [r EXCEPT !.swallowed = e]
  <2>1. u \in Assignment /\ u.section = r.section /\ u.role = r.role /\ u.para = r.para /\ u.from = r.from
    BY <1>1 DEF Assignment
  <2> HIDE DEF u
  <2>2. TextIs(d, hs, i, u)
    BY <2>1 DEF TextIs
  <2> QED
    BY <2>2 DEF u
<1>3. TextIs(d, hs, i, [r EXCEPT !.candidate = e])
  <2> DEFINE u == [r EXCEPT !.candidate = e]
  <2>1. u \in Assignment /\ u.section = r.section /\ u.role = r.role /\ u.para = r.para /\ u.from = r.from
    BY <1>1 DEF Assignment
  <2> HIDE DEF u
  <2>2. TextIs(d, hs, i, u)
    BY <2>1 DEF TextIs
  <2> QED
    BY <2>2 DEF u
<1>4. TextIs(d, hs, i, [r EXCEPT !.attached = e])
  <2> DEFINE u == [r EXCEPT !.attached = e]
  <2>1. u \in Assignment /\ u.section = r.section /\ u.role = r.role /\ u.para = r.para /\ u.from = r.from
    BY <1>1 DEF Assignment
  <2> HIDE DEF u
  <2>2. TextIs(d, hs, i, u)
    BY <2>1 DEF TextIs
  <2> QED
    BY <2>2 DEF u
<1>5. TextIs(d, hs, i, [r EXCEPT !.hidden = e])
  <2> DEFINE u == [r EXCEPT !.hidden = e]
  <2>1. u \in Assignment /\ u.section = r.section /\ u.role = r.role /\ u.para = r.para /\ u.from = r.from
    BY <1>1 DEF Assignment
  <2> HIDE DEF u
  <2>2. TextIs(d, hs, i, u)
    BY <2>1 DEF TextIs
  <2> QED
    BY <2>2 DEF u
<1> QED
  BY <1>2, <1>3, <1>4, <1>5

LEMMA PreserveCodeKeeps ==
  ASSUME NEW d \in Seq(Items), NEW hs, NEW at, Texts(d, hs, at), \A h \in hs : d[h].kind # "code",
         NEW joined \in SUBSET Joinable(d, at)
  PROVE  Texts(d, hs, PreserveCode(d, at, joined))
<1> DEFINE n(i) == Neighbour(d, at, i)
           Now(i) == IF d[i].kind # "code" \/ d[i].sound THEN at[i]
                     ELSE IF i \in joined THEN Placed(at[i], at[n(i)].role, at[n(i)].para, n(i))
                     ELSE [at[i] EXCEPT !.role = "verbatim", !.para = i]
<1>1. /\ DOMAIN at = TextItems(d) /\ TextItems(d) \subseteq 1 .. Len(d) /\ Len(d) \in Nat
      /\ \A i \in TextItems(d) : TextIs(d, hs, i, at[i])
  BY ItemsAre, TextsAre
<1>2. PreserveCode(d, at, joined) = [i \in TextItems(d) |-> Now(i)]
  BY <1>1 DEF PreserveCode, Placed
<1>3. ASSUME NEW i \in TextItems(d) PROVE TextIs(d, hs, i, Now(i))
  <2>1. CASE d[i].kind # "code" \/ d[i].sound
    BY <1>1, <2>1
  <2>2. CASE ~(d[i].kind # "code" \/ d[i].sound) /\ i \in joined
    <3> DEFINE m == n(i)
    <3>1. m # 0 /\ at[m].role \in Body
      BY <2>2 DEF Joinable
    <3>2. m \in TextItems(d) /\ m < i
      <4> DEFINE S == {j \in DOMAIN at : j < i /\ d[j].page = d[i].page /\ d[j].kind # "header"}
      <4>1. S \in SUBSET (1 .. Len(d))
        BY <1>1
      <4>2. m = LastOf(S)
        BY DEF Neighbour
      <4>3. m \in S
        <5> HIDE DEF S, m
        <5> QED
          BY <1>1, <3>1, <4>1, <4>2, LastOfIs
      <4> HIDE DEF m
      <4> QED
        BY <1>1, <4>3
    <3> DEFINE q == at[m].role
               p == at[m].para
    <3>3. TextIs(d, hs, m, at[m])
      BY <1>1, <3>2
    <3>4. q \in Roles /\ i \notin hs
      BY <2>2, <3>1, RoleNames
    <3>5. p \in TextItems(d) \cup {0} /\ p <= i /\ m \in Nat /\ m # 0
      <4>1. p \in TextItems(d) \cup {0} /\ p <= m /\ TextItems(d) \subseteq Nat /\ i \in Nat /\ m \in Nat
        BY <1>1, <3>2, <3>3 DEF TextIs
      <4> HIDE DEF p, m
      <4> QED
        BY <3>1, <3>2, <4>1
    <3>6. Now(i) = Placed(at[i], q, p, m)
      BY <2>2
    <3> HIDE DEF q, p, m, Now
    <3> QED
      BY <1>1, <3>4, <3>5, <3>6, TextIsGiven
  <2>3. CASE ~(d[i].kind # "code" \/ d[i].sound) /\ i \notin joined
    <3> DEFINE r == at[i]
               u == [r EXCEPT !.role = "verbatim"]
               w == [u EXCEPT !.para = i]
    <3>1. Now(i) = w
      BY <2>3
    <3>2. r \in Assignment /\ r.section \in hs \cup {0} /\ r.section <= i
      BY <1>1 DEF TextIs
    <3> HIDE DEF r, Now
    <3>3. u \in Assignment /\ u.section = r.section
      BY <3>2, RoleNames DEF Assignment
    <3> HIDE DEF u
    <3>4. i \in Nat /\ i <= i
      BY <1>1
    <3>5. w \in Assignment /\ w.section = r.section /\ w.para = i
      BY <3>3, <3>4 DEF Assignment
    <3> HIDE DEF w
    <3>6. i \notin hs
      BY <2>3
    <3> QED
      BY <3>1, <3>2, <3>4, <3>5, <3>6 DEF TextIs
  <2> HIDE DEF Now, n
  <2> QED
    BY <2>1, <2>2, <2>3
<1> HIDE DEF Now
<1> QED
  BY <1>2, <1>3 DEF Texts, TextIs

LEMMA CaptionedKeeps ==
  ASSUME NEW d \in Seq(Items), NEW hs, NEW at, Texts(d, hs, at), NEW m, NEW lines
  PROVE  Texts(d, hs, Captioned(d, at, m, lines))
<1> DEFINE Is(i) == (i \in DOMAIN lines /\ lines[i] # 0) \/ (i \in DOMAIN m /\ m[i] # 0)
           May(i) == i \in DOMAIN m /\ \E v \in Crops(d) : Fits(d, i, v)
           Now(i) == IF Is(i) THEN [Placed(at[i], "caption", 0, 0) EXCEPT !.swallowed = FALSE, !.candidate = TRUE,
                                                                             !.attached = TRUE]
                     ELSE [at[i] EXCEPT !.candidate = May(i)]
<1>1. /\ DOMAIN at = TextItems(d) /\ TextItems(d) \subseteq 1 .. Len(d) /\ Len(d) \in Nat
      /\ \A i \in TextItems(d) : TextIs(d, hs, i, at[i])
  BY ItemsAre, TextsAre
<1>2. Captioned(d, at, m, lines) = [i \in TextItems(d) |-> Now(i)]
  BY <1>1 DEF Captioned, Placed
<1>3. ASSUME NEW i \in TextItems(d) PROVE TextIs(d, hs, i, Now(i))
  <2>1. CASE Is(i)
    <3> DEFINE r == Placed(at[i], "caption", 0, 0)
    <3>1. TextIs(d, hs, i, r)
      <4>1. "caption" \in Roles /\ "caption" \notin {"paragraph", "equation"}
        BY RoleNames
      <4>2. 0 <= i /\ 0 \in Nat
        BY <1>1
      <4> QED
        BY <1>1, <4>1, <4>2, TextIsGiven
    <3>2. Now(i) = [r EXCEPT !.swallowed = FALSE, !.candidate = TRUE, !.attached = TRUE]
      BY <2>1
    <3> DEFINE u == [r EXCEPT !.swallowed = FALSE]
               w == [u EXCEPT !.candidate = TRUE]
               z == [w EXCEPT !.attached = TRUE]
    <3>3. Now(i) = z
      BY <3>2
    <3> HIDE DEF r, Now
    <3>4. TextIs(d, hs, i, u)
      BY <3>1, TextIsFlagged
    <3> HIDE DEF u
    <3>5. TextIs(d, hs, i, w)
      BY <3>4, TextIsFlagged
    <3> HIDE DEF w
    <3>6. TextIs(d, hs, i, z)
      BY <3>5, TextIsFlagged
    <3> HIDE DEF z
    <3> QED
      BY <3>3, <3>6
  <2>2. CASE ~Is(i)
    <3> DEFINE e == May(i)
    <3>1. Now(i) = [at[i] EXCEPT !.candidate = e]
      BY <2>2
    <3>2. e \in BOOLEAN
      OBVIOUS
    <3> DEFINE r == at[i]
               w == [r EXCEPT !.candidate = e]
    <3>3. TextIs(d, hs, i, r)
      BY <1>1
    <3> HIDE DEF e, r, Now
    <3>4. TextIs(d, hs, i, w)
      BY <3>2, <3>3, TextIsFlagged
    <3> QED
      BY <3>1, <3>4 DEF r
  <2> QED
    BY <2>1, <2>2
<1> HIDE DEF Now
<1> QED
  BY <1>2, <1>3 DEF Texts, TextIs

LEMMA ContinuedKeeps ==
  ASSUME NEW d \in Seq(Items), NEW hs, NEW at, Texts(d, hs, at)
  PROVE  Texts(d, hs, Continued(at, PageContinuation(d, at)))
<1> DEFINE plain == {i \in DOMAIN at : at[i].role = "paragraph"}
           next == FirstOf({i \in plain : d[i].page = 2})
           previous == LastOf({i \in plain : i < next})
           pairs == PageContinuation(d, at)
           To(i) == CHOOSE q \in pairs : q[2] = i
           Now(i) == IF \E p \in pairs : p[2] = i THEN [at[i] EXCEPT !.para = at[To(i)[1]].para, !.from = To(i)[1]] ELSE at[i]
<1>1. /\ DOMAIN at = TextItems(d) /\ TextItems(d) \subseteq 1 .. Len(d) /\ Len(d) \in Nat
      /\ \A i \in TextItems(d) : TextIs(d, hs, i, at[i])
  BY ItemsAre, TextsAre
<1>2. Continued(at, pairs) = [i \in TextItems(d) |-> Now(i)]
  BY <1>1 DEF Continued
<1>3. pairs # {} => previous \in TextItems(d) /\ next \in TextItems(d) /\ previous < next
  <2> SUFFICES ASSUME pairs # {} PROVE previous \in TextItems(d) /\ next \in TextItems(d) /\ previous < next
    OBVIOUS
  <2>1. next # 0 /\ previous # 0
    BY DEF PageContinuation
  <2> DEFINE S == {i \in plain : d[i].page = 2}
             T == {i \in plain : i < next}
  <2>2. S \in SUBSET (1 .. Len(d)) /\ T \in SUBSET (1 .. Len(d)) /\ S \subseteq TextItems(d) /\ T \subseteq TextItems(d)
    BY <1>1
  <2>3. \A i \in T : i < next
    OBVIOUS
  <2>4. FirstOf(S) \in S \cup {0} /\ LastOf(T) \in T \cup {0}
    <3> HIDE DEF S, T
    <3> QED
      BY <1>1, <2>2, LastOfIs
  <2>5. next = FirstOf(S) /\ previous = LastOf(T)
    OBVIOUS
  <2> HIDE DEF S, T, next, previous
  <2> QED
    BY <2>1, <2>2, <2>3, <2>4, <2>5
<1>4. pairs \subseteq {<<previous, next>>}
  BY DEF PageContinuation
<1> HIDE DEF next, previous, pairs
<1>5. ASSUME NEW i \in TextItems(d) PROVE TextIs(d, hs, i, Now(i))
  <2>1. CASE ~\E p \in pairs : p[2] = i
    BY <1>1, <2>1
  <2>2. CASE \E p \in pairs : p[2] = i
    <3>1. To(i) \in pairs
      BY <2>2
    <3>2. To(i) = <<previous, next>> /\ i = next
      BY <1>4, <2>2, <3>1
    <3> HIDE DEF To
    <3>3. To(i)[1] = previous /\ previous \in TextItems(d) /\ previous < i
      <4>1. pairs # {}
        BY <3>1
      <4>2. To(i)[1] = previous
        BY <3>2
      <4> QED
        BY <1>3, <3>2, <4>1, <4>2
    <3>4. Now(i) = [at[i] EXCEPT !.para = at[previous].para, !.from = previous]
      BY <2>2, <3>3
    <3> DEFINE r == at[i]
               p == at[previous].para
               u == [r EXCEPT !.para = p]
               w == [u EXCEPT !.from = previous]
    <3>5. Now(i) = w
      BY <3>4
    <3>6. TextIs(d, hs, i, r)
      BY <1>1
    <3>7. p \in TextItems(d) \cup {0} /\ p <= i /\ p \in Nat /\ previous \in Nat /\ previous # 0
      <4>1. TextIs(d, hs, previous, at[previous]) /\ previous \in Nat /\ i \in Nat /\ previous # 0
        BY <1>1, <3>3
      <4>2. p \in TextItems(d) \cup {0} /\ p <= previous /\ TextItems(d) \subseteq Nat
        BY <1>1, <4>1 DEF TextIs
      <4> HIDE DEF p
      <4> QED
        BY <3>3, <4>1, <4>2
    <3> HIDE DEF r, p, Now
    <3>8. u \in Assignment /\ u.section = r.section /\ u.role = r.role /\ u.para = p
      BY <3>6, <3>7 DEF TextIs, Assignment
    <3> HIDE DEF u
    <3>9. w \in Assignment /\ w.section = r.section /\ w.role = r.role /\ w.para = p /\ w.from = previous
      BY <3>7, <3>8 DEF Assignment
    <3> HIDE DEF w
    <3> QED
      BY <3>5, <3>6, <3>7, <3>9 DEF TextIs
  <2> QED
    BY <2>1, <2>2
<1> HIDE DEF Now
<1>6. Texts(d, hs, Continued(at, pairs))
  BY <1>2, <1>5 DEF Texts, TextIs
<1> QED
  BY <1>6 DEF pairs

LEMMA VisualsAre ==
  ASSUME NEW d \in Seq(Items), NEW at, DOMAIN at = TextItems(d), NEW m \in Alignments(d),
         NEW lines \in Lines(d, m), NEW v \in Crops(d)
  PROVE  LET x == [item |-> v, part |-> 0, kind |-> VisualKind(d[v].kind), page |-> d[v].page, anchor |-> AnchorOf(d, at, v),
                   captions |-> {c \in DOMAIN m : m[c] = v} \cup {c \in DOMAIN lines : lines[c] = v}]
         IN x \in Visual /\ x.part = 0 /\ x.anchor \in TextItems(d) \cup {0}
<1> DEFINE k == VisualKind(d[v].kind)
           p == d[v].page
           a == AnchorOf(d, at, v)
           cs == {c \in DOMAIN m : m[c] = v} \cup {c \in DOMAIN lines : lines[c] = v}
<1>1. /\ TextItems(d) \subseteq 1 .. Len(d) /\ Crops(d) \subseteq 1 .. Len(d) /\ Len(d) \in Nat
      /\ \A i \in DOMAIN d : d[i].page \in Nat /\ d[i].kind \in Kinds
  BY ItemsAre
<1>2. v \in Nat /\ v \in DOMAIN d /\ p \in Nat
  BY <1>1, ItemsAre
<1>3. k \in {"equation", "algorithm", "figure", "table"}
  BY DEF Crops, VisualItems, VisualKind
<1>4. a \in TextItems(d) \cup {0}
  <2> DEFINE before == {i \in Anchorable(d, at) : i <= v}
             page == {i \in Anchorable(d, at) : d[i].page = d[v].page}
             both == before \cap page
  <2>1. Anchorable(d, at) \subseteq TextItems(d)
    BY DEF Anchorable
  <2>2. before \in SUBSET (1 .. Len(d)) /\ page \in SUBSET (1 .. Len(d)) /\ both \in SUBSET (1 .. Len(d))
        /\ before \subseteq TextItems(d) /\ page \subseteq TextItems(d) /\ both \subseteq TextItems(d)
    BY <1>1, <2>1
  <2>3. a = IF both # {} THEN LastOf(both) ELSE IF before # {} THEN LastOf(before) ELSE LastOf(page)
    BY DEF AnchorOf
  <2> HIDE DEF before, page, both, a
  <2>4. LastOf(both) \in both \cup {0} /\ LastOf(before) \in before \cup {0} /\ LastOf(page) \in page \cup {0}
    BY <1>1, <2>2, LastOfIs
  <2> QED
    BY <2>2, <2>3, <2>4
<1>5. cs \in SUBSET Nat
  <2>1. DOMAIN m = Captions(d)
    BY DEF Alignments
  <2>2. DOMAIN lines = {i \in TextItems(d) : d[i].kind \in {"paragraph", "heading"}}
    BY DEF Lines
  <2>3. DOMAIN m \subseteq TextItems(d) /\ DOMAIN lines \subseteq TextItems(d)
    BY <2>1, <2>2 DEF Captions
  <2> QED
    BY <1>1, <2>3
<1> DEFINE x == [item |-> v, part |-> 0, kind |-> k, page |-> p, anchor |-> a, captions |-> cs]
<1>6. a \in Nat
  BY <1>1, <1>4
<1> HIDE DEF k, p, a, cs
<1>7. x \in Visual /\ x.part = 0 /\ x.anchor = a
  BY <1>2, <1>3, <1>5, <1>6 DEF Visual
<1> QED
  BY <1>4, <1>7 DEF k, p, a, cs

LEMMA OwnOrder ==
  ASSUME NEW n \in Nat
  PROVE  LET o == [i \in 1 .. n |-> i] IN Enumerates(o, 1 .. n) /\ \A b \in 1 .. n : Pos(o, b) = b
<1> DEFINE o == [i \in 1 .. n |-> i]
<1>1. o \in Seq(1 .. n) /\ Len(o) = n /\ \A i \in 1 .. n : o[i] = i
  OBVIOUS
<1> HIDE DEF o
<1>2. Enumerates(o, 1 .. n)
  BY <1>1 DEF Enumerates
<1>3. \A b \in 1 .. n : Pos(o, b) = b
  <2>1. \A i \in 1 .. n : Pos(o, o[i]) = i
    BY <1>1, <1>2, Position
  <2> QED
    BY <1>1, <2>1
<1> QED
  BY <1>2, <1>3 DEF o

LEMMA StructureKeeps ==
  ASSUME NEW d \in Seq(Items), NEW hs, hs \subseteq TextItems(d), NEW at, Texts(d, hs, at),
         NEW sections, DOMAIN sections = hs, \A h \in hs : sections[h] \in hs \cup {0} /\ (sections[h] # 0 => sections[h] < h),
         NEW m \in Alignments(d), NEW lines \in Lines(d, m)
  PROVE  LET t == Structure(d, at, sections, m, lines) IN Early(t) /\ Fresh(t) /\ Blocks(t) = TextItems(d)
<1> DEFINE B == TextItems(d)
           id == [i \in DOMAIN d |-> i]
           o == Only(id, DOMAIN at)
           pages == [i \in DOMAIN at |-> d[i].page]
           refs == {s \in DOMAIN sections : d[s].kind = "references"}
           Hide(i) == d[i].kind = "header" \/ at[i].swallowed
           Now(i) == [at[i] EXCEPT !.hidden = Hide(i), !.section = IF Hide(i) THEN 0 ELSE at[i].section]
           a == [i \in B |-> Now(i)]
           See(v) == [item |-> v, part |-> 0, kind |-> VisualKind(d[v].kind), page |-> d[v].page, anchor |-> AnchorOf(d, at, v),
                      captions |-> {c \in DOMAIN m : m[c] = v} \cup {c \in DOMAIN lines : lines[c] = v}]
           vs == {See(v) : v \in Crops(d)}
           t == Rec(o, pages, sections, refs, a, vs)
<1>1. /\ DOMAIN at = B /\ B \subseteq 1 .. Len(d) /\ Len(d) \in Nat /\ DOMAIN d = 1 .. Len(d)
      /\ \A i \in B : TextIs(d, hs, i, at[i])
  BY ItemsAre, TextsAre
<1>2. Structure(d, at, sections, m, lines) = t
  <2>1. a = [i \in DOMAIN at |-> LET hide == d[i].kind = "header" \/ at[i].swallowed
                                 IN [at[i] EXCEPT !.hidden = hide, !.section = IF hide THEN 0 ELSE @]]
    <3>1. \A i \in B : Now(i) = LET hide == d[i].kind = "header" \/ at[i].swallowed
                                IN [at[i] EXCEPT !.hidden = hide, !.section = IF hide THEN 0 ELSE @]
      OBVIOUS
    <3> HIDE DEF Now
    <3> QED
      BY <1>1, <3>1
  <2> HIDE DEF a
  <2> QED
    BY <2>1 DEF Structure, Rec
<1>3. ASSUME NEW i \in B
      PROVE /\ Now(i) \in Assignment /\ Now(i).section \in {at[i].section, 0} /\ Now(i).role = at[i].role
            /\ Now(i).para = at[i].para /\ Now(i).from = at[i].from
  <2> DEFINE r == at[i]
             e == Hide(i)
             x == IF e THEN 0 ELSE r.section
             u == [r EXCEPT !.hidden = e]
             w == [u EXCEPT !.section = x]
  <2>1. Now(i) = w
    OBVIOUS
  <2>2. r \in Assignment /\ e \in BOOLEAN
    BY <1>1 DEF TextIs
  <2>3. x \in {r.section, 0} /\ x \in Nat
    BY <2>2 DEF Assignment
  <2> HIDE DEF r, e, x, Now
  <2>4. u \in Assignment /\ u.role = r.role /\ u.para = r.para /\ u.from = r.from
    BY <2>2 DEF Assignment
  <2> HIDE DEF u
  <2>5. w \in Assignment /\ w.role = r.role /\ w.para = r.para /\ w.from = r.from /\ w.section = x
    BY <2>3, <2>4 DEF Assignment
  <2> QED
    BY <2>1, <2>3, <2>5 DEF r
<1>4. a \in [B -> Assignment] /\ DOMAIN a = B /\ \A i \in B : a[i] = Now(i)
  <2> HIDE DEF Now
  <2> QED
    BY <1>3
<1> HIDE DEF a, Now
<1>5. \A v \in vs : v \in Visual /\ v.part = 0 /\ v.anchor \in B \cup {0}
  <2>1. \A v \in Crops(d) : See(v) \in Visual /\ See(v).part = 0 /\ See(v).anchor \in B \cup {0}
    BY <1>1, VisualsAre
  <2> HIDE DEF See
  <2> QED
    BY <2>1
<1> HIDE DEF See, vs, o, refs, pages
<1>6. Structured(t) /\ Blocks(t) = B /\ t.order = o /\ t.sections = sections /\ t.at = a /\ t.visuals = vs
  BY <1>4, RecFields
<1> HIDE DEF t
<1>7. Enumerates(o, B) /\ \A b, c \in B : b < c <=> Pos(o, b) < Pos(o, c)
  <2>1. Enumerates(id, 1 .. Len(d)) /\ \A b \in 1 .. Len(d) : Pos(id, b) = b
    BY <1>1, OwnOrder
  <2> HIDE DEF id
  <2>2. Sifted(id, B, 1 .. Len(d), o)
    BY <1>1, <2>1, OnlyKeeps DEF o
  <2> DEFINE X == (1 .. Len(d)) \cap B
  <2>3. X = B
    BY <1>1
  <2>4. Enumerates(o, X) /\ \A b, c \in X : Pos(id, b) < Pos(id, c) <=> Pos(o, b) < Pos(o, c)
    BY <2>2 DEF Sifted
  <2> HIDE DEF B, X
  <2>5. \A b \in B : Pos(id, b) = b
    BY <1>1, <2>1
  <2> QED
    BY <2>3, <2>4, <2>5
<1>8. \A b \in B : Pos(o, b) \in Nat
  BY <1>7, Position
<1>9. \A b, c \in B : b <= c => Pos(o, b) <= Pos(o, c)
  <2> SUFFICES ASSUME NEW b \in B, NEW c \in B, b <= c PROVE Pos(o, b) <= Pos(o, c)
    OBVIOUS
  <2>1. b = c \/ b < c
    BY <1>1
  <2> QED
    BY <1>7, <1>8, <2>1
<1>10. ASSUME NEW i \in B
       PROVE /\ a[i].section \in hs \cup {0} /\ (a[i].section # 0 => a[i].section <= i)
             /\ a[i].para \in B \cup {0} /\ a[i].para <= i /\ (a[i].from = 0 => a[i].para \in {0, i})
             /\ (i \in hs => a[i].role \notin {"paragraph", "equation"})
  BY <1>1, <1>3, <1>4 DEF TextIs
<1>11. InOrder(t)
  <2>1. B \subseteq Nat \ {0}
    BY <1>1
  <2> QED
    BY <1>6, <1>7, <2>1 DEF InOrder
<1>12. Resolved(t) /\ Anchored(t)
  BY <1>5, <1>6, <1>10 DEF Resolved, Anchored
<1>13. Formed(t) /\ Uncut(t)
  BY <1>4, <1>5, <1>6, <1>11, <1>12 DEF Formed, Uncut
<1>14. Nested(t)
  BY <1>6, <1>7, <1>9, <1>10 DEF Nested
<1>15. Titled(t) /\ Fresh(t)
  BY <1>4, <1>6, <1>10 DEF Titled, Fresh, FreshAs
<1>16. Grouped(t)
  BY <1>4, <1>6, <1>9, <1>10 DEF Grouped, GroupedAs
<1> QED
  BY <1>2, <1>6, <1>13, <1>14, <1>15, <1>16 DEF Early

LEMMA ConversionIs ==
  ASSUME NEW d \in Seq(Items), NEW f \in Overlaps(d), NEW title, NEW link \in BOOLEAN,
         NEW joined \in SUBSET Joinable(d, Sectioned(d, Records(d, f, title))),
         NEW m \in Alignments(d), NEW lines \in Lines(d, m)
  PROVE  LET records == Records(d, f, title)
             texts == Captioned(d, PreserveCode(d, Sectioned(d, records), joined), m, lines)
             linked == IF link THEN Continued(texts, PageContinuation(d, texts)) ELSE texts
             t == Structure(d, linked, SectionsOf(d, records), m, lines)
         IN Early(t) /\ Fresh(t) /\ Blocks(t) = TextItems(d)
<1> DEFINE records == Records(d, f, title)
           hs == HeadingsOf(records)
           sectioned == Sectioned(d, records)
           code == PreserveCode(d, sectioned, joined)
           texts == Captioned(d, code, m, lines)
           linked == IF link THEN Continued(texts, PageContinuation(d, texts)) ELSE texts
           sections == SectionsOf(d, records)
<1>1. /\ records \in [TextItems(d) -> Assignment]
      /\ \A i \in TextItems(d) : /\ records[i].from = 0 /\ records[i].para \in {0, i}
                                 /\ records[i].role = "heading" => d[i].kind # "code"
  BY RecordsAre
<1> HIDE DEF records
<1>2. hs \subseteq TextItems(d) /\ \A h \in hs : d[h].kind # "code"
  BY <1>1 DEF HeadingsOf
<1>3. Texts(d, hs, sectioned)
  BY <1>1, SectionedIs
<1>4. DOMAIN sections = hs /\ \A h \in hs : sections[h] \in hs \cup {0} /\ (sections[h] # 0 => sections[h] < h)
  <2> DEFINE S(h) == {g \in hs : g < h /\ d[g].level < d[h].level}
  <2>1. sections = [h \in hs |-> LastOf(S(h))]
    BY DEF SectionsOf
  <2>2. ASSUME NEW h \in hs PROVE LastOf(S(h)) \in S(h) \cup {0}
    <3>1. S(h) \in SUBSET (1 .. Len(d)) /\ Len(d) \in Nat
      BY <1>2, ItemsAre
    <3> HIDE DEF S
    <3> QED
      BY <3>1, LastOfIs
  <2>3. \A h \in hs : sections[h] = LastOf(S(h))
    BY <2>1
  <2>4. \A h \in hs : \A x \in S(h) : x \in hs /\ x < h
    OBVIOUS
  <2>5. DOMAIN sections = hs
    BY <2>1
  <2> HIDE DEF S, sections, hs
  <2> QED
    BY <2>2, <2>3, <2>4, <2>5
<1> HIDE DEF hs, sectioned, sections
<1>5. joined \in SUBSET Joinable(d, sectioned)
  BY DEF sectioned, records
<1>6. Texts(d, hs, code)
  BY <1>2, <1>3, <1>5, PreserveCodeKeeps
<1> HIDE DEF code
<1>7. Texts(d, hs, texts)
  BY <1>6, CaptionedKeeps
<1> HIDE DEF texts
<1>8. Texts(d, hs, linked)
  BY <1>7, ContinuedKeeps
<1> HIDE DEF linked
<1>9. Early(Structure(d, linked, sections, m, lines)) /\ Fresh(Structure(d, linked, sections, m, lines))
      /\ Blocks(Structure(d, linked, sections, m, lines)) = TextItems(d)
  BY <1>2, <1>4, <1>8, StructureKeeps
<1> QED
  BY <1>9 DEF linked, texts, code, sectioned, sections, records

-----------------------------------------------------------------------------
(* Pictures that are cut, and panels that are merged.                       *)

\* A picture has been cut, and what it was cut into has captions.
Cut(s) == \E v \in s.visuals : v.kind = "figure" /\ v.part # 0
Labelled(s) == \A v \in s.visuals : v.kind = "figure" /\ v.part # 0 => v.captions # {}
Recut(s) == Formed(s) /\ Rooted(s) /\ (Cut(s) \/ Nested(s)) /\ Labelled(s)
Merged(s) == Formed(s) /\ (Cut(s) \/ Rooted(s))

LEMMA NestedIsRooted ==
  ASSUME NEW s, Formed(s), \A x \in DOMAIN s.sections : s.sections[x] # 0 => Pos(s.order, s.sections[x]) < Pos(s.order, x)
  PROVE  Rooted(s)
<1> SUFFICES ASSUME NEW X \in SUBSET DOMAIN s.sections, X # {} PROVE \E x \in X : s.sections[x] \notin X
  BY DEF Rooted
<1> DEFINE P(x) == Pos(s.order, x)
<1>1. X \subseteq Blocks(s) /\ 0 \notin X /\ \A b \in Blocks(s) : P(b) \in Nat
  BY Position DEF Formed, Resolved, InOrder
<1>2. PICK x \in X : \A y \in X : P(x) <= P(y)
  <2>1. {P(y) : y \in X} \subseteq Nat /\ {P(y) : y \in X} # {}
    BY <1>1
  <2> HIDE DEF P
  <2>2. PICK n \in {P(y) : y \in X} : \A m \in {P(y) : y \in X} : n <= m
    BY <2>1, LeastNatural
  <2> QED
    BY <2>2
<1>3. s.sections[x] \notin X
  <2> SUFFICES ASSUME s.sections[x] \in X PROVE FALSE
    OBVIOUS
  <2>1. P(s.sections[x]) < P(x) /\ P(x) <= P(s.sections[x])
    BY <1>1, <1>2
  <2> QED
    BY <1>1, <2>1
<1> QED
  BY <1>3

\* What a pass may assign and have for visuals, that leaves the order and the sections.
Replaced(s, a, vs, t) ==
  /\ Formed(t) /\ t.order = s.order /\ t.page = s.page /\ t.sections = s.sections /\ t.at = a /\ t.visuals = vs
  /\ Blocks(t) = Blocks(s) /\ (Rooted(s) => Rooted(t))
LEMMA ReplacedIs ==
  ASSUME NEW s, Formed(s), NEW a \in [Blocks(s) -> Assignment], \A b \in Blocks(s) : a[b].section \in DOMAIN s.sections \cup {0},
         NEW vs, vs \subseteq Visual, \A v \in vs : v.anchor \in Blocks(s) \cup {0},
         NEW t, t = AtVisuals(s, a, vs) \/ (vs = s.visuals /\ t = [s EXCEPT !.at = a])
  PROVE  Replaced(s, a, vs, t)
<1>1. t = Rec(s.order, s.page, s.sections, s.references, a, vs)
  <2>1. CASE t = AtVisuals(s, a, vs)
    BY <2>1, AtVisualsExcept DEF Formed
  <2>2. CASE vs = s.visuals /\ t = [s EXCEPT !.at = a]
    BY <2>2, AtExcept DEF Formed
  <2> QED
    BY <2>1, <2>2
<1>2. DOMAIN a = Blocks(s)
  OBVIOUS
<1>3. /\ Structured(t) /\ Blocks(t) = Blocks(s) /\ t.order = s.order /\ t.page = s.page
      /\ t.sections = s.sections /\ t.at = a /\ t.visuals = vs
  BY <1>1, <1>2, RecFields
<1>4. InOrder(t) /\ Anchored(t) /\ Resolved(t)
  BY <1>3 DEF InOrder, Anchored, Resolved, Formed
<1>5. Rooted(s) => Rooted(t)
  BY <1>3 DEF Rooted
<1> QED
  BY <1>3, <1>4, <1>5 DEF Replaced, Formed

LEMMA RecoveredIs ==
  ASSUME NEW r \in Assignment, NEW q \in Roles, NEW x \in Nat, NEW p \in Nat, NEW e \in Nat
  PROVE  Recovered(r, q, x, p, e) \in Assignment /\ Recovered(r, q, x, p, e).section = x
<1> DEFINE r1 == [r EXCEPT !.role = q]
           r2 == [r1 EXCEPT !.section = x]
           r3 == [r2 EXCEPT !.para = p]
           r4 == [r3 EXCEPT !.from = e]
           r5 == [r4 EXCEPT !.hidden = FALSE]
           r6 == [r5 EXCEPT !.swallowed = FALSE]
           r7 == [r6 EXCEPT !.owners = {}]
           w == q = "caption"
           r8 == [r7 EXCEPT !.candidate = w]
           r9 == [r8 EXCEPT !.attached = w]
<1>1. Recovered(r, q, x, p, e) = r9
  BY DEF Recovered
<1>2. w \in BOOLEAN
  OBVIOUS
<1> HIDE DEF w
<1>3. r2 \in Assignment /\ r2.section = x
  <2>1. r1 \in Assignment
    BY DEF Assignment
  <2> HIDE DEF r1
  <2> QED
    BY <2>1 DEF Assignment
<1> HIDE DEF r2
<1>4. r4 \in Assignment /\ r4.section = x
  <2>1. r3 \in Assignment /\ r3.section = x
    BY <1>3 DEF Assignment
  <2> HIDE DEF r3
  <2> QED
    BY <2>1 DEF Assignment
<1> HIDE DEF r4
<1>5. r6 \in Assignment /\ r6.section = x
  <2>1. r5 \in Assignment /\ r5.section = x
    BY <1>4 DEF Assignment
  <2> HIDE DEF r5
  <2> QED
    BY <2>1 DEF Assignment
<1> HIDE DEF r6
<1>6. r8 \in Assignment /\ r8.section = x
  <2>1. r7 \in Assignment /\ r7.section = x
    BY <1>5 DEF Assignment
  <2> HIDE DEF r7
  <2> QED
    BY <1>2, <2>1 DEF Assignment
<1> HIDE DEF r8
<1>7. r9 \in Assignment /\ r9.section = x
  BY <1>2, <1>6 DEF Assignment
<1> HIDE DEF r9
<1> QED
  BY <1>1, <1>7

LEMMA RecoveredRange ==
  \A r, q, x, p, e : r \in Assignment /\ q \in Roles /\ x \in Nat /\ p \in Nat /\ e \in Nat =>
    Recovered(r, q, x, p, e) \in Assignment /\ Recovered(r, q, x, p, e).section = x
BY RecoveredIs

LEMMA BaseSectionIs ==
  ASSUME NEW s, Formed(s), NEW v \in s.visuals
  PROVE  BaseSection(s, v) \in DOMAIN s.sections \cup {0} /\ BaseSection(s, v) \in Nat
BY DEF BaseSection, Formed, Resolved, Anchored, InOrder

LEMMA CutPictureKeeps ==
  ASSUME NEW s, Early(s), NEW v \in s.visuals, v.kind = "figure", NEW n \in Nat \ {0},
         NEW captions \in [1 .. n -> SUBSET Blocks(s)],
         \A i \in 1 .. n : captions[i] # {}
  PROVE  LET t == CutPicture(s, v, captions)
         IN Replaced(s, t.at, t.visuals, t) /\ Cut(t) /\ Labelled(t)
<1> DEFINE base == BaseSection(s, v)
           all == UNION Range(captions)
           Now(b) == IF b \in all THEN Recovered(s.at[b], "caption", base, 0, 0) ELSE s.at[b]
           a == [b \in Blocks(s) |-> Now(b)]
           Part(i) == [v EXCEPT !.part = i, !.captions = captions[i]]
           vs == (s.visuals \ {v}) \cup {Part(i) : i \in 1 .. n}
           t == CutPicture(s, v, captions)
<1>1. /\ Formed(s) /\ s.at \in [Blocks(s) -> Assignment] /\ s.visuals \subseteq Visual /\ v \in Visual /\ Blocks(s) \subseteq Nat
      /\ \A w \in s.visuals : w.anchor \in Blocks(s) \cup {0} /\ w.part = 0
      /\ \A b \in Blocks(s) : s.at[b].section \in DOMAIN s.sections \cup {0}
  BY DEF Early, Formed, Anchored, Resolved, Uncut, InOrder
<1>2. base \in DOMAIN s.sections \cup {0} /\ base \in Nat
  BY <1>1, BaseSectionIs
<1>3. t = AtVisuals(s, a, vs)
  BY DEF CutPicture, AtVisuals
<1> HIDE DEF base, all, t
<1>4. ASSUME NEW b \in Blocks(s) PROVE Now(b) \in Assignment /\ Now(b).section \in DOMAIN s.sections \cup {0}
  <2> DEFINE r == Recovered(s.at[b], "caption", base, 0, 0)
  <2>1. s.at[b] \in Assignment /\ "caption" \in Roles /\ 0 \in Nat
    BY <1>1, RoleNames
  <2> DEFINE e == s.at[b]
             q == "caption"
  <2> HIDE DEF e, q
  <2>4. Recovered(e, q, base, 0, 0) \in Assignment /\ Recovered(e, q, base, 0, 0).section = base
    <3>1. e \in Assignment /\ q \in Roles /\ base \in Nat
      BY <1>2, <2>1 DEF e, q
    <3>2. \A x, p \in Nat : Recovered(e, q, x, p, p) \in Assignment /\ Recovered(e, q, x, p, p).section = x
      BY <3>1, RecoveredIs
    <3> QED
      BY <2>1, <3>1, <3>2
  <2>2. r \in Assignment /\ r.section = base
    BY <2>4 DEF e, q
  <2>3. Now(b) = r \/ Now(b) = s.at[b]
    OBVIOUS
  <2> HIDE DEF r, Now
  <2> QED
    BY <1>1, <1>2, <2>2, <2>3
<1> HIDE DEF Now
<1>5. a \in [Blocks(s) -> Assignment] /\ \A b \in Blocks(s) : a[b].section \in DOMAIN s.sections \cup {0}
  BY <1>4
<1>6. ASSUME NEW i \in 1 .. n
      PROVE  /\ Part(i) \in Visual /\ Part(i).anchor = v.anchor /\ Part(i).part = i /\ Part(i).kind = v.kind
             /\ Part(i).captions # {}
  <2> DEFINE u == [v EXCEPT !.part = i]
             c == captions[i]
             w == [u EXCEPT !.captions = c]
  <2>1. i \in Nat /\ c \in SUBSET Nat /\ c # {}
    BY <1>1
  <2>2. u \in Visual /\ u.anchor = v.anchor /\ u.part = i /\ u.kind = v.kind
    BY <1>1, <2>1 DEF Visual
  <2> HIDE DEF u, c
  <2>3. w \in Visual /\ w.anchor = v.anchor /\ w.part = i /\ w.kind = v.kind /\ w.captions = c
    BY <2>1, <2>2 DEF Visual
  <2>4. Part(i) = w
    BY DEF u, c
  <2> HIDE DEF w, Part
  <2> QED
    BY <2>1, <2>3, <2>4
<1> HIDE DEF Part
<1>7. vs \subseteq Visual /\ \A w \in vs : w.anchor \in Blocks(s) \cup {0}
  BY <1>1, <1>6
<1>8. Part(1) \in vs /\ Part(1).kind = "figure" /\ Part(1).part # 0
  BY <1>6
<1>9. \A w \in vs : w.part # 0 => w.captions # {}
  BY <1>1, <1>6
<1> HIDE DEF a, vs
<1>10. Replaced(s, a, vs, t)
  BY <1>1, <1>3, <1>5, <1>7, ReplacedIs
<1>11. t.at = a /\ t.visuals = vs
  BY <1>10 DEF Replaced
<1>12. Cut(t) /\ Labelled(t)
  BY <1>8, <1>9, <1>11 DEF Cut, Labelled
<1>13. Replaced(s, t.at, t.visuals, t) /\ Cut(t) /\ Labelled(t)
  BY <1>10, <1>11, <1>12
<1> QED
  BY <1>13 DEF t

\* Sections that are added under one that was there, or none.
LEMMA StillRooted ==
  ASSUME NEW s, NEW t, Formed(s), Rooted(s), DOMAIN s.sections \subseteq DOMAIN t.sections,
         \A x \in DOMAIN s.sections : t.sections[x] = s.sections[x],
         \A x \in DOMAIN t.sections \ DOMAIN s.sections : t.sections[x] \in DOMAIN s.sections \cup {0},
         0 \notin DOMAIN t.sections
  PROVE  Rooted(t)
<1> SUFFICES ASSUME NEW X \in SUBSET DOMAIN t.sections, X # {} PROVE \E x \in X : t.sections[x] \notin X
  BY DEF Rooted
<1> DEFINE Y == X \cap DOMAIN s.sections
<1>1. CASE Y = {}
  <2>1. PICK x \in X : x \notin DOMAIN s.sections
    BY <1>1
  <2>2. t.sections[x] \notin X
    BY <1>1, <2>1
  <2> QED
    BY <2>2
<1>2. CASE Y # {}
  <2>1. PICK x \in Y : s.sections[x] \notin Y
    BY <1>2 DEF Rooted
  <2>2. s.sections[x] \in DOMAIN s.sections \cup {0}
    BY <2>1 DEF Formed, Resolved
  <2>3. t.sections[x] \notin X
    BY <2>1, <2>2
  <2> QED
    BY <2>1, <2>3
<1> QED
  BY <1>1, <1>2

\* Where the released text has got to, line by line.
Acc(a, x, ss, h, l) == [at |-> a, section |-> x, sections |-> ss, head |-> h, last |-> l]
SectionMaps(s) == {s.sections} \cup UNION {[D -> Nat] : D \in SUBSET Blocks(s)}
AllAccs(s) == [at : [Blocks(s) -> Assignment], section : Nat, sections : SectionMaps(s), head : Nat, last : Nat]
Gathered(s, base, a, x, ss) ==
  /\ DOMAIN s.sections \subseteq DOMAIN ss /\ DOMAIN ss \subseteq Blocks(s) /\ x \in DOMAIN ss \cup {0}
  /\ \A y \in DOMAIN s.sections : ss[y] = s.sections[y]
  /\ \A y \in DOMAIN ss \ DOMAIN s.sections : ss[y] = base
  /\ \A b \in Blocks(s) : a[b].section \in DOMAIN ss \cup {0}
Accs(s, base) == {acc \in AllAccs(s) : Gathered(s, base, acc.at, acc.section, acc.sections)}

LEMMA AccExcept ==
  \A a, x, ss, h, l, e :
    LET acc == Acc(a, x, ss, h, l) IN
    /\ [acc EXCEPT !.at = e] = Acc(e, x, ss, h, l)
    /\ [acc EXCEPT !.section = e] = Acc(a, e, ss, h, l)
    /\ [acc EXCEPT !.sections = e] = Acc(a, x, e, h, l)
    /\ [acc EXCEPT !.head = e] = Acc(a, x, ss, e, l)
    /\ [acc EXCEPT !.last = e] = Acc(a, x, ss, h, e)
BY DEF Acc
LEMMA AccIs ==
  \A s, base, acc :
    acc \in Accs(s, base) =>
      /\ acc = Acc(acc.at, acc.section, acc.sections, acc.head, acc.last)
      /\ acc.at \in [Blocks(s) -> Assignment] /\ acc.section \in Nat /\ acc.sections \in SectionMaps(s)
      /\ acc.head \in Nat /\ acc.last \in Nat /\ Gathered(s, base, acc.at, acc.section, acc.sections)
BY DEF Accs, AllAccs, Acc
LEMMA AccOf ==
  \A s, base, a, x, ss, h, l :
    a \in [Blocks(s) -> Assignment] /\ x \in Nat /\ ss \in SectionMaps(s) /\ h \in Nat /\ l \in Nat /\ Gathered(s, base, a, x, ss)
      => Acc(a, x, ss, h, l) \in Accs(s, base)
BY DEF Accs, AllAccs, Acc

\* One line of the released text.
LineOf(base, as, starts, acc, b) ==
  CASE as[b] = "equation" ->
         [acc EXCEPT !.at[b] = Recovered(@, "equation", acc.section, 0, 0), !.head = 0]
    [] as[b] = "heading" ->
         [acc EXCEPT !.at[b] = Recovered(@, "heading", b, 0, 0), !.head = 0, !.section = b,
                     !.sections = IF b \in DOMAIN @ THEN @ ELSE With(@, b, base)]
    [] OTHER ->
         LET new == acc.head = 0 \/ b \in starts
             head == IF new THEN b ELSE acc.head
         IN [acc EXCEPT !.at[b] = Recovered(@, "paragraph", acc.section, head, IF new THEN 0 ELSE acc.last),
                        !.head = head, !.last = b]

LEMMA LineKeeps ==
  ASSUME NEW s, Formed(s), NEW base \in Nat, NEW as, NEW starts,
         NEW acc \in Accs(s, base), NEW b \in Blocks(s)
  PROVE  LineOf(base, as, starts, acc, b) \in Accs(s, base)
<1> DEFINE a == acc.at
           x == acc.section
           ss == acc.sections
           h == acc.head
           l == acc.last
           Put(r) == [a EXCEPT ![b] = r]
<1>1. /\ acc = Acc(a, x, ss, h, l) /\ a \in [Blocks(s) -> Assignment] /\ x \in Nat /\ ss \in SectionMaps(s)
      /\ h \in Nat /\ l \in Nat /\ Gathered(s, base, a, x, ss)
  BY AccIs
<1>2. /\ a[b] \in Assignment /\ b \in Nat
      /\ \A y \in DOMAIN ss : y \in Blocks(s) /\ ss[y] \in Nat
  <2>1. \A y \in DOMAIN s.sections : s.sections[y] \in Nat
    BY DEF Formed, Resolved, InOrder
  <2> QED
    BY <1>1, <2>1 DEF Gathered, Formed, InOrder
<1>3. ASSUME NEW r \in Assignment
      PROVE Put(r) \in [Blocks(s) -> Assignment] /\ Put(r)[b] = r /\ \A c \in Blocks(s) \ {b} : Put(r)[c] = a[c]
  BY <1>1
<1> HIDE DEF a, x, ss, h, l
<1>4. CASE as[b] = "equation"
  <2> DEFINE r == Recovered(a[b], "equation", x, 0, 0)
  <2>1. r \in Assignment /\ r.section = x
    <3>1. "equation" \in Roles /\ 0 \in Nat
      BY RoleNames
    <3> QED
      BY <1>1, <1>2, <3>1, RecoveredRange
  <2>2. LineOf(base, as, starts, acc, b) = Acc(Put(r), x, ss, 0, l)
    <3>1. LineOf(base, as, starts, acc, b) = [[acc EXCEPT !.at = Put(r)] EXCEPT !.head = 0]
      BY <1>4 DEF LineOf, a, x
    <3> HIDE DEF r
    <3> HIDE DEF Put
    <3>2. [acc EXCEPT !.at = Put(r)] = Acc(Put(r), x, ss, h, l)
      BY <1>1 DEF Acc
    <3>3. [Acc(Put(r), x, ss, h, l) EXCEPT !.head = 0] = Acc(Put(r), x, ss, 0, l)
      BY AccExcept
    <3> QED
      BY <3>1, <3>2, <3>3
  <2> HIDE DEF r, Put
  <2>3. Put(r) \in [Blocks(s) -> Assignment] /\ Gathered(s, base, Put(r), x, ss)
    <3>1. Put(r) \in [Blocks(s) -> Assignment] /\ Put(r)[b] = r /\ \A c \in Blocks(s) \ {b} : Put(r)[c] = a[c]
      BY <1>3, <2>1
    <3> QED
      BY <1>1, <2>1, <3>1 DEF Gathered
  <2>4. 0 \in Nat
    OBVIOUS
  <2> QED
    BY <1>1, <2>2, <2>3, <2>4, AccOf
<1>5. CASE as[b] = "heading"
  <2> DEFINE r == Recovered(a[b], "heading", b, 0, 0)
             tt == IF b \in DOMAIN ss THEN ss ELSE With(ss, b, base)
  <2>1. r \in Assignment /\ r.section = b
    <3>1. "heading" \in Roles /\ 0 \in Nat
      BY RoleNames
    <3> QED
      BY <1>1, <1>2, <3>1, RecoveredRange
  <2>2. /\ DOMAIN tt = DOMAIN ss \cup {b} /\ tt \in SectionMaps(s) /\ \A y \in DOMAIN ss : tt[y] = ss[y]
        /\ b \notin DOMAIN ss => tt[b] = base
    <3> DEFINE D == DOMAIN ss
    <3>2. CASE b \in DOMAIN ss
      BY <1>1, <3>2
    <3>3. CASE b \notin DOMAIN ss
      <4> DEFINE Old(y) == IF y = b THEN base ELSE ss[y]
      <4>0. \A y \in D \cup {b} : Old(y) \in Nat
        BY <1>2
      <4>1. tt = [y \in D \cup {b} |-> Old(y)]
        BY <3>3 DEF With
      <4>4. Old(b) = base /\ \A y \in D : y # b => Old(y) = ss[y]
        OBVIOUS
      <4> HIDE DEF Old, tt
      <4>2. tt \in [D \cup {b} -> Nat] /\ D \cup {b} \in SUBSET Blocks(s)
        BY <1>2, <4>0, <4>1
      <4>3. tt \in SectionMaps(s)
        BY <4>2 DEF SectionMaps
      <4> QED
        BY <3>3, <4>1, <4>3, <4>4
    <3> QED
      BY <3>2, <3>3
  <2>3. LineOf(base, as, starts, acc, b) = Acc(Put(r), b, tt, 0, l)
    <3>1. LineOf(base, as, starts, acc, b)
            = [[[[acc EXCEPT !.at = Put(r)] EXCEPT !.head = 0] EXCEPT !.section = b] EXCEPT !.sections = tt]
      BY <1>5 DEF LineOf, a, ss
    <3> HIDE DEF r, tt
    <3> HIDE DEF Put
    <3>2. [acc EXCEPT !.at = Put(r)] = Acc(Put(r), x, ss, h, l)
      BY <1>1 DEF Acc
    <3>3. [Acc(Put(r), x, ss, h, l) EXCEPT !.head = 0] = Acc(Put(r), x, ss, 0, l)
      BY AccExcept
    <3>4. [Acc(Put(r), x, ss, 0, l) EXCEPT !.section = b] = Acc(Put(r), b, ss, 0, l)
      BY AccExcept
    <3>5. [Acc(Put(r), b, ss, 0, l) EXCEPT !.sections = tt] = Acc(Put(r), b, tt, 0, l)
      BY AccExcept
    <3> QED
      BY <3>1, <3>2, <3>3, <3>4, <3>5
  <2> HIDE DEF r, tt, Put
  <2>4. Put(r) \in [Blocks(s) -> Assignment] /\ Gathered(s, base, Put(r), b, tt)
    <3>1. Put(r) \in [Blocks(s) -> Assignment] /\ Put(r)[b] = r /\ \A c \in Blocks(s) \ {b} : Put(r)[c] = a[c]
      BY <1>3, <2>1
    <3> QED
      BY <1>1, <2>1, <2>2, <3>1 DEF Gathered
  <2>5. 0 \in Nat
    OBVIOUS
  <2> QED
    BY <1>1, <1>2, <2>2, <2>3, <2>4, <2>5, AccOf
<1>6. CASE as[b] \notin {"equation", "heading"}
  <2> DEFINE new == h = 0 \/ b \in starts
             g == IF new THEN b ELSE h
             f == IF new THEN 0 ELSE l
             r == Recovered(a[b], "paragraph", x, g, f)
  <2>1. g \in Nat /\ f \in Nat
    BY <1>1, <1>2
  <2>2. LineOf(base, as, starts, acc, b) = [[[acc EXCEPT !.at = Put(r)] EXCEPT !.head = g] EXCEPT !.last = b]
    BY <1>6 DEF LineOf, a, x, h, l
  <2> HIDE DEF new, g, f
  <2>3. r \in Assignment /\ r.section = x
    <3>1. "paragraph" \in Roles /\ 0 \in Nat
      BY RoleNames
    <3> QED
      BY <1>1, <1>2, <3>1, <2>1, RecoveredRange
  <2> HIDE DEF r
  <2>4. LineOf(base, as, starts, acc, b) = Acc(Put(r), x, ss, g, b)
    <3> HIDE DEF Put
    <3>2. [acc EXCEPT !.at = Put(r)] = Acc(Put(r), x, ss, h, l)
      BY <1>1 DEF Acc
    <3>3. [Acc(Put(r), x, ss, h, l) EXCEPT !.head = g] = Acc(Put(r), x, ss, g, l)
      BY AccExcept
    <3>4. [Acc(Put(r), x, ss, g, l) EXCEPT !.last = b] = Acc(Put(r), x, ss, g, b)
      BY AccExcept
    <3> QED
      BY <2>2, <3>2, <3>3, <3>4
  <2> HIDE DEF Put
  <2>5. Put(r) \in [Blocks(s) -> Assignment] /\ Gathered(s, base, Put(r), x, ss)
    <3>1. Put(r) \in [Blocks(s) -> Assignment] /\ Put(r)[b] = r /\ \A c \in Blocks(s) \ {b} : Put(r)[c] = a[c]
      BY <1>3, <2>3
    <3> QED
      BY <1>1, <2>3, <3>1 DEF Gathered
  <2> QED
    BY <1>1, <1>2, <2>1, <2>4, <2>5, AccOf
<1> QED
  BY <1>4, <1>5, <1>6

LEMMA ClassedKeeps ==
  ASSUME NEW s, Formed(s), NEW base \in DOMAIN s.sections \cup {0},
         NEW released \in Seq(Blocks(s)), NEW as, NEW starts
  PROVE  Classed(s, base, released, as, starts) \in Accs(s, base)
<1> DEFINE V == Accs(s, base)
           n == Len(released)
           none == [at |-> s.at, section |-> base, sections |-> s.sections, head |-> 0, last |-> 0]
           Step(acc, b) == LineOf(base, as, starts, acc, b)
           step == [q \in (1 .. n) \X V |-> Step(q[2], released[q[1]])]
           Is(f) == f = [k \in 0 .. n |-> IF k = 0 THEN none ELSE Step(f[k - 1], released[k])]
           done == CHOOSE f : Is(f)
<1>0. base \in Nat /\ s.at \in [Blocks(s) -> Assignment] /\ s.sections \in SectionMaps(s)
  BY DEF Formed, Resolved, InOrder, SectionMaps
<1>1. n \in Nat /\ none \in V /\ \A k \in 1 .. n : released[k] \in Blocks(s)
  <2>1. n \in Nat /\ \A k \in 1 .. n : released[k] \in Blocks(s)
    OBVIOUS
  <2>2. 0 \in Nat
    OBVIOUS
  <2>3. Gathered(s, base, s.at, base, s.sections)
    BY DEF Gathered, Formed, Resolved
  <2>4. Acc(s.at, base, s.sections, 0, 0) \in V
    BY <1>0, <2>2, <2>3, AccOf
  <2> QED
    BY <2>1, <2>4 DEF Acc
<1>2. ASSUME NEW acc \in V, NEW b \in Blocks(s) PROVE Step(acc, b) \in V
  BY <1>0, LineKeeps
<1> HIDE DEF V, Step
<1>3. step \in [(1 .. n) \X V -> V] /\ \A k \in 1 .. n, acc \in V : step[<<k, acc>>] = Step(acc, released[k])
  BY <1>1, <1>2
<1> HIDE DEF step
<1>4. PICK h : Runs(h, n, V, none, step)
  BY <1>1, <1>3, Loop
<1>5. Is(h)
  <2>1. \A k \in 0 .. n : k # 0 => k \in 1 .. n /\ k - 1 \in 0 .. n
    BY <1>1
  <2>2. h \in [0 .. n -> V] /\ h[0] = none /\ \A k \in 1 .. n : h[k] = step[<<k, h[k - 1]>>]
    BY <1>4 DEF Runs
  <2>3. \A k \in 1 .. n : h[k - 1] \in V
    BY <1>1, <2>2
  <2>4. \A k \in 1 .. n : h[k] = Step(h[k - 1], released[k])
    BY <1>3, <2>2, <2>3
  <2> QED
    BY <2>1, <2>2, <2>4
<1>6. Is(done)
  BY <1>5
<1>7. 0 .. n \subseteq {k \in 0 .. n : done[k] \in V}
  <2>1. done[0] = none /\ \A k \in 1 .. n : done[k] = Step(done[k - 1], released[k])
    <3> HIDE DEF done
    <3> QED
      BY <1>1, <1>6
  <2>2. \A k \in 1 .. n : done[k - 1] \in V => done[k] \in V
    BY <1>1, <1>2, <2>1
  <2> DEFINE T == {k \in 0 .. n : done[k] \in V}
  <2>3. 0 \in T /\ \A k \in 1 .. n : k - 1 \in T => k \in T
    BY <1>1, <2>1, <2>2
  <2> HIDE DEF T
  <2>4. 0 .. n \subseteq T
    BY <1>1, <2>3, UpTo
  <2> QED
    BY <2>4 DEF T
<1>8. done[n] \in V
  <2> HIDE DEF done
  <2> QED
    BY <1>1, <1>7
<1>9. Classed(s, base, released, as, starts) = done[n]
  BY DEF Classed, LineOf, done, Step
<1> QED
  BY <1>8, <1>9 DEF V
\* The blocks are finite, and a set of them can be put into a sequence.
LEMMA Finitely ==
  ASSUME NEW o, NEW bs, Enumerates(o, bs)
  PROVE  IsFiniteSet(bs)
<1>1. Len(o) \in Nat /\ o \in [1 .. Len(o) -> bs]
  BY DEF Enumerates
<1>2. IsFiniteSet(1 .. Len(o))
  BY <1>1, FS_Interval
<1>3. o \in Bijection(1 .. Len(o), bs)
  BY <1>1 DEF Enumerates, Bijection, Injection, Surjection, IsInjective
<1>4. ExistsBijection(1 .. Len(o), bs)
  BY <1>3 DEF ExistsBijection
<1> QED
  BY <1>2, <1>4, FS_Bijection

LEMMA Listed ==
  ASSUME NEW T, IsFiniteSet(T), T # {}, NEW f \in SetToSeqs(T)
  PROVE  /\ Cardinality(T) \in Nat \ {0} /\ f \in [1 .. Cardinality(T) -> T]
         /\ f \in Seq(T) /\ f # <<>> /\ Range(f) # {} /\ Range(f) \subseteq T /\ Enumerates(f, Range(f))
<1> DEFINE n == Cardinality(T)
<1>1. n \in Nat \ {0}
  BY FS_CardinalityType, FS_EmptySet
<1>2. f \in [1 .. n -> T] /\ \A i, j \in 1 .. n : i # j => f[i] # f[j]
  BY DEF SetToSeqs
<1> HIDE DEF n
<1>3. f \in Seq(T) /\ Len(f) = n /\ DOMAIN f = 1 .. n
  BY <1>1, <1>2
<1>4. f # <<>> /\ f[1] \in Range(f) /\ Range(f) \subseteq T
  BY <1>1, <1>2, <1>3 DEF Range
<1>5. f \in Seq(Range(f)) /\ \A b \in Range(f) : \E i \in 1 .. n : f[i] = b
  BY <1>1, <1>2, <1>3 DEF Range
<1>6. Enumerates(f, Range(f))
  BY <1>2, <1>3, <1>5 DEF Enumerates
<1> QED
  BY <1>1, <1>2, <1>3, <1>4, <1>6 DEF n

LEMMA Concatenated ==
  ASSUME NEW X, NEW Y, NEW f, NEW g, Enumerates(f, X), Enumerates(g, Y), X \cap Y = {}
  PROVE  Enumerates(f \o g, X \cup Y)
<1> DEFINE h == f \o g
           m == Len(f)
           n == Len(g)
<1>1. f \in Seq(X) /\ g \in Seq(Y) /\ m \in Nat /\ n \in Nat
  BY DEF Enumerates
<1>2. h \in Seq(X \cup Y)
  <2>1. f \in Seq(X \cup Y) /\ g \in Seq(X \cup Y)
    BY <1>1
  <2> QED
    BY <2>1
<1>3. Len(h) = m + n /\ \A i \in 1 .. m + n : h[i] = IF i <= m THEN f[i] ELSE g[i - m]
  BY <1>1
<1> HIDE DEF h
<1>4. /\ \A i \in 1 .. m + n : i <= m => i \in 1 .. m
      /\ \A i \in 1 .. m + n : ~(i <= m) => i - m \in 1 .. n
      /\ \A i \in 1 .. m : i \in 1 .. m + n /\ i <= m
      /\ \A i \in 1 .. n : m + i \in 1 .. m + n /\ ~(m + i <= m) /\ (m + i) - m = i
  BY <1>1
<1>5. \A b \in X \cup Y : \E i \in 1 .. m + n : h[i] = b
  <2>1. ASSUME NEW b \in X PROVE \E i \in 1 .. m + n : h[i] = b
    <3>1. PICK i \in 1 .. m : f[i] = b
      BY DEF Enumerates
    <3> QED
      BY <1>3, <1>4, <3>1
  <2>2. ASSUME NEW b \in Y PROVE \E i \in 1 .. m + n : h[i] = b
    <3>1. PICK i \in 1 .. n : g[i] = b
      BY DEF Enumerates
    <3>2. m + i \in 1 .. m + n /\ h[m + i] = b
      BY <1>3, <1>4, <3>1
    <3> QED
      BY <3>2
  <2> QED
    BY <2>1, <2>2
<1>6. ASSUME NEW i \in 1 .. m + n, NEW j \in 1 .. m + n, h[i] = h[j] PROVE i = j
  <2>1. (\A k \in 1 .. m : f[k] \in X) /\ (\A k \in 1 .. n : g[k] \in Y)
    BY <1>1
  <2>2. (\A k, l \in 1 .. m : f[k] = f[l] => k = l) /\ (\A k, l \in 1 .. n : g[k] = g[l] => k = l)
    BY DEF Enumerates
  <2>3. CASE i <= m /\ j <= m
    BY <1>3, <1>4, <1>6, <2>2, <2>3
  <2>4. CASE ~(i <= m) /\ ~(j <= m)
    <3>1. i - m = j - m
      BY <1>3, <1>4, <1>6, <2>2, <2>4
    <3> QED
      BY <1>1, <3>1
  <2>5. CASE i <= m /\ ~(j <= m)
    BY <1>3, <1>4, <1>6, <2>1, <2>5
  <2>6. CASE ~(i <= m) /\ j <= m
    BY <1>3, <1>4, <1>6, <2>1, <2>6
  <2> QED
    BY <2>3, <2>4, <2>5, <2>6
<1> HIDE DEF m, n
<1>7. Enumerates(h, X \cup Y)
  BY <1>2, <1>3, <1>5, <1>6 DEF Enumerates
<1> QED
  BY <1>7 DEF h

LEMMA MovedNotesIs ==
  ASSUME NEW s, InOrder(s), NEW notes \in SUBSET Blocks(s), NEW released,
         Range(released) \in SUBSET Blocks(s), Range(released) # {}
  PROVE  Enumerates(MovedNotes(s, notes, released), Blocks(s))
<1> DEFINE o == s.order
           last == Latest(s, Range(released))
           A == (Before(s, last) \cup {last}) \ notes
           C == After(s, last) \ notes
           f == Only(o, A)
           g == Only(o, notes)
           h == Only(o, C)
<1>1. MovedNotes(s, notes, released) = (f \o g) \o h
  BY DEF MovedNotes
<1>2. last \in Blocks(s)
  BY Ends
<1>3. Enumerates(o, Blocks(s))
  BY DEF InOrder
<1>4. /\ Before(s, last) = {c \in Blocks(s) : Pos(o, c) < Pos(o, last)}
      /\ After(s, last) = {c \in Blocks(s) : Pos(o, last) < Pos(o, c)}
  BY <1>2, BeforeAndAfter
<1>5. \A c \in Blocks(s) : Pos(o, c) \in Nat /\ (Pos(o, c) = Pos(o, last) => c = last)
  BY <1>2, <1>3, Position
<1> HIDE DEF o, last
<1>6. A \cup notes \cup C = Blocks(s) /\ A \cap notes = {} /\ (A \cup notes) \cap C = {}
  BY <1>2, <1>4, <1>5
<1> HIDE DEF A, C
<1>7. Enumerates(f, A) /\ Enumerates(g, notes) /\ Enumerates(h, C)
  <2>1. Enumerates(f, Blocks(s) \cap A) /\ Enumerates(g, Blocks(s) \cap notes) /\ Enumerates(h, Blocks(s) \cap C)
    BY <1>3, OnlyKeeps DEF Sifted
  <2>2. Blocks(s) \cap A = A /\ Blocks(s) \cap notes = notes /\ Blocks(s) \cap C = C
    BY <1>6
  <2> QED
    BY <2>1, <2>2
<1> HIDE DEF f, g, h
<1>8. Enumerates(f \o g, A \cup notes)
  BY <1>6, <1>7, Concatenated
<1>9. Enumerates((f \o g) \o h, Blocks(s))
  BY <1>6, <1>7, <1>8, Concatenated
<1> QED
  BY <1>1, <1>9
LEMMA ReleasedEquationIs ==
  ASSUME NEW s, Formed(s), NEW v \in Visual, v.anchor \in Blocks(s) \cup {0},
         NEW released \in Seq(Blocks(s)), NEW as
  PROVE  /\ ReleasedEquation(v, released, as) \subseteq Visual
         /\ \A w \in ReleasedEquation(v, released, as) : w.anchor \in Blocks(s) \cup {0} /\ w.kind = "equation"
<1> DEFINE lines == {i \in DOMAIN released : as[released[i]] = "equation"}
           first == CHOOSE i \in lines : \A j \in lines : i <= j
           e == IF first = 1 THEN v.anchor ELSE released[first - 1]
           w == [item |-> released[first], part |-> 0, kind |-> "equation", page |-> v.page, captions |-> {}, anchor |-> e]
<1>1. ReleasedEquation(v, released, as) = IF lines = {} THEN {} ELSE {w}
  BY DEF ReleasedEquation
<1>2. Len(released) \in Nat /\ DOMAIN released = 1 .. Len(released) /\ \A i \in 1 .. Len(released) : released[i] \in Blocks(s)
  OBVIOUS
<1>3. Blocks(s) \subseteq Nat
  BY DEF Formed, InOrder
<1>4. CASE lines # {}
  <2>1. lines \subseteq 1 .. Len(released)
    BY <1>2
  <2> HIDE DEF lines
  <2>2. lines \subseteq Nat
    BY <1>2, <2>1
  <2>3. \E i \in lines : \A j \in lines : i <= j
    BY <1>4, <2>2, LeastNatural
  <2>4. first \in 1 .. Len(released)
    BY <2>1, <2>3
  <2> HIDE DEF first
  <2>5. first # 1 => first - 1 \in 1 .. Len(released)
    BY <1>2, <2>4
  <2>6. e \in Blocks(s) \cup {0} /\ released[first] \in Nat
    BY <1>2, <1>3, <2>4, <2>5
  <2>7. e \in Nat /\ v.page \in Nat
    BY <1>3, <2>6 DEF Visual
  <2> HIDE DEF e
  <2>8. w \in Visual /\ w.anchor = e /\ w.kind = "equation"
    BY <2>6, <2>7 DEF Visual
  <2> HIDE DEF w
  <2> QED
    BY <1>1, <1>4, <2>6, <2>8
<1> HIDE DEF lines, w
<1> QED
  BY <1>1, <1>4

Rearranged(s, a, x, vs, o) == [s EXCEPT !.at = a, !.sections = x, !.visuals = vs, !.order = o]
LEMMA RearrangedExcept ==
  ASSUME NEW s, Structured(s), NEW a, NEW x, NEW vs, NEW o
  PROVE  Rearranged(s, a, x, vs, o) = Rec(o, s.page, x, s.references, a, vs)
<1>1. [s EXCEPT !.at = a] = Rec(s.order, s.page, s.sections, s.references, a, s.visuals)
  BY AtExcept
<1>2. [Rec(s.order, s.page, s.sections, s.references, a, s.visuals) EXCEPT !.sections = x]
        = Rec(s.order, s.page, x, s.references, a, s.visuals)
  BY RecExcept
<1>3. [Rec(s.order, s.page, x, s.references, a, s.visuals) EXCEPT !.visuals = vs] = Rec(s.order, s.page, x, s.references, a, vs)
  BY RecExcept
<1>4. [Rec(s.order, s.page, x, s.references, a, vs) EXCEPT !.order = o] = Rec(o, s.page, x, s.references, a, vs)
  BY RecExcept
<1> QED
  BY <1>1, <1>2, <1>3, <1>4 DEF Rearranged

\* The structure once the text is released: the sections it brings are under that of the picture.
Released(s, t) ==
  /\ Formed(t) /\ Blocks(t) = Blocks(s) /\ t.page = s.page /\ (Rooted(s) => Rooted(t))
  /\ Cut(s) => Cut(t)
  /\ Labelled(s) => Labelled(t)
LEMMA ReleaseKeeps ==
  ASSUME NEW s, Formed(s), NEW v \in Visual, v.anchor \in Blocks(s) \cup {0},
         NEW released \in Seq(Blocks(s)), Range(released) # {},
         NEW as, NEW starts, NEW notes \in SUBSET Blocks(s)
  PROVE  Released(s, Release(s, v, released, as, starts, notes))
<1> DEFINE base == BaseSection(s, v)
           done == Classed(s, base, released, as, starts)
           vs == s.visuals \cup ReleasedEquation(v, released, as)
           o == IF notes = {} THEN s.order ELSE MovedNotes(s, notes, released)
           t == Release(s, v, released, as, starts, notes)
           a == done.at
           ss == done.sections
<1>1. base \in DOMAIN s.sections \cup {0}
  BY DEF BaseSection, Formed, Resolved
<1>2. t = Rearranged(s, a, ss, vs, o)
  BY DEF Release, Rearranged
<1> HIDE DEF base, t
<1>3. done \in Accs(s, base)
  BY <1>1, ClassedKeeps
<1> HIDE DEF done
<1>4. a \in [Blocks(s) -> Assignment] /\ Gathered(s, base, a, done.section, ss)
  BY <1>3, AccIs
<1> HIDE DEF a, ss
<1>5. vs \subseteq Visual /\ (\A w \in vs : w.anchor \in Blocks(s) \cup {0}) /\ s.visuals \subseteq vs
      /\ \A w \in vs \ s.visuals : w.kind = "equation"
  BY ZenonT(40), ReleasedEquationIs DEF Formed, Anchored
<1>6. Enumerates(o, Blocks(s))
  <2>1. Range(released) \in SUBSET Blocks(s)
    BY DEF Range
  <2>2. InOrder(s)
    BY DEF Formed
  <2>3. Enumerates(s.order, Blocks(s))
    BY <2>2 DEF InOrder
  <2>4. Enumerates(MovedNotes(s, notes, released), Blocks(s))
    BY <2>1, <2>2, MovedNotesIs
  <2> QED
    BY <2>3, <2>4
<1> HIDE DEF vs, o
<1>7. t = Rec(o, s.page, ss, s.references, a, vs)
  BY <1>2, RearrangedExcept DEF Formed
<1>8. Structured(t) /\ Blocks(t) = Blocks(s) /\ t.order = o /\ t.page = s.page /\ t.sections = ss /\ t.at = a /\ t.visuals = vs
  <2>1. DOMAIN a = Blocks(s)
    BY <1>4
  <2> QED
    BY <1>7, <2>1, RecFields
<1>9. InOrder(t) /\ Anchored(t)
  BY <1>5, <1>6, <1>8 DEF InOrder, Anchored, Formed
<1>10. Resolved(t)
  <2>1. \A x \in DOMAIN s.sections : s.sections[x] \in DOMAIN s.sections \cup {0}
    BY DEF Formed, Resolved
  <2> QED
    BY <1>1, <1>4, <1>8, <2>1 DEF Resolved, Gathered
<1>11. Rooted(s) => Rooted(t)
  <2>1. /\ DOMAIN s.sections \subseteq DOMAIN t.sections /\ \A x \in DOMAIN s.sections : t.sections[x] = s.sections[x]
        /\ \A x \in DOMAIN t.sections \ DOMAIN s.sections : t.sections[x] \in DOMAIN s.sections \cup {0}
        /\ 0 \notin DOMAIN t.sections
    BY <1>1, <1>4, <1>8 DEF Gathered, Formed, InOrder
  <2> QED
    BY <2>1, StillRooted
<1>12. (Cut(s) => Cut(t)) /\ (Labelled(s) => Labelled(t))
  BY <1>5, <1>8 DEF Cut, Labelled
<1>13. Released(s, t)
  BY <1>4, <1>8, <1>9, <1>10, <1>11, <1>12 DEF Released, Formed
<1> QED
  BY <1>13 DEF t
LEMMA ContinueKeeps ==
  ASSUME NEW s, Formed(s), NEW v, NEW base, NEW last \in Blocks(s)
  PROVE  Released(s, ContinueOnNextPage(s, v, base, last))
<1> DEFINE next == Earliest(s, OnPage(s, v.page + 1) \cap VisibleAs(s, {"abstract", "paragraph"}))
           section == s.at[last].section
           f1 == [s.at EXCEPT ![next].para = s.at[last].para]
           f2 == [f1 EXCEPT ![next].from = last]
           linked == [f2 EXCEPT ![next].section = section]
           heading == {b \in OnPage(s, v.page + 1) : s.at[b].role = "heading"}
           beginning == {b \in OnPage(s, v.page + 1) : \A h \in heading : h \in After(s, b)}
           Now(b) == IF b \in beginning /\ linked[b].section \in {0, base} THEN [linked[b] EXCEPT !.section = section]
                     ELSE linked[b]
           a == [b \in Blocks(s) |-> Now(b)]
           New(w) == IF w.page = v.page + 1 /\ w.anchor = v.anchor THEN [w EXCEPT !.anchor = last] ELSE w
           vs == {New(w) : w \in s.visuals}
           t == ContinueOnNextPage(s, v, base, last)
<1>1. t = IF next = 0 THEN s ELSE AtVisuals(s, a, vs)
  BY DEF ContinueOnNextPage, AtVisuals
<1>2. CASE next = 0
  <2>1. t = s
    BY <1>1, <1>2
  <2>2. Released(s, s)
    BY DEF Released
  <2> QED
    BY <2>1, <2>2
<1>3. CASE next # 0
  <2>1. next \in Blocks(s)
    <3>1. InOrder(s) /\ OnPage(s, v.page + 1) \cap VisibleAs(s, {"abstract", "paragraph"}) \in SUBSET Blocks(s)
      BY DEF Formed, VisibleAs, Visible, OnPage
    <3> QED
      BY <1>3, <3>1, EndsOrNone
  <2>2. /\ s.at \in [Blocks(s) -> Assignment] /\ section \in DOMAIN s.sections \cup {0} /\ section \in Nat
        /\ s.at[last].para \in Nat /\ last \in Nat
        /\ \A b \in Blocks(s) : s.at[b].section \in DOMAIN s.sections \cup {0}
    BY SMTT(40) DEF Formed, Resolved, InOrder, Assignment
  <2>3. t = AtVisuals(s, a, vs)
    BY <1>1, <1>3
  <2> DEFINE p == s.at[last].para
  <2> HIDE DEF next, section, p, beginning, t
  <2>4. f1 \in [Blocks(s) -> Assignment] /\ \A b \in Blocks(s) : f1[b].section = s.at[b].section
    <3> DEFINE g == [s.at EXCEPT ![next].para = p]
    <3>1. g \in [Blocks(s) -> Assignment] /\ \A b \in Blocks(s) : g[b].section = s.at[b].section
      <4>1. [s.at[next] EXCEPT !.para = p] \in Assignment /\ [s.at[next] EXCEPT !.para = p].section = s.at[next].section
        BY <2>1, <2>2 DEF p, Assignment
      <4> QED
        BY <2>1, <2>2, <4>1
    <3> QED
      BY <3>1 DEF p
  <2> HIDE DEF f1
  <2>5. f2 \in [Blocks(s) -> Assignment] /\ \A b \in Blocks(s) : f2[b].section = s.at[b].section
    <3>1. [f1[next] EXCEPT !.from = last] \in Assignment /\ [f1[next] EXCEPT !.from = last].section = f1[next].section
      BY <2>1, <2>2, <2>4 DEF Assignment
    <3> QED
      BY <2>1, <2>2, <2>4, <3>1
  <2> HIDE DEF f2
  <2>6. linked \in [Blocks(s) -> Assignment] /\ \A b \in Blocks(s) : linked[b].section \in {s.at[b].section, section}
    <3>1. [f2[next] EXCEPT !.section = section] \in Assignment /\ [f2[next] EXCEPT !.section = section].section = section
      BY <2>1, <2>2, <2>5 DEF Assignment
    <3> QED
      BY <2>1, <2>2, <2>5, <3>1
  <2> HIDE DEF linked
  <2>7. ASSUME NEW b \in Blocks(s) PROVE Now(b) \in Assignment /\ Now(b).section \in DOMAIN s.sections \cup {0}
    <3> DEFINE r == [linked[b] EXCEPT !.section = section]
    <3>1. r \in Assignment /\ r.section = section
      BY <2>2, <2>6 DEF Assignment
    <3>2. Now(b) = r \/ Now(b) = linked[b]
      OBVIOUS
    <3> HIDE DEF r, Now
    <3> QED
      BY <2>2, <2>6, <3>1, <3>2
  <2> HIDE DEF Now
  <2>8. a \in [Blocks(s) -> Assignment] /\ \A b \in Blocks(s) : a[b].section \in DOMAIN s.sections \cup {0}
    BY <2>7
  <2> HIDE DEF a
  <2>9. ASSUME NEW w \in s.visuals
        PROVE  /\ New(w) \in Visual /\ New(w).anchor \in Blocks(s) \cup {0}
               /\ New(w).kind = w.kind /\ New(w).part = w.part /\ New(w).captions = w.captions
    <3>1. w \in Visual /\ w.anchor \in Blocks(s) \cup {0}
      BY DEF Formed, Anchored
    <3> DEFINE u == [w EXCEPT !.anchor = last]
    <3>2. u \in Visual /\ u.anchor = last /\ u.kind = w.kind /\ u.part = w.part /\ u.captions = w.captions
      BY <2>2, <3>1 DEF Visual
    <3>3. New(w) = u \/ New(w) = w
      OBVIOUS
    <3> HIDE DEF u, New
    <3> QED
      BY <3>1, <3>2, <3>3
  <2> HIDE DEF New
  <2>10. vs \subseteq Visual /\ \A w \in vs : w.anchor \in Blocks(s) \cup {0}
    BY <2>9
  <2>11. /\ \A w \in s.visuals : \E u \in vs : u.kind = w.kind /\ u.part = w.part /\ u.captions = w.captions
         /\ \A u \in vs : \E w \in s.visuals : u.kind = w.kind /\ u.part = w.part /\ u.captions = w.captions
    BY <2>9
  <2> HIDE DEF vs
  <2>12. Replaced(s, a, vs, t)
    BY <2>3, <2>8, <2>10, ReplacedIs
  <2>13. (Cut(s) => Cut(t)) /\ (Labelled(s) => Labelled(t))
    BY <2>11, <2>12 DEF Replaced, Cut, Labelled
  <2>14. Released(s, t)
    BY <2>12, <2>13 DEF Replaced, Released
  <2> QED
    BY <2>14 DEF t
<1> QED
  BY <1>2, <1>3 DEF t
LEMMA RecoverPictureKeeps == ASSUME Early(ir), RecoverPicture PROVE Recut(ir')
<1> DEFINE Rest(v, captions) ==
             LET cut == CutPicture(ir, v, captions)
                 base == BaseSection(ir, v)
             IN \E lines \in SUBSET Below(v, UNION Range(captions)) :
                IF lines = {} THEN ir' = cut
                ELSE \E released \in SetToSeqs(lines), as \in Classes(lines), starts \in SUBSET lines,
                        notes \in SUBSET BottomNotes(cut, v, SetToSeq(lines)), open \in BOOLEAN :
                     LET s == Release(cut, v, released, as, starts, notes)
                         prose == Only(released, {b \in lines : as[b] = "paragraph"})
                     IN ir' = IF open /\ prose # <<>> THEN ContinueOnNextPage(s, v, base, Last(prose)) ELSE s
<1>1. PICK v \in Figures : \E starting \in SUBSET CaptionStarts(v) : \E captions \in SetToSeqs({{c} : c \in starting}) :
        starting # {} /\ Rest(v, captions)
  BY DEF RecoverPicture
<1>13. PICK starting \in SUBSET CaptionStarts(v) : \E captions \in SetToSeqs({{c} : c \in starting}) :
        starting # {} /\ Rest(v, captions)
  BY <1>1
<1>2. PICK captions \in SetToSeqs({{c} : c \in starting}) : starting # {} /\ Rest(v, captions)
  BY <1>13
<1> DEFINE cut == CutPicture(ir, v, captions)
           base == BaseSection(ir, v)
           parts == {{c} : c \in starting}
<1>3. PICK lines \in SUBSET Below(v, UNION Range(captions)) :
           IF lines = {} THEN ir' = cut
           ELSE \E released \in SetToSeqs(lines), as \in Classes(lines), starts \in SUBSET lines,
                   notes \in SUBSET BottomNotes(cut, v, SetToSeq(lines)), open \in BOOLEAN :
                LET s == Release(cut, v, released, as, starts, notes)
                    prose == Only(released, {b \in lines : as[b] = "paragraph"})
                IN ir' = IF open /\ prose # <<>> THEN ContinueOnNextPage(s, v, base, Last(prose)) ELSE s
  BY <1>2
<1>4. /\ Formed(ir) /\ InOrder(ir) /\ v \in ir.visuals /\ v.kind = "figure" /\ v \in Visual /\ v.anchor \in Blocks(ir) \cup {0}
      /\ starting \in SUBSET Blocks(ir) /\ lines \in SUBSET Blocks(ir)
  BY DEF Early, Formed, Anchored, Figures, CaptionStarts, Below, Owned, OnPage
<1>5. IsFiniteSet(Blocks(ir)) /\ IsFiniteSet(starting) /\ IsFiniteSet(lines)
  BY <1>4, Finitely, FS_Subset DEF InOrder
<1> HIDE DEF Rest
<1>6. IsFiniteSet(parts) /\ parts # {} /\ \A p \in parts : p \in SUBSET Blocks(ir) /\ p # {}
  <2> DEFINE f == [c \in starting |-> {c}]
  <2>1. f \in Surjection(starting, parts)
    BY DEF Surjection
  <2> HIDE DEF f
  <2>2. IsFiniteSet(parts)
    <3> HIDE DEF parts
    <3> QED
      BY <1>5, <2>1, FS_Surjection
  <2>3. starting # {} /\ starting \in SUBSET Blocks(ir)
    BY <1>2, <1>4
  <2>4. parts # {}
    <3>1. PICK c \in starting : TRUE
      BY <2>3
    <3>2. {c} \in parts
      OBVIOUS
    <3> QED
      BY <3>2
  <2>5. \A p \in parts : p \in SUBSET Blocks(ir) /\ p # {}
    BY <2>3
  <2> QED
    BY <2>2, <2>4, <2>5
<1> HIDE DEF parts
<1>7. Replaced(ir, cut.at, cut.visuals, cut) /\ Cut(cut) /\ Labelled(cut)
  <2> DEFINE n == Cardinality(parts)
  <2>1. n \in Nat \ {0} /\ captions \in [1 .. n -> parts]
    BY <1>2, <1>6, Listed DEF parts
  <2>2. captions \in [1 .. n -> SUBSET Blocks(ir)] /\ \A i \in 1 .. n : captions[i] # {}
    BY <1>6, <2>1
  <2> HIDE DEF n
  <2> QED
    BY <1>4, <2>1, <2>2, CutPictureKeeps
<1> HIDE DEF cut, base
<1>8. Rooted(ir)
  BY NestedIsRooted DEF Early, Nested
<1>9. Recut(cut) /\ Formed(cut) /\ Blocks(cut) = Blocks(ir) /\ cut.page = ir.page
  BY <1>7, <1>8 DEF Recut, Replaced
<1>10. \A s : Released(cut, s) => Recut(s)
  BY <1>7, <1>9 DEF Released, Recut
<1>11. CASE lines = {}
  BY <1>3, <1>9, <1>11
<1>12. CASE lines # {}
  <2>1. PICK released \in SetToSeqs(lines), as \in Classes(lines), starts \in SUBSET lines,
             notes \in SUBSET BottomNotes(cut, v, SetToSeq(lines)), open \in BOOLEAN :
                LET s == Release(cut, v, released, as, starts, notes)
                    prose == Only(released, {b \in lines : as[b] = "paragraph"})
                IN ir' = IF open /\ prose # <<>> THEN ContinueOnNextPage(s, v, base, Last(prose)) ELSE s
    BY <1>3, <1>12
  <2> DEFINE s == Release(cut, v, released, as, starts, notes)
             text == {b \in lines : as[b] = "paragraph"}
             prose == Only(released, text)
  <2>2. /\ released \in Seq(Blocks(cut)) /\ Range(released) # {} /\ Range(released) \in SUBSET Blocks(cut)
        /\ Enumerates(released, Range(released))
    <3>1. /\ released \in Seq(lines) /\ Range(released) # {} /\ Range(released) \subseteq lines
          /\ Enumerates(released, Range(released))
      BY <1>5, <1>12, Listed
    <3> QED
      BY <1>4, <1>9, <3>1
  <2>3. notes \in SUBSET Blocks(cut)
    BY DEF BottomNotes, OnPage
  <2>4. v \in Visual /\ v.anchor \in Blocks(cut) \cup {0}
    BY <1>4, <1>9
  <2>5. Released(cut, s)
    BY <1>9, <2>2, <2>3, <2>4, ReleaseKeeps
  <2>6. ir' = IF open /\ prose # <<>> THEN ContinueOnNextPage(s, v, base, Last(prose)) ELSE s
    BY <2>1
  <2>7. prose # <<>> => Last(prose) \in Blocks(s)
    <3>1. Sifted(released, text, Range(released), prose)
      BY <2>2, OnlyKeeps
    <3> HIDE DEF text, prose
    <3>2. prose \in Seq(Range(released) \cap text)
      BY <3>1 DEF Sifted, Enumerates
    <3>3. prose # <<>> => Last(prose) \in Range(released)
      BY <3>2 DEF Last
    <3> QED
      BY <2>2, <2>5, <3>3 DEF Released
  <2> HIDE DEF s, prose
  <2>8. prose # <<>> => Released(s, ContinueOnNextPage(s, v, base, Last(prose)))
    BY <2>5, <2>7, ContinueKeeps DEF Released
  <2>9. Released(cut, s) /\ Released(s, ir') => Released(cut, ir')
    BY DEF Released
  <2> QED
    BY <1>10, <2>5, <2>6, <2>8, <2>9
<1> QED
  BY <1>11, <1>12
Remade(s, x, r, a, vs) == [s EXCEPT !.sections = x, !.references = r, !.at = a, !.visuals = vs]
LEMMA RemadeExcept ==
  ASSUME NEW s, Structured(s), NEW x, NEW r, NEW a, NEW vs
  PROVE  Remade(s, x, r, a, vs) = Rec(s.order, s.page, x, r, a, vs)
<1>1. [s EXCEPT !.sections = x, !.references = r, !.at = a] = Rec(s.order, s.page, x, r, a, s.visuals)
  BY SectionsExcept
<1>2. [Rec(s.order, s.page, x, r, a, s.visuals) EXCEPT !.visuals = vs] = Rec(s.order, s.page, x, r, a, vs)
  BY RecExcept
<1> QED
  BY <1>1, <1>2 DEF Remade

\* Where the headers of the panels were sections, what was in them is in a section before them.
LEMMA MergedSectionIs ==
  ASSUME NEW s, Formed(s), NEW headers \in SUBSET Blocks(s), headers # {}
  PROVE  /\ MergedSection(s, headers) \in (DOMAIN s.sections \ headers) \cup {0}
         /\ Nested(s) /\ MergedSection(s, headers) # 0 =>
              \A h \in headers : Pos(s.order, MergedSection(s, headers)) < Pos(s.order, h)
<1> DEFINE first == Earliest(s, headers)
           X == {x \in Before(s, first) \cap Visible(s) : s.at[x].section \notin headers \cup {0}}
           b == Latest(s, X)
           m == MergedSection(s, headers)
           P(c) == Pos(s.order, c)
<1>1. m = IF b = 0 THEN 0 ELSE s.at[b].section
  BY DEF MergedSection
<1>2. InOrder(s) /\ X \in SUBSET Blocks(s) /\ \A c \in Blocks(s) : P(c) \in Nat
  BY Position DEF Formed, InOrder, Visible
<1>3. first \in headers /\ \A h \in headers : P(first) <= P(h)
  BY <1>2, Ends
<1> HIDE DEF m, first
<1>4. CASE b = 0
  BY <1>1, <1>4 DEF m
<1>5. CASE b # 0
  <2>1. b \in X
    BY <1>2, <1>5, EndsOrNone
  <2>2. b \in Blocks(s) /\ P(b) < P(first) /\ s.at[b].section \notin headers \cup {0}
    BY <1>2, <1>3, <2>1, BeforeAndAfter
  <2> HIDE DEF X, b
  <2>3. m = s.at[b].section /\ m \in DOMAIN s.sections /\ m \in Blocks(s) /\ m \notin headers
    BY <1>1, <1>5, <2>2 DEF Formed, Resolved
  <2>4. Nested(s) => P(m) <= P(b)
    BY <2>2, <2>3 DEF Nested
  <2>5. Nested(s) => \A h \in headers : P(m) < P(h)
    BY <1>2, <1>3, <2>2, <2>3, <2>4
  <2> QED
    BY <2>3, <2>5 DEF m
<1> QED
  BY <1>4, <1>5

LEMMA MergePanelsKeeps ==
  ASSUME NEW s, Recut(s), NEW v \in s.visuals, v.kind = "figure", NEW w \in s.visuals,
         w.captions = {}, w.kind = "figure",
         NEW headers \in SUBSET Blocks(s), headers # {}
  PROVE  Merged(MergePanels(s, v, w, headers))
<1> DEFINE gone == headers \cap DOMAIN s.sections
           before == Before(s, Earliest(s, headers)) \cap Visible(s)
           section == MergedSection(s, headers)
           anchors == {b \in before : s.at[b].role \notin {"caption", "equation", "algorithm"}}
           anchor == IF anchors = {} THEN v.anchor ELSE Latest(s, anchors)
           ss == Reparented(s, gone, section)
           Now(b) == IF b \in headers THEN InVisual(s.at[b])
                     ELSE IF s.at[b].section \in gone THEN [s.at[b] EXCEPT !.section = section] ELSE s.at[b]
           a == [b \in Blocks(s) |-> Now(b)]
           u == [v EXCEPT !.anchor = anchor]
           vs == (s.visuals \ {v, w}) \cup {u}
           t == MergePanels(s, v, w, headers)
<1>1. t = Remade(s, ss, s.references \ gone, a, vs)
  BY DEF MergePanels, Remade
<1>2. /\ Formed(s) /\ InOrder(s) /\ Blocks(s) \subseteq Nat \ {0} /\ s.at \in [Blocks(s) -> Assignment]
      /\ s.visuals \subseteq Visual /\ \A x \in s.visuals : x.anchor \in Blocks(s) \cup {0}
      /\ DOMAIN s.sections \subseteq Blocks(s)
      /\ \A b \in Blocks(s) : s.at[b].section \in DOMAIN s.sections \cup {0}
      /\ \A x \in DOMAIN s.sections : s.sections[x] \in DOMAIN s.sections \cup {0}
  BY DEF Recut, Formed, InOrder, Anchored, Resolved
<1> HIDE DEF t
<1>3. section \in (DOMAIN s.sections \ gone) \cup {0} /\ section \in Nat
      /\ (Nested(s) /\ section # 0 => \A h \in gone : Pos(s.order, section) < Pos(s.order, h))
  BY <1>2, MergedSectionIs
<1>4. anchor \in Blocks(s) \cup {0} /\ anchor \in Nat
  <2>1. anchors \in SUBSET Blocks(s)
    BY DEF Visible
  <2> HIDE DEF anchors
  <2>2. anchors # {} => Latest(s, anchors) \in Blocks(s)
    BY <1>2, <2>1, Ends
  <2> QED
    BY <1>2, <2>2
<1> HIDE DEF section, anchor, gone
<1>5. /\ DOMAIN ss = DOMAIN s.sections \ gone
      /\ \A x \in DOMAIN s.sections \ gone : ss[x] = IF s.sections[x] \in gone THEN section ELSE s.sections[x]
  BY DEF Reparented
<1> HIDE DEF ss
<1>6. DOMAIN ss \subseteq Blocks(s) /\ \A x \in DOMAIN ss : ss[x] \in DOMAIN ss \cup {0}
  BY <1>2, <1>3, <1>5
<1>7. ASSUME NEW b \in Blocks(s) PROVE Now(b) \in Assignment /\ Now(b).section \in DOMAIN ss \cup {0}
  <2> DEFINE e == s.at[b]
             r == [e EXCEPT !.section = section]
             q == InVisual(e)
  <2>1. e \in Assignment
    BY <1>2
  <2>2. r \in Assignment /\ r.section = section
    BY <1>3, <2>1 DEF Assignment
  <2>3. q \in Assignment /\ q.section = 0
    BY <2>1, NoiseType
  <2>4. \/ Now(b) = q \/ Now(b) = r \/ (Now(b) = e /\ e.section \notin gone)
    <3>1. CASE b \in headers
      BY <3>1
    <3>2. CASE b \notin headers /\ e.section \in gone
      BY <3>2
    <3>3. CASE b \notin headers /\ e.section \notin gone
      BY <3>3
    <3> QED
      BY <3>1, <3>2, <3>3
  <2>5. e.section \in DOMAIN s.sections \cup {0}
    BY <1>2
  <2> HIDE DEF e, r, q, Now
  <2> QED
    BY <1>3, <1>5, <2>1, <2>2, <2>3, <2>4, <2>5
<1> HIDE DEF Now
<1>8. a \in [Blocks(s) -> Assignment] /\ DOMAIN a = Blocks(s) /\ \A b \in Blocks(s) : a[b].section \in DOMAIN ss \cup {0}
  BY <1>7
<1> HIDE DEF a
<1>9. u \in Visual /\ u.anchor = anchor /\ u.kind = v.kind /\ u.part = v.part
  BY <1>2, <1>4 DEF Visual
<1> HIDE DEF u
<1>10. vs \subseteq Visual /\ \A x \in vs : x.anchor \in Blocks(s) \cup {0}
  BY <1>2, <1>4, <1>9
<1>11. t = Rec(s.order, s.page, ss, s.references \ gone, a, vs)
  BY <1>1, <1>2, RemadeExcept DEF Formed
<1>12. Structured(t) /\ Blocks(t) = Blocks(s) /\ t.order = s.order /\ t.sections = ss /\ t.at = a /\ t.visuals = vs
  BY <1>8, <1>11, RecFields
<1>13. Formed(t)
  <2>1. InOrder(t) /\ Anchored(t) /\ Resolved(t)
    BY <1>2, <1>6, <1>8, <1>10, <1>12 DEF InOrder, Anchored, Resolved
  <2> QED
    BY <1>8, <1>12, <2>1 DEF Formed
<1>14. CASE Cut(s)
  <2>1. PICK c \in s.visuals : c.kind = "figure" /\ c.part # 0
    BY <1>14 DEF Cut
  <2>2. c # w
    BY <2>1 DEF Recut, Labelled
  <2>3. c \in vs \/ (u \in vs /\ u.kind = "figure" /\ u.part # 0)
    BY <1>9, <2>1, <2>2
  <2>4. Cut(t)
    BY <1>12, <2>1, <2>3 DEF Cut
  <2> QED
    BY <1>13, <2>4 DEF Merged, t
<1>15. CASE Nested(s)
  <2>1. \A x \in DOMAIN s.sections : s.sections[x] # 0 => Pos(s.order, s.sections[x]) < Pos(s.order, x)
    BY <1>15 DEF Nested
  <2>2. \A b \in Blocks(s) : Pos(s.order, b) \in Nat
    BY <1>2, Position DEF InOrder
  <2>3. ASSUME NEW x \in DOMAIN ss, ss[x] # 0 PROVE Pos(s.order, ss[x]) < Pos(s.order, x)
    <3>1. x \in DOMAIN s.sections /\ x \in Blocks(s)
      BY <1>2, <1>5
    <3>2. CASE s.sections[x] \in gone
      <4>1. ss[x] = section /\ section # 0 /\ section \in Blocks(s)
        BY <1>2, <1>3, <1>5, <2>3, <3>2
      <4>2. s.sections[x] \in Blocks(s) /\ s.sections[x] # 0
        BY <1>2, <3>2 DEF gone
      <4>3. Pos(s.order, section) < Pos(s.order, s.sections[x]) /\ Pos(s.order, s.sections[x]) < Pos(s.order, x)
        BY <1>3, <1>15, <2>1, <3>1, <3>2, <4>1, <4>2
      <4> QED
        BY <2>2, <3>1, <4>1, <4>2, <4>3
    <3>3. CASE s.sections[x] \notin gone
      BY <1>5, <2>1, <2>3, <3>1, <3>3
    <3> QED
      BY <3>2, <3>3
  <2>4. \A x \in DOMAIN t.sections : t.sections[x] # 0 => Pos(t.order, t.sections[x]) < Pos(t.order, x)
    BY <1>12, <2>3
  <2>5. Rooted(t)
    BY <1>13, <2>4, NestedIsRooted
  <2> QED
    BY <1>13, <2>5 DEF Merged, t
<1> QED
  BY <1>14, <1>15 DEF Recut
LEMMA RelinkKeeps ==
  ASSUME NEW s, Formed(s), NEW v, NEW headers, NEW section
  PROVE  Released(s, RelinkInterrupted(s, v, headers, section))
<1> DEFINE anchor == v.anchor
           after == {b \in Blocks(s) : v.captions \cup headers \subseteq Before(s, b)}
           next == Earliest(s, after \cap VisibleAs(s, {"abstract", "paragraph"}))
           group == {b \in After(s, next) \cup {next} : UnitOf(s, b) = UnitOf(s, next)}
           para == s.at[anchor].para
           place == s.at[anchor].section
           From(b) == IF b = next THEN anchor ELSE Latest(s, group \cap Before(s, b))
           Now(b) == IF b \notin group THEN s.at[b] ELSE [s.at[b] EXCEPT !.para = para, !.section = place, !.from = From(b)]
           a == [b \in Blocks(s) |-> Now(b)]
           t == RelinkInterrupted(s, v, headers, section)
           Links == anchor # 0 /\ next # 0 /\ anchor \in VisibleAs(s, {"abstract", "paragraph"})
<1>1. t = s \/ (Links /\ t = [s EXCEPT !.at = a])
  BY DEF RelinkInterrupted
<1>2. CASE t = s
  <2>1. Released(s, s)
    BY DEF Released
  <2> HIDE DEF t
  <2>2. Released(s, t)
    BY <1>2, <2>1
  <2> QED
    BY <2>2 DEF t
<1>3. CASE Links /\ t = [s EXCEPT !.at = a]
  <2>1. /\ InOrder(s) /\ s.at \in [Blocks(s) -> Assignment] /\ Blocks(s) \subseteq Nat
        /\ \A b \in Blocks(s) : s.at[b].section \in DOMAIN s.sections \cup {0}
    BY SMTT(40) DEF Formed, InOrder, Resolved
  <2>2. anchor \in Blocks(s) /\ next \in Blocks(s)
    <3>1. after \cap VisibleAs(s, {"abstract", "paragraph"}) \in SUBSET Blocks(s)
      OBVIOUS
    <3> HIDE DEF after
    <3> QED
      BY <1>3, <2>1, <3>1, EndsOrNone DEF VisibleAs, Visible
  <2> HIDE DEF t, anchor, next
  <2>3. para \in Nat /\ place \in DOMAIN s.sections \cup {0} /\ place \in Nat
    BY <2>1, <2>2 DEF Assignment
  <2> HIDE DEF para, place
  <2>4. group \in SUBSET Blocks(s)
    BY <2>1, <2>2, BeforeAndAfter
  <2> HIDE DEF group
  <2>5. ASSUME NEW b \in Blocks(s) PROVE From(b) \in Nat
    <3>1. Latest(s, group \cap Before(s, b)) \in Blocks(s) \cup {0}
      BY <2>1, <2>4, EndsOrNone
    <3> QED
      BY <2>1, <2>2, <3>1
  <2> HIDE DEF From
  <2>6. ASSUME NEW b \in Blocks(s) PROVE Now(b) \in Assignment /\ Now(b).section \in DOMAIN s.sections \cup {0}
    <3> DEFINE e == s.at[b]
               f == From(b)
               r1 == [e EXCEPT !.para = para]
               r2 == [r1 EXCEPT !.section = place]
               r3 == [r2 EXCEPT !.from = f]
    <3>1. e \in Assignment /\ e.section \in DOMAIN s.sections \cup {0} /\ f \in Nat
      BY <2>1, <2>5
    <3>2. Now(b) = IF b \notin group THEN e ELSE r3
      OBVIOUS
    <3> HIDE DEF e, f, Now
    <3>3. r1 \in Assignment
      BY <2>3, <3>1 DEF Assignment
    <3> HIDE DEF r1
    <3>4. r2 \in Assignment /\ r2.section = place
      BY <2>3, <3>3 DEF Assignment
    <3> HIDE DEF r2
    <3>5. r3 \in Assignment /\ r3.section = place
      BY <3>1, <3>4 DEF Assignment
    <3> HIDE DEF r3
    <3> QED
      BY <2>3, <3>1, <3>2, <3>5
  <2> HIDE DEF Now
  <2>7. a \in [Blocks(s) -> Assignment] /\ \A b \in Blocks(s) : a[b].section \in DOMAIN s.sections \cup {0}
    BY <2>6
  <2> HIDE DEF a
  <2>8. s.visuals \subseteq Visual /\ \A x \in s.visuals : x.anchor \in Blocks(s) \cup {0}
    BY DEF Formed, Anchored
  <2>9. Replaced(s, a, s.visuals, t)
    BY <1>3, <2>7, <2>8, ReplacedIs
  <2>10. Released(s, t)
    BY <2>9 DEF Replaced, Released, Cut, Labelled
  <2> QED
    BY <2>10 DEF t
<1> QED
  BY <1>1, <1>2, <1>3

LEMMA MergeSplitPanelsKeeps == ASSUME Recut(ir), MergeSplitPanels PROVE Merged(ir')
<1>1. PICK v \in Captioned1(ir) : \E w \in Beside(ir, v), headers \in SUBSET (OnPage(ir, v.page) \ v.captions), join \in BOOLEAN :
       /\ Cardinality(headers) >= 2
       /\ LET s == MergePanels(ir, v, w, headers)
              section == MergedSection(ir, headers)
              merged == CHOOSE x \in s.visuals : x.item = v.item /\ x.part = v.part
          IN ir' = IF join THEN RelinkInterrupted(s, merged, headers, section) ELSE s
  BY DEF MergeSplitPanels
<1>2. PICK w \in Beside(ir, v), headers \in SUBSET (OnPage(ir, v.page) \ v.captions), join \in BOOLEAN :
       /\ Cardinality(headers) >= 2
       /\ LET s == MergePanels(ir, v, w, headers)
              section == MergedSection(ir, headers)
              merged == CHOOSE x \in s.visuals : x.item = v.item /\ x.part = v.part
          IN ir' = IF join THEN RelinkInterrupted(s, merged, headers, section) ELSE s
  BY <1>1
<1> DEFINE s == MergePanels(ir, v, w, headers)
           section == MergedSection(ir, headers)
           merged == CHOOSE x \in s.visuals : x.item = v.item /\ x.part = v.part
<1>3. ir' = (IF join THEN RelinkInterrupted(s, merged, headers, section) ELSE s) /\ Cardinality(headers) >= 2
  BY <1>2
<1>4. headers # {}
  BY <1>3, FS_EmptySet
<1>5. Merged(s)
  <2>1. v \in ir.visuals /\ v.kind = "figure" /\ w \in ir.visuals /\ w.kind = "figure" /\ w.captions = {}
        /\ headers \in SUBSET Blocks(ir)
    BY DEF Captioned1, Beside, OnPage
  <2> QED
    BY <1>4, <2>1, MergePanelsKeeps
<1> HIDE DEF s, section, merged
<1>6. Released(s, RelinkInterrupted(s, merged, headers, section))
  BY <1>5, RelinkKeeps DEF Merged
<1>7. \A t : Released(s, t) => Merged(t)
  BY <1>5 DEF Merged, Released
<1> QED
  BY <1>3, <1>5, <1>6, <1>7
LEMMA SplitTableKeeps ==
  ASSUME NEW s, Formed(s), NEW v \in s.visuals, v.kind = "table", NEW kind \in {"table", "algorithm"},
         NEW captions \in [{1, 2} -> SUBSET v.captions]
  PROVE  Released(s, SplitTable(s, v, kind, captions))
<1> DEFINE Part(i) == [v EXCEPT !.part = i, !.kind = kind, !.captions = captions[i]]
           vs == (s.visuals \ {v}) \cup {Part(i) : i \in {1, 2}}
           t == SplitTable(s, v, kind, captions)
<1>1. t = [s EXCEPT !.visuals = vs]
  BY DEF SplitTable
<1>2. s.visuals \subseteq Visual /\ v \in Visual /\ \A x \in s.visuals : x.anchor \in Blocks(s) \cup {0}
  BY DEF Formed, Anchored
<1>3. ASSUME NEW i \in {1, 2} PROVE Part(i) \in Visual /\ Part(i).anchor = v.anchor /\ Part(i).kind = kind
  <2> DEFINE c == captions[i]
             r1 == [v EXCEPT !.part = i]
             r2 == [r1 EXCEPT !.kind = kind]
             r3 == [r2 EXCEPT !.captions = c]
  <2>1. c \in SUBSET Nat /\ i \in Nat
    BY <1>2 DEF Visual
  <2>2. Part(i) = r3
    OBVIOUS
  <2> HIDE DEF c, Part
  <2>3. r1 \in Visual /\ r1.anchor = v.anchor
    BY <1>2, <2>1 DEF Visual
  <2> HIDE DEF r1
  <2>4. r2 \in Visual /\ r2.anchor = v.anchor /\ r2.kind = kind
    BY <2>3 DEF Visual
  <2> HIDE DEF r2
  <2>5. r3 \in Visual /\ r3.anchor = v.anchor /\ r3.kind = kind
    BY <2>1, <2>4 DEF Visual
  <2> HIDE DEF r3
  <2> QED
    BY <2>2, <2>5
<1> HIDE DEF Part, t
<1>4. vs \subseteq Visual /\ (\A x \in vs : x.anchor \in Blocks(s) \cup {0})
  BY <1>2, <1>3
<1>5. /\ \A c \in s.visuals : c.kind = "figure" => c \in vs
      /\ \A c \in vs : c.kind = "figure" => c \in s.visuals
  BY <1>3
<1> HIDE DEF vs
<1>6. t = Rec(s.order, s.page, s.sections, s.references, s.at, vs)
  BY <1>1, IsRec, RecExcept DEF Formed
<1>7. /\ Structured(t) /\ Blocks(t) = Blocks(s) /\ t.order = s.order /\ t.page = s.page
      /\ t.sections = s.sections /\ t.at = s.at /\ t.visuals = vs
  BY <1>6, RecFields DEF Blocks
<1>8. InOrder(t) /\ Anchored(t) /\ Resolved(t)
  BY <1>4, <1>7 DEF InOrder, Anchored, Resolved, Formed
<1>9. Formed(t)
  BY <1>7, <1>8 DEF Formed
<1>10. (Cut(s) => Cut(t)) /\ (Labelled(s) => Labelled(t)) /\ (Rooted(s) => Rooted(t))
  BY <1>5, <1>7 DEF Cut, Labelled, Rooted
<1>11. Released(s, t)
  BY <1>7, <1>9, <1>10 DEF Released
<1> QED
  BY <1>11 DEF t

LEMMA JoinLinkKeeps ==
  ASSUME NEW s, Formed(s), NEW c \in LinkChains(s), NEW whole \in BOOLEAN
  PROVE  Released(s, JoinLink(s, c, whole))
<1> DEFINE last == c[Len(c)]
           first == c[1]
           emptied == Range(c) \ ({first} \cup (IF whole THEN {} ELSE {last}))
           p == IF s.at[first].para = 0 THEN first ELSE s.at[first].para
           own == [s.at[first] EXCEPT !.para = p]
           tail == [s.at[last] EXCEPT !.role = own.role, !.section = own.section, !.para = own.para, !.from = first]
           Now(b) == IF b = first THEN own ELSE IF b \in emptied THEN [s.at[b] EXCEPT !.hidden = TRUE]
                     ELSE IF b = last THEN tail ELSE s.at[b]
           a == [b \in Blocks(s) |-> Now(b)]
           t == JoinLink(s, c, whole)
<1>1. t = [s EXCEPT !.at = a]
  BY DEF JoinLink
<1>2. /\ s.at \in [Blocks(s) -> Assignment] /\ Blocks(s) \subseteq Nat /\ Enumerates(s.order, Blocks(s))
      /\ \A b \in Blocks(s) : s.at[b].section \in DOMAIN s.sections \cup {0}
      /\ s.visuals \subseteq Visual /\ \A x \in s.visuals : x.anchor \in Blocks(s) \cup {0}
  BY DEF Formed, InOrder, Resolved, Anchored
<1>3. first \in Blocks(s) /\ last \in Blocks(s)
  <2>1. PICK page \in Range(s.page) : c \in SubSeqs(Only(s.order, Visible(s) \cap OnPage(s, page)))
    BY DEF LinkChains
  <2>2. Len(c) \in {2, 3}
    BY DEF LinkChains
  <2> DEFINE bs == Visible(s) \cap OnPage(s, page)
             o == Only(s.order, bs)
  <2>3. Sifted(s.order, bs, Blocks(s), o)
    BY <1>2, OnlyKeeps
  <2>4. c \in SubSeqs(o)
    BY <2>1
  <2> HIDE DEF bs, o
  <2>5. o \in Seq(Blocks(s))
    BY <2>3 DEF Sifted, Enumerates
  <2>6. PICK i \in 0 .. Len(o), j \in 0 .. Len(o) : c = SubSeq(o, i + 1, j)
    BY <2>4 DEF SubSeqs
  <2>7. c \in Seq(Blocks(s))
    <3>1. Len(o) \in Nat /\ \A k \in 1 .. Len(o) : o[k] \in Blocks(s)
      BY <2>5
    <3>2. \A k \in i + 1 .. j : k \in 1 .. Len(o)
      BY <3>1
    <3> QED
      BY <2>5, <2>6, <3>1, <3>2
  <2>8. 1 \in 1 .. Len(c) /\ Len(c) \in 1 .. Len(c)
    BY <2>2
  <2> QED
    BY <2>7, <2>8
<1> HIDE DEF first, last, emptied, t
<1>4. /\ p \in Nat /\ own \in Assignment
      /\ own.section \in DOMAIN s.sections \cup {0} /\ own.role \in Roles /\ own.section \in Nat /\ own.para \in Nat
  <2>1. p \in Nat
    BY <1>2, <1>3 DEF Assignment
  <2> HIDE DEF p
  <2>2. own \in Assignment /\ own.section = s.at[first].section
    BY <1>2, <1>3, <2>1 DEF Assignment
  <2> HIDE DEF own
  <2> QED
    BY <1>2, <1>3, <2>1, <2>2 DEF Assignment
<1> HIDE DEF p, own
<1>5. tail \in Assignment /\ tail.section = own.section
  <2> DEFINE q == own.role
             x == own.section
             m == own.para
             r1 == [s.at[last] EXCEPT !.role = q]
             r2 == [r1 EXCEPT !.section = x]
             r3 == [r2 EXCEPT !.para = m]
             r4 == [r3 EXCEPT !.from = first]
  <2>1. q \in Roles /\ x \in Nat /\ m \in Nat /\ first \in Nat /\ s.at[last] \in Assignment
    BY <1>2, <1>3, <1>4
  <2>2. tail = r4
    OBVIOUS
  <2> HIDE DEF q, x, m, tail
  <2>3. r1 \in Assignment
    BY <2>1 DEF Assignment
  <2> HIDE DEF r1
  <2>4. r2 \in Assignment /\ r2.section = x
    BY <2>1, <2>3 DEF Assignment
  <2> HIDE DEF r2
  <2>5. r3 \in Assignment /\ r3.section = x
    BY <2>1, <2>4 DEF Assignment
  <2> HIDE DEF r3
  <2>6. r4 \in Assignment /\ r4.section = x
    BY <2>1, <2>5 DEF Assignment
  <2> HIDE DEF r4
  <2> QED
    BY <2>2, <2>6 DEF x
<1> HIDE DEF tail
<1>6. ASSUME NEW b \in Blocks(s) PROVE Now(b) \in Assignment /\ Now(b).section \in DOMAIN s.sections \cup {0}
  <2> DEFINE e == s.at[b]
             r == [e EXCEPT !.hidden = TRUE]
  <2>1. e \in Assignment /\ e.section \in DOMAIN s.sections \cup {0}
    BY <1>2
  <2>2. r \in Assignment /\ r.section = e.section
    BY <2>1 DEF Assignment
  <2>3. Now(b) = own \/ Now(b) = r \/ Now(b) = tail \/ Now(b) = e
    OBVIOUS
  <2> HIDE DEF e, r, Now
  <2> QED
    BY <1>4, <1>5, <2>1, <2>2, <2>3
<1> HIDE DEF Now
<1>7. a \in [Blocks(s) -> Assignment] /\ \A b \in Blocks(s) : a[b].section \in DOMAIN s.sections \cup {0}
  BY <1>6
<1> HIDE DEF a
<1>8. Replaced(s, a, s.visuals, t)
  BY <1>1, <1>2, <1>7, ReplacedIs
<1>9. Released(s, t)
  BY <1>8 DEF Replaced, Released, Cut, Labelled
<1> QED
  BY <1>9 DEF t
-----------------------------------------------------------------------------
(* The invariant, pass by pass.                                             *)

PassesInv ==
  /\ pc \in Passes /\ doc \in Seq(Items)
  /\ pc = "front" => Blocks(ir) \subseteq 1 .. Len(doc)
  /\ pc \in {"front", "blank", "panels", "demote", "lowercase", "signs", "overlays", "prose"} => Early(ir) /\ Fresh(ir)
  /\ pc \in {"equations", "overlarge"} => Early(ir)
  /\ pc = "overlarge" => Ended(ir)
  /\ pc = "merge" => Recut(ir)
  /\ pc \in AfterMerge => Merged(ir)

LEMMA PassNames ==
  /\ {"convert", "front", "blank", "panels", "demote", "lowercase", "signs", "overlays", "prose", "equations", "overlarge",
      "merge", "split", "links", "captions", "build", "qa", "done", "failed"} \subseteq Passes
  /\ AfterMerge = {"split", "links", "captions", "build", "qa", "done", "failed"}
BY DEF Passes, AfterMerge

LEMMA ConvertStep == ASSUME doc \in Seq(Items), Convert PROVE Early(ir') /\ Fresh(ir') /\ Blocks(ir') \subseteq 1 .. Len(doc)
<1> DEFINE Rest(overlapped, title, link) ==
             LET records == Records(doc, overlapped, title)
                 sectioned == Sectioned(doc, records)
             IN \E joined \in SUBSET Joinable(doc, sectioned), m \in Alignments(doc) : \E lines \in Lines(doc, m) :
                LET texts == Captioned(doc, PreserveCode(doc, sectioned, joined), m, lines)
                    linked == IF link THEN Continued(texts, PageContinuation(doc, texts)) ELSE texts
                IN ir' = Structure(doc, linked, SectionsOf(doc, records), m, lines)
<1>1. PICK overlapped \in Overlaps(doc), title \in {0} \cup Promotable(doc), link \in BOOLEAN : Rest(overlapped, title, link)
  BY DEF Convert
<1> DEFINE records == Records(doc, overlapped, title)
           sectioned == Sectioned(doc, records)
<1>2. PICK joined \in SUBSET Joinable(doc, sectioned), m \in Alignments(doc) : \E lines \in Lines(doc, m) :
        LET texts == Captioned(doc, PreserveCode(doc, sectioned, joined), m, lines)
            linked == IF link THEN Continued(texts, PageContinuation(doc, texts)) ELSE texts
        IN ir' = Structure(doc, linked, SectionsOf(doc, records), m, lines)
  BY <1>1
<1>3. PICK lines \in Lines(doc, m) :
        LET texts == Captioned(doc, PreserveCode(doc, sectioned, joined), m, lines)
            linked == IF link THEN Continued(texts, PageContinuation(doc, texts)) ELSE texts
        IN ir' = Structure(doc, linked, SectionsOf(doc, records), m, lines)
  BY <1>2
<1> HIDE DEF Rest
<1>4. Early(ir') /\ Fresh(ir') /\ Blocks(ir') = TextItems(doc)
  BY <1>3, ConversionIs
<1>5. TextItems(doc) \subseteq 1 .. Len(doc)
  BY ItemsAre
<1> QED
  BY <1>4, <1>5

LEMMA RecoverFrontStep ==
  ASSUME doc \in Seq(Items), Early(ir), Fresh(ir), Blocks(ir) \subseteq 1 .. Len(doc), RecoverFront
  PROVE  Early(ir') /\ Fresh(ir')
<1>1. PICK hide \in FrontMatter(ir), lowercase \in BOOLEAN :
        ir' = RecoverFrontMatter(ir, hide, IF lowercase THEN Blocks(ir) ELSE {}, FrontBlock)
  BY DEF RecoverFront, Repair
<1>2. FrontBlock \in Nat \ {0} /\ FrontBlock \notin Blocks(ir)
  BY DEF FrontBlock
<1> QED
  BY <1>1, <1>2, RecoverFrontMatterKeeps

\* The repairs of headings, paragraphs and signs.
LEMMA RepairSteps ==
  ASSUME Early(ir), Fresh(ir),
         \/ SuppressBlankHeadings \/ AbsorbPanelHeadings \/ DemoteHeadings \/ JoinLowercaseTails \/ AbsorbEquationSigns
         \/ SuppressEquationOverlays
  PROVE  Early(ir') /\ Fresh(ir')
<1>1. CASE SuppressBlankHeadings
  <2>1. PICK blank \in SUBSET VisibleAs(ir, {"heading"}) :
          \E same \in SUBSET (blank \cap Open) : ir' = SuppressBlank(ir, Repeated(ir, same))
    BY <1>1 DEF SuppressBlankHeadings
  <2>2. PICK same \in SUBSET (blank \cap Open) : ir' = SuppressBlank(ir, Repeated(ir, same))
    BY <2>1
  <2>3. Repeated(ir, same) \in SUBSET Blocks(ir)
    BY DEF Repeated, Open
  <2> QED
    BY <2>2, <2>3, SuppressBlankKeeps
<1>2. CASE AbsorbPanelHeadings
  <2>1. PICK rows \in SUBSET Proposals(ir, Open) : ir' = AbsorbPanels(ir, Absorbed(ir, rows))
    BY <1>2 DEF AbsorbPanelHeadings
  <2>2. ASSUME NEW r \in Absorbed(ir, rows) PROVE r.headings \in SUBSET Blocks(ir) /\ r.headings # {} /\ RowFallback(ir, r) # 0
    <3>1. r \in Proposals(ir, Open) /\ RowFallback(ir, r) # 0
      BY DEF Absorbed
    <3>2. r.figure.anchor \in r.headings /\ r.headings \subseteq OnPage(ir, r.figure.page)
      BY <3>1 DEF Proposals
    <3> QED
      BY <3>1, <3>2 DEF OnPage
  <2> QED
    BY <2>1, <2>2, AbsorbPanelsKeeps
<1>3. CASE DemoteHeadings
  <2>1. PICK to \in Demotions(ir, Numbered) : ir' = Demote(ir, to)
    BY <1>3 DEF DemoteHeadings, Repair
  <2>2. PICK d \in SUBSET Demotable(ir, Numbered) : to \in [d -> {"reference", "list_item", "paragraph", "noise"}]
    BY DEF Demotions
  <2>3. DOMAIN to \in SUBSET DOMAIN ir.sections /\ \A b \in DOMAIN to : to[b] \in Roles
    BY <2>2, RoleNames DEF Demotable
  <2> QED
    BY <2>1, <2>3, DemoteKeeps
<1>4. CASE JoinLowercaseTails
  <2>1. PICK tails \in SUBSET Tails(ir) : ir' = JoinTails(ir, tails)
    BY <1>4 DEF JoinLowercaseTails, Repair
  <2> QED
    BY <2>1, JoinTailsKeeps
<1>5. CASE AbsorbEquationSigns
  <2>1. PICK absorbing \in SUBSET WithSign(ir, Items0("sign")) : ir' = AbsorbSigns(ir, absorbing)
    BY <1>5 DEF AbsorbEquationSigns, Repair
  <2> QED
    BY <2>1, AbsorbSignsKeeps
<1>6. CASE SuppressEquationOverlays
  <2>1. PICK overlays \in SUBSET Overlays(ir, Numbered) : ir' = SuppressOverlays(ir, overlays)
    BY <1>6 DEF SuppressEquationOverlays, Repair
  <2> QED
    BY <2>1, SuppressOverlaysKeeps
<1> QED
  BY <1>1, <1>2, <1>3, <1>4, <1>5, <1>6

LEMMA MovePrefaceStep == ASSUME Early(ir), Fresh(ir), MoveEquationPreface PROVE Early(ir')
<1>1. PICK m \in Prefaces(ir) : ir' = MovePreface(ir, m)
  BY DEF MoveEquationPreface, Repair
<1> QED
  BY <1>1, MovePrefaceKeeps

LEMMA AnchorEquationsStep == ASSUME Early(ir), AnchorEquations PROVE Early(ir') /\ Ended(ir')
<1>1. PICK to \in [Equations(ir) -> Blocks(ir) \cup {0}] : ir' = ReanchorEquations(ir, to)
  BY DEF AnchorEquations, Repair
<1> QED
  BY <1>1, ReanchorEquationsKeeps

LEMMA EarlyIsRecut == ASSUME Early(ir) PROVE Recut(ir)
<1>1. Rooted(ir)
  BY NestedIsRooted DEF Early, Nested
<1> QED
  BY <1>1 DEF Early, Recut, Uncut, Labelled

LEMMA RecutIsMerged == ASSUME Recut(ir) PROVE Merged(ir)
BY DEF Recut, Merged

LEMMA MergedSteps ==
  ASSUME Merged(ir), SplitParallelTables \/ JoinPrintedLink
  PROVE  Merged(ir')
<1>1. \A t : Released(ir, t) => Merged(t)
  BY DEF Merged, Released
<1>2. CASE SplitParallelTables
  <2>1. PICK v \in {w \in ir.visuals : w.kind = "table"} :
          \E kind \in {"table", "algorithm"}, captions \in [{1, 2} -> SUBSET v.captions] : ir' = SplitTable(ir, v, kind, captions)
    BY <1>2 DEF SplitParallelTables, Repair
  <2>2. PICK kind \in {"table", "algorithm"}, captions \in [{1, 2} -> SUBSET v.captions] : ir' = SplitTable(ir, v, kind, captions)
    BY <2>1
  <2>3. Released(ir, SplitTable(ir, v, kind, captions))
    BY SplitTableKeeps DEF Merged
  <2> QED
    BY <1>1, <2>2, <2>3
<1>3. CASE JoinPrintedLink
  <2>1. PICK c \in LinkChains(ir), whole \in BOOLEAN : ir' = JoinLink(ir, c, whole)
    BY <1>3 DEF JoinPrintedLink, Repair
  <2>2. Released(ir, JoinLink(ir, c, whole))
    BY JoinLinkKeeps DEF Merged
  <2> QED
    BY <1>1, <2>1, <2>2
<1> QED
  BY <1>2, <1>3
LEMMA PassesInit == ASSUME Init PROVE PassesInv
<1>1. pc = "convert" /\ doc \in Seq(Items)
  BY DocsAreItems DEF Init
<1>2. pc \in Passes /\ pc \notin AfterMerge
  BY <1>1, PassNames
<1> QED
  BY <1>1, <1>2 DEF PassesInv

LEMMA PassesStep == ASSUME PassesInv, [Next]_vars PROVE PassesInv'
<1> USE DEF Go
<1>1. CASE Convert
  <2>1. pc' = "front" /\ doc' = doc /\ doc \in Seq(Items)
    BY <1>1 DEF Convert, PassesInv
  <2>2. Early(ir') /\ Fresh(ir') /\ Blocks(ir') \subseteq 1 .. Len(doc)
    BY <1>1, <2>1, ConvertStep
  <2>3. pc' \in Passes /\ pc' \notin AfterMerge
    BY <2>1, PassNames
  <2> QED
    BY <2>1, <2>2, <2>3 DEF PassesInv
<1>2. CASE RecoverFront \/ KeepFront
  <2>1. pc = "front" /\ pc' = "blank" /\ doc' = doc
    BY <1>2 DEF RecoverFront, KeepFront, Repair
  <2>2. doc \in Seq(Items) /\ Early(ir) /\ Fresh(ir) /\ Blocks(ir) \subseteq 1 .. Len(doc)
    BY <2>1 DEF PassesInv
  <2>3. Early(ir') /\ Fresh(ir')
    <3>1. CASE RecoverFront
      BY <2>2, <3>1, RecoverFrontStep
    <3>2. CASE KeepFront
      <4>1. ir' = ir
        BY <3>2 DEF KeepFront, Repair
      <4> QED
        BY <2>2, <4>1
    <3> QED
      BY <1>2, <3>1, <3>2
  <2>4. pc' \in Passes /\ pc' \notin AfterMerge
    BY <2>1, PassNames
  <2> QED
    BY <2>1, <2>2, <2>3, <2>4 DEF PassesInv
<1>3. CASE \/ SuppressBlankHeadings \/ AbsorbPanelHeadings \/ DemoteHeadings \/ JoinLowercaseTails \/ AbsorbEquationSigns
           \/ SuppressEquationOverlays
  <2>1. /\ pc \in {"blank", "panels", "demote", "lowercase", "signs", "overlays"}
        /\ pc' \in {"panels", "demote", "lowercase", "signs", "overlays", "prose"} /\ doc' = doc
    BY <1>3 DEF SuppressBlankHeadings, AbsorbPanelHeadings, DemoteHeadings, JoinLowercaseTails,
       AbsorbEquationSigns,
                SuppressEquationOverlays, Repair
  <2>2. doc \in Seq(Items) /\ Early(ir) /\ Fresh(ir)
    BY <2>1 DEF PassesInv
  <2>3. Early(ir') /\ Fresh(ir')
    BY <1>3, <2>2, RepairSteps
  <2>4. pc' \in Passes /\ pc' \notin AfterMerge
    BY <2>1, PassNames
  <2> QED
    BY <2>1, <2>2, <2>3, <2>4 DEF PassesInv
<1>4. CASE MoveEquationPreface \/ KeepOrder
  <2>1. pc = "prose" /\ pc' = "equations" /\ doc' = doc
    BY <1>4 DEF MoveEquationPreface, KeepOrder, Repair
  <2>2. doc \in Seq(Items) /\ Early(ir) /\ Fresh(ir)
    BY <2>1 DEF PassesInv
  <2>3. Early(ir')
    <3>1. CASE MoveEquationPreface
      BY <2>2, <3>1, MovePrefaceStep
    <3>2. CASE KeepOrder
      <4>1. ir' = ir
        BY <3>2 DEF KeepOrder, Repair
      <4> QED
        BY <2>2, <4>1
    <3> QED
      BY <1>4, <3>1, <3>2
  <2>4. pc' \in Passes /\ pc' \notin AfterMerge
    BY <2>1, PassNames
  <2> QED
    BY <2>1, <2>2, <2>3, <2>4 DEF PassesInv
<1>5. CASE AnchorEquations
  <2>1. pc = "equations" /\ pc' = "overlarge" /\ doc' = doc
    BY <1>5 DEF AnchorEquations, Repair
  <2>2. doc \in Seq(Items) /\ Early(ir)
    BY <2>1 DEF PassesInv
  <2>3. Early(ir') /\ Ended(ir')
    BY <1>5, <2>2, AnchorEquationsStep
  <2>4. pc' \in Passes /\ pc' \notin AfterMerge
    BY <2>1, PassNames
  <2> QED
    BY <2>1, <2>2, <2>3, <2>4 DEF PassesInv
<1>6. CASE RecoverPicture \/ LeavePicture \/ NoOverlargePicture
  <2>1. pc = "overlarge" /\ pc' = "merge" /\ doc' = doc
    BY <1>6 DEF RecoverPicture, LeavePicture, NoOverlargePicture, Repair, Doubt
  <2>2. doc \in Seq(Items) /\ Early(ir)
    BY <2>1 DEF PassesInv
  <2>3. Recut(ir')
    <3>1. CASE RecoverPicture
      BY <2>2, <3>1, RecoverPictureKeeps
    <3>2. CASE LeavePicture \/ NoOverlargePicture
      <4>1. ir' = ir
        BY <3>2 DEF LeavePicture, NoOverlargePicture, Repair, Doubt
      <4> QED
        BY <2>2, <4>1, EarlyIsRecut
    <3> QED
      BY <1>6, <3>1, <3>2
  <2>4. pc' \in Passes /\ pc' \notin AfterMerge
    BY <2>1, PassNames
  <2> QED
    BY <2>1, <2>2, <2>3, <2>4 DEF PassesInv
<1>7. CASE MergeSplitPanels \/ LeavePanels \/ NoSplitPanels
  <2>1. pc = "merge" /\ pc' = "split" /\ doc' = doc
    BY <1>7 DEF MergeSplitPanels, LeavePanels, NoSplitPanels, Repair, Doubt
  <2>2. doc \in Seq(Items) /\ Recut(ir)
    BY <2>1 DEF PassesInv
  <2>3. Merged(ir')
    <3>1. CASE MergeSplitPanels
      BY <2>2, <3>1, MergeSplitPanelsKeeps
    <3>2. CASE LeavePanels \/ NoSplitPanels
      <4>1. ir' = ir
        BY <3>2 DEF LeavePanels, NoSplitPanels, Repair, Doubt
      <4> QED
        BY <2>2, <4>1, RecutIsMerged
    <3> QED
      BY <1>7, <3>1, <3>2
  <2>4. pc' \in Passes
    BY <2>1, PassNames
  <2> QED
    BY <2>1, <2>2, <2>3, <2>4 DEF PassesInv
<1>8. CASE SplitParallelTables \/ JoinPrintedLink
  <2>1. pc \in {"split", "links"} /\ pc' \in {"links", "captions"} /\ doc' = doc
    BY <1>8 DEF SplitParallelTables, JoinPrintedLink, Repair
  <2>2. doc \in Seq(Items) /\ Merged(ir)
    BY <2>1, PassNames DEF PassesInv
  <2>3. Merged(ir')
    BY <1>8, <2>2, MergedSteps
  <2>4. pc' \in Passes
    BY <2>1, PassNames
  <2> QED
    BY <2>1, <2>2, <2>3, <2>4 DEF PassesInv
<1>9. CASE NoParallelTables \/ LeaveLink \/ NoBrokenLink \/ RefineCaptions \/ Build \/ BuildFails \/ Qa
  <2>1. /\ pc \in {"split", "links", "captions", "build", "qa"} /\ doc' = doc /\ ir' = ir
        /\ pc' \in {"links", "captions", "build", "qa", "done", "failed"}
    BY <1>9 DEF NoParallelTables, LeaveLink, NoBrokenLink, RefineCaptions, Build, BuildFails, Qa,
       Repair, Doubt
  <2>2. doc \in Seq(Items) /\ Merged(ir)
    BY <2>1, PassNames DEF PassesInv
  <2>3. pc' \in Passes /\ Merged(ir')
    BY <2>1, <2>2, PassNames
  <2> QED
    BY <2>1, <2>2, <2>3 DEF PassesInv
<1>10. CASE Stop \/ UNCHANGED vars
  <2>1. pc' = pc /\ doc' = doc /\ ir' = ir
    BY <1>10 DEF Stop, vars
  <2> QED
    BY <2>1 DEF PassesInv
<1> QED
  BY <1>1, <1>2, <1>3, <1>4, <1>5, <1>6, <1>7, <1>8, <1>9, <1>10 DEF Next

LEMMA PassesAlways == Spec => []PassesInv
<1>1. Init => PassesInv
  BY PassesInit
<1>2. PassesInv /\ [Next]_vars => PassesInv'
  BY PassesStep
<1> QED
  BY <1>1, <1>2, PTL DEF Spec

\* Whatever Docling answers and whatever the passes choose, every block and every
\* section names a section that is still there, and no section is inside itself
\* unless a picture was cut before the panels were merged.
THEOREM SectionsHold == Spec => []SectionsResolve
<1>1. PassesInv => SectionsResolve
  <2> SUFFICES ASSUME PassesInv, pc # "convert" PROVE Resolved(ir) /\ (CutAndMerged \/ Rooted(ir))
    BY DEF SectionsResolve, Resolved
  <2>1. CASE pc \in AfterMerge
    <3>1. Formed(ir) /\ (Cut(ir) \/ Rooted(ir))
      BY <2>1 DEF PassesInv, Merged
    <3> QED
      BY <2>1, <3>1 DEF Formed, CutAndMerged, Cut, Figures
  <2>2. CASE pc = "merge"
    BY <2>2 DEF PassesInv, Recut, Formed
  <2>3. CASE pc \notin AfterMerge \cup {"merge"}
    <3>1. Early(ir)
      BY <2>3 DEF PassesInv, Passes
    <3>2. Recut(ir)
      BY <3>1, EarlyIsRecut
    <3> QED
      BY <3>2 DEF Recut, Formed
  <2> QED
    BY <2>1, <2>2, <2>3
<1> QED
  BY <1>1, PassesAlways, PTL

\* However the equations were placed, and however the paragraphs came about, what
\* comes after an equation that stands in a paragraph is not of that paragraph.
THEOREM EquationsEnd == Spec => []EquationsEndParagraphs
<1>1. PassesInv => EquationsEndParagraphs
  BY DEF PassesInv, Ended, EquationsEndParagraphs
<1> QED
  BY <1>1, PassesAlways, PTL
-----------------------------------------------------------------------------
(* The document and its QA.                                                 *)

LEMMA DocumentIs ==
  ASSUME NEW s, NEW seen, NEW chosen
  PROVE  LET d == Document(s, seen, chosen) IN
         /\ DOMAIN d.units = Units(s) /\ DOMAIN d.visuals = seen
         /\ \A u \in Units(s) : d.units[u] \in d.sections
         /\ \A v \in seen : d.visuals[v] \in d.sections
<1> DEFINE section == [u \in Units(s) |-> s.at[UnitHead(s, u)].section]
           where == [v \in seen |-> VisualSection(s, v, chosen)]
           headed == DOMAIN s.sections \cup {where[v] : v \in {w \in seen : where[w] = Supplement}}
           Loose(in) == {x \in DOMAIN in : in[x] \notin headed}
           placed(in) == [x \in DOMAIN in |-> IF x \in Loose(in) THEN Preamble ELSE in[x]]
           all == headed \cup (IF Loose(section) = {} /\ Loose(where) = {} THEN {} ELSE {Preamble})
           d == Document(s, seen, chosen)
<1>1. d = [sections |-> all, units |-> placed(section), visuals |-> placed(where)]
  BY DEF Document
<1>2. DOMAIN section = Units(s) /\ DOMAIN where = seen
  OBVIOUS
<1> HIDE DEF section, where, headed, d
<1>3. \A u \in DOMAIN section : placed(section)[u] \in all
  OBVIOUS
<1>4. \A v \in DOMAIN where : placed(where)[v] \in all
  OBVIOUS
<1>5. DOMAIN placed(section) = Units(s) /\ DOMAIN placed(where) = seen
  BY <1>2
<1> HIDE DEF placed, all
<1>6. d.sections = all /\ d.units = placed(section) /\ d.visuals = placed(where)
  BY <1>1
<1> HIDE DEF Loose
<1>7. /\ DOMAIN d.units = Units(s) /\ DOMAIN d.visuals = seen
      /\ \A u \in Units(s) : d.units[u] \in d.sections
      /\ \A v \in seen : d.visuals[v] \in d.sections
  BY <1>2, <1>3, <1>4, <1>5, <1>6
<1> QED
  BY <1>7 DEF d

\* Every text of the body is a member of its unit.
LEMMA UnitsHoldBody == ASSUME NEW s PROVE VisibleAs(s, Body) = UNION {Members(s, u) : u \in Units(s)}
BY DEF Units, Members

\* What is shown is of a structure that was accepted, the document is built of it, and QA looks at that document.
BuildInv ==
  /\ pc \in {"build", "qa", "done"} => StructureAccepted(ir) /\ shown \subseteq ir.visuals
  /\ pc \in {"qa", "done"} => \E chosen : document = Document(ir, shown, chosen)
  /\ qa # "none" => pc = "done"
  /\ qa = "passed" => \E faults : QaPassed(ir, document, doubts, faults)

LEMMA BuildStep == ASSUME BuildInv, [Next]_vars PROVE BuildInv'
<1>1. CASE RefineCaptions
  <2>1. pc = "captions" /\ ir' = ir /\ qa' = qa /\ shown' \subseteq ir.visuals
        /\ pc' = IF StructureAccepted(ir) THEN "build" ELSE "failed"
    BY <1>1 DEF RefineCaptions
  <2>2. qa = "none"
    BY <2>1 DEF BuildInv
  <2> QED
    BY <2>1, <2>2 DEF BuildInv
<1>2. CASE Build
  <2>1. /\ pc = "build" /\ pc' = "qa" /\ ir' = ir /\ shown' = shown /\ qa' = qa
        /\ \E chosen : document' = Document(ir, shown, chosen)
    BY <1>2 DEF Build
  <2>2. qa = "none" /\ StructureAccepted(ir) /\ shown \subseteq ir.visuals
    BY <2>1 DEF BuildInv
  <2> QED
    BY <2>1, <2>2 DEF BuildInv
<1>3. CASE Qa
  <2>1. /\ pc = "qa" /\ pc' = "done" /\ ir' = ir /\ shown' = shown /\ document' = document /\ doubts' = doubts
        /\ \E faults : qa' = IF QaPassed(ir, document, doubts, faults) THEN "passed" ELSE "failed"
    BY <1>3 DEF Qa
  <2>2. StructureAccepted(ir) /\ shown \subseteq ir.visuals /\ \E chosen : document = Document(ir, shown, chosen)
    BY <2>1 DEF BuildInv
  <2>3. qa' = "passed" => \E faults : QaPassed(ir, document, doubts, faults)
    BY <2>1
  <2> QED
    BY <2>1, <2>2, <2>3 DEF BuildInv
<1>4. CASE BuildFails
  <2>1. pc = "build" /\ pc' = "failed" /\ qa' = qa
    BY <1>4 DEF BuildFails
  <2> QED
    BY <2>1 DEF BuildInv
<1>5. CASE Stop \/ UNCHANGED vars
  BY <1>5 DEF Stop, vars, BuildInv
<1>6. CASE \/ Convert \/ RecoverFront \/ KeepFront \/ SuppressBlankHeadings \/ AbsorbPanelHeadings \/ DemoteHeadings
           \/ JoinLowercaseTails \/ AbsorbEquationSigns \/ SuppressEquationOverlays \/ MoveEquationPreface \/ KeepOrder
           \/ AnchorEquations \/ RecoverPicture \/ LeavePicture \/ NoOverlargePicture \/ MergeSplitPanels \/ LeavePanels
           \/ NoSplitPanels \/ SplitParallelTables \/ NoParallelTables \/ JoinPrintedLink \/ LeaveLink \/ NoBrokenLink
  <2>1. pc \notin {"build", "qa", "done"} /\ pc' \notin {"build", "qa", "done"} /\ qa' = qa
    BY <1>6 DEF Convert, RecoverFront, KeepFront, SuppressBlankHeadings, AbsorbPanelHeadings,
       DemoteHeadings,
                JoinLowercaseTails, AbsorbEquationSigns, SuppressEquationOverlays,
                MoveEquationPreface, KeepOrder,
                AnchorEquations, RecoverPicture, LeavePicture, NoOverlargePicture,
                MergeSplitPanels, LeavePanels,
                NoSplitPanels, SplitParallelTables, NoParallelTables, JoinPrintedLink, LeaveLink,
                NoBrokenLink,
                Go, Repair, Doubt
  <2> QED
    BY <2>1 DEF BuildInv
<1> QED
  BY <1>1, <1>2, <1>3, <1>4, <1>5, <1>6 DEF Next

LEMMA PassedBy ==
  ASSUME NEW s, NEW seen, NEW chosen, NEW d, d = Document(s, seen, chosen), StructureAccepted(s),
         seen \subseteq s.visuals,
         NEW ds, NEW faults, QaPassed(s, d, ds, faults)
  PROVE  /\ VisibleAs(s, Body) = UNION {Members(s, u) : u \in {x \in DOMAIN d.units : d.units[x] \in d.sections}}
         /\ VisibleAs(s, {"heading", "caption"}) \subseteq (UNION {v.captions : v \in seen}) \cup DOMAIN s.sections
         /\ \A v \in seen : d.visuals[v] \in d.sections
         /\ \A v, w \in seen : v # w => v.captions \cap w.captions = {}
<1> DEFINE placed == {x \in DOMAIN d.units : d.units[x] \in d.sections}
<1>1. DOMAIN d.visuals = seen /\ placed = Units(s) /\ \A v \in seen : d.visuals[v] \in d.sections
  BY DocumentIs
<1>2. VisibleAs(s, Body) = UNION {Members(s, u) : u \in placed}
  BY <1>1, UnitsHoldBody
<1>3. VisibleAs(s, {"heading", "caption"}) \subseteq (UNION {v.captions : v \in seen}) \cup DOMAIN s.sections
  <2> SUFFICES ASSUME NEW b \in VisibleAs(s, {"heading", "caption"})
               PROVE  b \in (UNION {v.captions : v \in seen}) \cup DOMAIN s.sections
    OBVIOUS
  <2>1. b \in VisibleAs(s, Semantic) /\ b \notin VisibleAs(s, FrontRoles) /\ b \notin VisibleAs(s, Body)
    BY DEF VisibleAs, Semantic, FrontRoles, Body, Translatable
  <2>2. b \in VisibleAs(s, FrontRoles) \cup DOMAIN s.sections
               \cup (UNION {Members(s, u) : u \in placed}) \cup (UNION {v.captions : v \in seen})
    BY <1>1, <2>1 DEF QaPassed, Represented, ShownText
  <2> QED
    BY <1>2, <2>1, <2>2
<1>4. ASSUME NEW v \in seen, NEW w \in seen, v # w PROVE v.captions \cap w.captions = {}
  <2> SUFFICES ASSUME NEW b \in v.captions \cap w.captions PROVE FALSE
    OBVIOUS
  <2>1. b \in Blocks(s)
    BY DEF StructureAccepted, OnPage
  <2>2. b \in CaptionOfTwo(s)
    BY <1>4, <2>1 DEF CaptionOfTwo
  <2> QED
    BY <2>2 DEF QaPassed
<1> QED
  BY <1>1, <1>2, <1>3, <1>4

\* A document that passed QA leaves no text out, has a place for every heading,
\* caption and visual, and shows no caption twice.
THEOREM PassedComplete == Spec => []PassedIsComplete
<1>1. Init => BuildInv
  BY DEF Init, BuildInv
<1>2. BuildInv /\ [Next]_vars => BuildInv'
  BY BuildStep
<1>3. BuildInv => PassedIsComplete
  <2> SUFFICES ASSUME BuildInv, qa = "passed" PROVE PassedIsComplete
    BY DEF PassedIsComplete
  <2>1. StructureAccepted(ir) /\ shown \subseteq ir.visuals
    BY DEF BuildInv
  <2>2. PICK chosen : document = Document(ir, shown, chosen)
    BY DEF BuildInv
  <2>3. PICK faults : QaPassed(ir, document, doubts, faults)
    BY DEF BuildInv
  <2> QED
    BY <2>1, <2>2, <2>3, PassedBy DEF PassedIsComplete
<1> QED
  BY <1>1, <1>2, <1>3, PTL DEF Spec
=============================================================================
