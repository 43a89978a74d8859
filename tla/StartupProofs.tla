---------------------------- MODULE StartupProofs ----------------------------
(***************************************************************************)
(* Proofs about Startup, for any flags.                                    *)
(*                                                                         *)
(* The first part is about options in general.  The value of a field after *)
(* n options depends on those options only that are for the field: it is   *)
(* as the last one of them says, or has what all of them add.  So what two *)
(* options that are elsewhere on the list have done stays done.            *)
(*                                                                         *)
(* The second part applies this to the lists of the two commands, and the  *)
(* third follows what they have made of a manager through its start-up.    *)
(***************************************************************************)
EXTENDS Startup, SequenceTheorems, WellFoundedInduction, TLAPS

\* A set of numbers has a least one.
LEMMA LeastNat == \A T \in SUBSET Nat : T # {} => \E x \in T : \A y \in T : x <= y
<1> SUFFICES ASSUME NEW T \in SUBSET Nat, T # {} PROVE \E x \in T : \A y \in T : x <= y
  OBVIOUS
<1> DEFINE R == OpToRel(<, Nat)
<1>1. R = {ss \in Nat \X Nat : ss[1] < ss[2]}
  BY DEF OpToRel
<1>2. IsWellFoundedOn(R, Nat)
  BY NatLessThanWellFounded
<1> HIDE DEF R
<1>3. PICK x \in T : \A y \in T : ~ (<<y, x>> \in R)
  BY <1>2, WFMin
<1>4. ASSUME NEW y \in T PROVE x <= y
  <2>1. x \in Nat /\ y \in Nat /\ <<y, x>> \notin R
    BY <1>3
  <2>2. <<y, x>> \in Nat \X Nat /\ ~(<<y, x>>[1] < <<y, x>>[2])
    BY <1>1, <2>1
  <2>3. ~(y < x)
    BY <2>2
  <2> QED
    BY <2>1, <2>3
<1> QED
  BY <1>4

-----------------------------------------------------------------------------
(* Options *)

LEMMA NeverWritten ==
    ASSUME NEW N \in Nat, NEW v, \A n \in 1..N : v[n] = v[n - 1]
    PROVE  \A n \in 0..N : v[n] = v[0]
<1> DEFINE Bad == {n \in 0..N : v[n] # v[0]}
<1>1. SUFFICES ASSUME Bad # {} PROVE FALSE
  OBVIOUS
<1>2. Bad \in SUBSET Nat
  OBVIOUS
<1>3. PICK n \in Bad : \A y \in Bad : n <= y
  BY <1>1, <1>2, LeastNat
<1>4. n \in 1..N /\ n - 1 \in 0..N /\ ~(n <= n - 1)
  BY <1>3
<1> QED
  BY <1>3, <1>4

\* v[n] is a value after n steps, of which those in H write w[n]; in the end
\* it is as the last one of them has left it.
Written(N, H, v, w) == \A n \in 1..N : v[n] = IF n \in H THEN w[n] ELSE v[n - 1]

Final(N, H, v, w) ==
    /\ H = {} => v[N] = v[0]
    /\ \A k \in H : (\A j \in H : j <= k) => v[N] = w[k]

LEMMA LastWriteStays ==
    \A N \in Nat : \A H \in SUBSET (1..N) : \A v, w :
        Written(N, H, v, w) => Final(N, H, v, w)
<1> SUFFICES ASSUME NEW N \in Nat, NEW H \in SUBSET (1..N), NEW v, NEW w, Written(N, H, v, w)
             PROVE  Final(N, H, v, w)
  OBVIOUS
<1>1. \A n \in 1..N : v[n] = IF n \in H THEN w[n] ELSE v[n - 1]
  BY DEF Written
<1>2. \A n \in 0..N :
         /\ (\A j \in H : ~(j <= n)) => v[n] = v[0]
         /\ \A k \in H : k <= n /\ (\A j \in H : j <= n => j <= k) => v[n] = w[k]
  <2> DEFINE P(n) == /\ (\A j \in H : ~(j <= n)) => v[n] = v[0]
                     /\ \A k \in H : k <= n /\ (\A j \in H : j <= n => j <= k) => v[n] = w[k]
             Bad  == {n \in 0..N : ~P(n)}
  <2>1. SUFFICES ASSUME Bad # {} PROVE FALSE
    OBVIOUS
  <2>2. Bad \in SUBSET Nat
    OBVIOUS
  <2>3. PICK n \in Bad : \A y \in Bad : n <= y
    BY <2>1, <2>2, LeastNat
  <2>4. n # 0
    <3>1. P(0)
      OBVIOUS
    <3> QED
      BY <2>3, <3>1
  <2>5. n \in 1..N /\ n - 1 \in 0..N
    BY <2>4
  <2>6. P(n - 1)
    BY <2>3, <2>5
  <2>7. P(n)
    <3>1. CASE n \in H
      <4>1. v[n] = w[n]
        BY <1>1, <2>5, <3>1
      <4>2. \A k \in H : k \in Nat /\ n \in Nat /\ n <= n
        BY <2>5
      <4>3. \A k \in H : k <= n /\ (\A j \in H : j <= n => j <= k) => k = n
        BY <3>1, <4>2
      <4> QED
        BY <2>5, <3>1, <4>1, <4>3
    <3>2. CASE n \notin H
      <4>1. v[n] = v[n - 1]
        BY <1>1, <2>5, <3>2
      <4>2. \A j \in H : j <= n <=> j <= n - 1
        <5> TAKE j \in H
        <5>1. j \in Int /\ n \in Int /\ j # n
          BY <2>5, <3>2
        <5> QED
          BY <5>1
      <4> QED
        BY <2>6, <4>1, <4>2
    <3> QED
      BY <3>1, <3>2
  <2> QED
    BY <2>3, <2>7
<1>3. \A k \in H : k <= N
  OBVIOUS
<1> QED
  BY <1>2, <1>3 DEF Final

\* A list of options that New can be given.
Hows == {"set", "part", "add", "put"}
Given(opts) == Len(opts) \in Nat /\ \A k \in 1..Len(opts) : opts[k].how \in Hows

\* All options for a field are of one kind; option k is the last for a field,
\* or for a part of it; there is none.
OnlyHow(opts, f, how)   == \A k \in 1..Len(opts) : opts[k].field = f => opts[k].how = how
None(opts, f)           == \A k \in 1..Len(opts) : opts[k].field # f
NoneFor(opts, f, p)     == \A k \in 1..Len(opts) : ~(opts[k].field = f /\ opts[k].part = p)
Last(opts, k, f)        == /\ k \in 1..Len(opts) /\ opts[k].field = f
                           /\ \A j \in 1..Len(opts) : opts[j].field = f => j <= k
LastFor(opts, k, f, p)  == /\ k \in 1..Len(opts) /\ opts[k].field = f /\ opts[k].part = p
                           /\ \A j \in 1..Len(opts) :
                                 opts[j].field = f /\ opts[j].part = p => j <= k

\* What an option makes of the value of its field.
Effect(v, o) ==
    CASE o.how = "set"  -> o.value
      [] o.how = "part" -> [v EXCEPT ![o.part] = o.value]
      [] o.how = "add"  -> Append(v, o.value)
      [] o.how = "put"  -> With(v, o.part, o.value)

LEMMA ApplyEffect ==
    ASSUME NEW c, NEW o, o.how \in Hows
    PROVE  /\ DOMAIN Apply(c, o) = DOMAIN c
           /\ \A f \in DOMAIN c :
                 Apply(c, o)[f] = IF f = o.field THEN Effect(c[f], o) ELSE c[f]
<1>1. CASE o.how = "set"
  BY <1>1 DEF Apply, Effect
<1>2. CASE o.how = "part"
  BY <1>2 DEF Apply, Effect
<1>3. CASE o.how = "add"
  BY <1>3 DEF Apply, Effect
<1>4. CASE o.how = "put"
  BY <1>4 DEF Apply, Effect
<1> QED
  BY <1>1, <1>2, <1>3, <1>4 DEF Hows

LEMMA OptionIs ==
    \A f, p, v :
        /\ Set(f, v).how = "set" /\ Set(f, v).how \in Hows
        /\ Set(f, v).field = f /\ Set(f, v).value = v
        /\ SetPart(f, p, v).how = "part" /\ SetPart(f, p, v).how \in Hows
        /\ SetPart(f, p, v).field = f /\ SetPart(f, p, v).part = p
        /\ SetPart(f, p, v).value = v
        /\ Add(f, v).how = "add" /\ Add(f, v).how \in Hows
        /\ Add(f, v).field = f /\ Add(f, v).value = v
        /\ Put(f, p, v).how = "put" /\ Put(f, p, v).how \in Hows
        /\ Put(f, p, v).field = f /\ Put(f, p, v).part = p /\ Put(f, p, v).value = v
BY DEF Set, SetPart, Add, Put, Hows

\* The configuration after the first n options.
Unfolds(g, defaults, opts, m) ==
    g = [n \in 0..m |-> IF n = 0 THEN defaults ELSE Apply(g[n - 1], opts[n])]

After(defaults, opts) == CHOOSE g : Unfolds(g, defaults, opts, Len(opts))

LEMMA UnfoldsExists ==
    ASSUME NEW defaults, NEW opts
    PROVE  \A m \in Nat : \E g : Unfolds(g, defaults, opts, m)
<1> DEFINE Bad == {m \in Nat : ~ \E g : Unfolds(g, defaults, opts, m)}
<1>1. SUFFICES ASSUME Bad # {} PROVE FALSE
  OBVIOUS
<1>2. PICK m \in Bad : \A y \in Bad : m <= y
  BY <1>1, LeastNat
<1>3. CASE m = 0
  <2>1. Unfolds([n \in 0..0 |-> defaults], defaults, opts, 0)
    BY DEF Unfolds
  <2> QED
    BY <1>3, <2>1
<1>4. CASE m # 0
  <2>1. m - 1 \in Nat /\ m - 1 \notin Bad
    BY <1>2, <1>4
  <2>2. PICK g : Unfolds(g, defaults, opts, m - 1)
    BY <2>1
  <2> DEFINE h == [n \in 0..m |-> IF n = m THEN Apply(g[m - 1], opts[m]) ELSE g[n]]
  <2>3. /\ g[0] = defaults
        /\ \A n \in 1..(m - 1) : g[n] = Apply(g[n - 1], opts[n])
    BY <2>1, <2>2 DEF Unfolds
  <2>4. \A n \in 0..m : h[n] = IF n = 0 THEN defaults ELSE Apply(h[n - 1], opts[n])
    BY <2>1, <2>3, <1>4
  <2>5. Unfolds(h, defaults, opts, m)
    BY <2>4 DEF Unfolds
  <2> QED
    BY <2>5, <1>2
<1> QED
  BY <1>3, <1>4

LEMMA ConfigureUnfolds ==
    ASSUME NEW defaults, NEW opts, Given(opts)
    PROVE  /\ After(defaults, opts)[0] = defaults
           /\ \A n \in 1..Len(opts) :
                 After(defaults, opts)[n] = Apply(After(defaults, opts)[n - 1], opts[n])
           /\ Configure(defaults, opts) = After(defaults, opts)[Len(opts)]
<1>1. Configure(defaults, opts) = After(defaults, opts)[Len(opts)]
  BY DEF Configure, After, Unfolds
<1>2. Len(opts) \in Nat
  BY DEF Given
<1>3. Unfolds(After(defaults, opts), defaults, opts, Len(opts))
  BY <1>2, UnfoldsExists DEF After
<1> HIDE DEF Configure
<1> QED
  BY <1>1, <1>2, <1>3 DEF Unfolds

\* A field goes through the effects of its own options.
LEMMA FieldSteps ==
    ASSUME NEW defaults, NEW opts, Given(opts)
    PROVE  /\ \A n \in 0..Len(opts) : DOMAIN After(defaults, opts)[n] = DOMAIN defaults
           /\ \A f \in DOMAIN defaults, n \in 1..Len(opts) :
                 After(defaults, opts)[n][f] =
                    IF f = opts[n].field THEN Effect(After(defaults, opts)[n - 1][f], opts[n])
                    ELSE After(defaults, opts)[n - 1][f]
<1> PICK c : c = After(defaults, opts)
  OBVIOUS
<1>1. /\ c[0] = defaults
      /\ \A n \in 1..Len(opts) : c[n] = Apply(c[n - 1], opts[n])
  BY ConfigureUnfolds
<1>2. Len(opts) \in Nat /\ \A n \in 1..Len(opts) : opts[n].how \in Hows
  BY DEF Given
<1>3. \A n \in 0..Len(opts) : DOMAIN c[n] = DOMAIN defaults
  <2> DEFINE v == [n \in 0..Len(opts) |-> DOMAIN c[n]]
  <2>1. \A n \in 1..Len(opts) : n - 1 \in 0..Len(opts) /\ v[n] = v[n - 1]
    BY <1>1, <1>2, ApplyEffect
  <2> HIDE DEF v
  <2>2. \A n \in 0..Len(opts) : v[n] = v[0]
    BY <1>2, <2>1, NeverWritten
  <2> QED
    BY <1>1, <1>2, <2>2 DEF v
<1>4. \A n \in 1..Len(opts) : n - 1 \in 0..Len(opts)
  BY <1>2
<1> QED
  BY <1>1, <1>2, <1>3, <1>4, ApplyEffect

\* A field that no option is for keeps its default, and one that options set
\* is as the last of them says.
LEMMA SetField ==
    ASSUME NEW defaults, NEW opts, Given(opts), NEW f \in DOMAIN defaults,
           OnlyHow(opts, f, "set")
    PROVE  /\ None(opts, f) => Configure(defaults, opts)[f] = defaults[f]
           /\ \A k : Last(opts, k, f) => Configure(defaults, opts)[f] = opts[k].value
<1> PICK N : N = Len(opts)
  OBVIOUS
<1> DEFINE H == {n \in 1..N : opts[n].field = f}
           v == [n \in 0..N |-> After(defaults, opts)[n][f]]
           w == [n \in 1..N |-> opts[n].value]
<1>1. N \in Nat
  BY DEF Given
<1>2. \A n \in 1..N : n - 1 \in 0..N /\ n \in 0..N
  BY <1>1
<1>3. \A n \in 1..N : v[n] = IF n \in H THEN w[n] ELSE v[n - 1]
  <2> TAKE n \in 1..N
  <2>1. After(defaults, opts)[n][f] =
           IF f = opts[n].field THEN Effect(After(defaults, opts)[n - 1][f], opts[n])
           ELSE After(defaults, opts)[n - 1][f]
    BY FieldSteps
  <2>2. f = opts[n].field => Effect(After(defaults, opts)[n - 1][f], opts[n]) = opts[n].value
    BY DEF Effect, OnlyHow
  <2> QED
    BY <1>2, <2>1, <2>2
<1>4. v[0] = defaults[f] /\ v[N] = Configure(defaults, opts)[f] /\ N \in 0..N
  BY <1>1, ConfigureUnfolds
<1>5. Final(N, H, v, w)
  <2>1. Written(N, H, v, w)
    BY <1>3 DEF Written
  <2>2. H \in SUBSET (1..N)
    OBVIOUS
  <2> HIDE DEF v, w, H
  <2> QED
    BY <1>1, <2>1, <2>2, LastWriteStays
<1>6. v[N] = Configure(defaults, opts)[f] /\ v[0] = defaults[f]
  BY <1>4
<1> HIDE DEF v
<1> QED
  BY <1>5, <1>6 DEF Final, None, Last

\* So is a part of a field that options set in parts.
IsRecord(g) == g = [x \in DOMAIN g |-> g[x]]

LEMMA PartField ==
    ASSUME NEW defaults, NEW opts, Given(opts), NEW f \in DOMAIN defaults,
           OnlyHow(opts, f, "part")
    PROVE  /\ DOMAIN Configure(defaults, opts)[f] = DOMAIN defaults[f]
           /\ IsRecord(defaults[f]) => IsRecord(Configure(defaults, opts)[f])
           /\ \A p \in DOMAIN defaults[f] :
                 /\ NoneFor(opts, f, p) => Configure(defaults, opts)[f][p] = defaults[f][p]
                 /\ \A k : LastFor(opts, k, f, p) =>
                              Configure(defaults, opts)[f][p] = opts[k].value
<1> PICK N : N = Len(opts)
  OBVIOUS
<1>1. N \in Nat
  BY DEF Given
<1>2. \A n \in 1..N : n - 1 \in 0..N /\ n \in 0..N
  BY <1>1
<1>3. ASSUME NEW n \in 1..N
      PROVE  After(defaults, opts)[n][f] =
                IF f = opts[n].field
                THEN [After(defaults, opts)[n - 1][f] EXCEPT ![opts[n].part] = opts[n].value]
                ELSE After(defaults, opts)[n - 1][f]
  <2>1. After(defaults, opts)[n][f] =
           IF f = opts[n].field THEN Effect(After(defaults, opts)[n - 1][f], opts[n])
           ELSE After(defaults, opts)[n - 1][f]
    BY FieldSteps
  <2>2. ASSUME NEW x, f = opts[n].field
        PROVE  Effect(x, opts[n]) = [x EXCEPT ![opts[n].part] = opts[n].value]
    BY <2>2 DEF Effect, OnlyHow
  <2> QED
    BY <2>1, <2>2
<1>4. /\ After(defaults, opts)[0][f] = defaults[f]
      /\ After(defaults, opts)[N][f] = Configure(defaults, opts)[f] /\ N \in 0..N
  BY <1>1, ConfigureUnfolds
<1>5. \A n \in 0..N : DOMAIN After(defaults, opts)[n][f] = DOMAIN defaults[f]
  <2> DEFINE u == [n \in 0..N |-> DOMAIN After(defaults, opts)[n][f]]
  <2>1. \A n \in 1..N : u[n] = u[n - 1]
    BY <1>2, <1>3
  <2>2. \A n \in 0..N : u[n] = DOMAIN After(defaults, opts)[n][f]
    OBVIOUS
  <2>3. u[0] = DOMAIN defaults[f]
    BY <1>1, <1>4
  <2> HIDE DEF u
  <2>4. \A n \in 0..N : u[n] = u[0]
    BY <1>1, <2>1, NeverWritten
  <2> QED
    BY <2>2, <2>3, <2>4
<1>6. ASSUME NEW p \in DOMAIN defaults[f]
      PROVE  /\ NoneFor(opts, f, p) => Configure(defaults, opts)[f][p] = defaults[f][p]
             /\ \A k : LastFor(opts, k, f, p) =>
                          Configure(defaults, opts)[f][p] = opts[k].value
  <2> DEFINE H == {n \in 1..N : opts[n].field = f /\ opts[n].part = p}
             v == [n \in 0..N |-> After(defaults, opts)[n][f][p]]
             w == [n \in 1..N |-> opts[n].value]
  <2>1. \A n \in 1..N : v[n] = IF n \in H THEN w[n] ELSE v[n - 1]
    BY <1>2, <1>3, <1>5
  <2>2. v[0] = defaults[f][p] /\ v[N] = Configure(defaults, opts)[f][p]
    BY <1>1, <1>4
  <2>3. Final(N, H, v, w)
    <3>1. Written(N, H, v, w)
      BY <2>1 DEF Written
    <3>2. H \in SUBSET (1..N)
      OBVIOUS
    <3> HIDE DEF v, w, H
    <3> QED
      BY <1>1, <3>1, <3>2, LastWriteStays
  <2> HIDE DEF v
  <2> QED
    BY <2>2, <2>3 DEF Final, NoneFor, LastFor
<1>7. ASSUME IsRecord(defaults[f]) PROVE IsRecord(Configure(defaults, opts)[f])
  <2> DEFINE Bad == {n \in 0..N : ~IsRecord(After(defaults, opts)[n][f])}
  <2>1. ASSUME Bad # {} PROVE FALSE
    <3>1. Bad \in SUBSET Nat
      OBVIOUS
    <3>2. PICK n \in Bad : \A y \in Bad : n <= y
      BY <2>1, <3>1, LeastNat
    <3>3. n # 0
      BY <1>4, <1>7, <3>2
    <3>4. n \in 1..N /\ n - 1 \in 0..N /\ ~(n <= n - 1)
      BY <1>1, <3>2, <3>3
    <3>5. IsRecord(After(defaults, opts)[n - 1][f])
      BY <3>2, <3>4
    <3>6. IsRecord(After(defaults, opts)[n][f])
      <4>1. CASE f = opts[n].field
        <5>1. After(defaults, opts)[n][f] =
                 [After(defaults, opts)[n - 1][f] EXCEPT ![opts[n].part] = opts[n].value]
          BY <1>3, <3>4, <4>1
        <5>2. \A z : z = After(defaults, opts)[n][f] => z = [x \in DOMAIN z |-> z[x]]
          BY <5>1
        <5> QED
          BY <5>2 DEF IsRecord
      <4>2. CASE f # opts[n].field
        BY <1>3, <3>4, <3>5, <4>2
      <4> QED
        BY <4>1, <4>2
    <3> QED
      BY <3>2, <3>6
  <2> QED
    BY <1>4, <2>1
<1> QED
  BY <1>4, <1>5, <1>6, <1>7

\* An entry that an option puts into a map is there, as the last one has it.
LEMMA MapField ==
    ASSUME NEW defaults, NEW opts, Given(opts), NEW f \in DOMAIN defaults,
           OnlyHow(opts, f, "put"), NEW k, NEW name, LastFor(opts, k, f, name)
    PROVE  /\ name \in DOMAIN Configure(defaults, opts)[f]
           /\ Configure(defaults, opts)[f][name] = opts[k].value
<1> PICK N : N = Len(opts)
  OBVIOUS
<1> DEFINE at(n) == After(defaults, opts)[n][f]
           H == {n \in 1..N : opts[n].field = f /\ opts[n].part = name}
           v == [n \in 0..N |-> IF name \in DOMAIN at(n) THEN <<at(n)[name]>> ELSE <<>>]
           w == [n \in 1..N |-> <<opts[n].value>>]
<1>1. N \in Nat
  BY DEF Given
<1>2. \A n \in 1..N : n - 1 \in 0..N /\ n \in 0..N
  BY <1>1
<1>3. \A n \in 1..N : at(n) = IF f = opts[n].field
                              THEN With(at(n - 1), opts[n].part, opts[n].value)
                              ELSE at(n - 1)
  <2> TAKE n \in 1..N
  <2>1. at(n) = IF f = opts[n].field THEN Effect(at(n - 1), opts[n]) ELSE at(n - 1)
    BY FieldSteps
  <2>2. ASSUME NEW x, f = opts[n].field
        PROVE  Effect(x, opts[n]) = With(x, opts[n].part, opts[n].value)
    BY <2>2 DEF Effect, OnlyHow
  <2> HIDE DEF at
  <2> QED
    BY <2>1, <2>2
<1>4. \A n \in 1..N : v[n] = IF n \in H THEN w[n] ELSE v[n - 1]
  <2> TAKE n \in 1..N
  <2>1. /\ v[n] = IF name \in DOMAIN at(n) THEN <<at(n)[name]>> ELSE <<>>
        /\ v[n - 1] = IF name \in DOMAIN at(n - 1) THEN <<at(n - 1)[name]>> ELSE <<>>
        /\ w[n] = <<opts[n].value>>
    BY <1>2
  <2> HIDE DEF v, w, at
  <2>2. CASE n \in H
    <3>1. at(n) = With(at(n - 1), name, opts[n].value)
      BY <1>3, <2>2
    <3>2. name \in DOMAIN at(n) /\ at(n)[name] = opts[n].value
      BY <3>1 DEF With
    <3> QED
      BY <2>1, <2>2, <3>2
  <2>3. CASE n \notin H /\ f = opts[n].field
    <3>1. at(n) = With(at(n - 1), opts[n].part, opts[n].value) /\ name # opts[n].part
      BY <1>3, <2>3
    <3>2. name \in DOMAIN at(n) <=> name \in DOMAIN at(n - 1)
      BY <3>1 DEF With
    <3>3. name \in DOMAIN at(n) => at(n)[name] = at(n - 1)[name]
      BY <3>1 DEF With
    <3> HIDE DEF H
    <3> QED
      BY <2>1, <2>3, <3>2, <3>3
  <2>4. CASE n \notin H /\ f # opts[n].field
    BY <1>3, <2>1, <2>4
  <2> QED
    BY <2>2, <2>3, <2>4
<1>5. at(N) = Configure(defaults, opts)[f] /\ N \in 0..N
  BY <1>1, ConfigureUnfolds
<1>6. v[N] = IF name \in DOMAIN at(N) THEN <<at(N)[name]>> ELSE <<>>
  BY <1>5
<1>7. w[k] = <<opts[k].value>> /\ k \in H /\ \A j \in H : j <= k
  BY DEF LastFor
<1>8. v[N] = w[k]
  <2>1. H \in SUBSET (1..N)
    OBVIOUS
  <2>2. Written(N, H, v, w)
    BY <1>4 DEF Written
  <2> HIDE DEF v, w, H
  <2>3. Final(N, H, v, w)
    BY <1>1, <2>1, <2>2, LastWriteStays
  <2> QED
    BY <1>7, <2>3 DEF Final
<1> PICK map : map = Configure(defaults, opts)[f]
  OBVIOUS
<1>9. (IF name \in DOMAIN map THEN <<map[name]>> ELSE <<>>) = <<opts[k].value>>
  <2> HIDE DEF v, w, at
  <2> QED
    BY <1>5, <1>6, <1>7, <1>8
<1>10. name \in DOMAIN map /\ map[name] = opts[k].value
  <2>1. name \in DOMAIN map
    BY <1>9
  <2> QED
    BY <1>9, <2>1
<1> QED
  BY <1>10

\* A list that options add to has what they add, and nothing else comes in.
Additions(opts, f) == {opts[k].value : k \in {j \in 1..Len(opts) : opts[j].field = f}}

LEMMA ListField ==
    ASSUME NEW defaults, NEW opts, Given(opts), NEW f \in DOMAIN defaults,
           defaults[f] = <<>>, OnlyHow(opts, f, "add")
    PROVE  Elements(Configure(defaults, opts)[f]) = Additions(opts, f)
<1> PICK N : N = Len(opts)
  OBVIOUS
<1> DEFINE S       == {opts[k].value : k \in 1..N}
           Upto(n) == {opts[k].value : k \in {j \in 1..n : opts[j].field = f}}
           at(n)   == After(defaults, opts)[n][f]
           Bad     == {n \in 0..N : ~(at(n) \in Seq(S) /\ Elements(at(n)) = Upto(n))}
<1>1. N \in Nat
  BY DEF Given
<1>2. Bad = {}
  <2>1. SUFFICES ASSUME Bad # {} PROVE FALSE
    OBVIOUS
  <2>2. Bad \in SUBSET Nat
    OBVIOUS
  <2>3. PICK n \in Bad : \A y \in Bad : n <= y
    BY <2>1, <2>2, LeastNat
  <2>4. n # 0
    <3>1. at(0) = <<>>
      BY ConfigureUnfolds
    <3>2. <<>> \in Seq(S) /\ Elements(<<>>) = {} /\ Upto(0) = {}
      BY EmptySeq DEF Elements
    <3> QED
      BY <2>3, <3>1, <3>2
  <2>5. n \in 1..N /\ n - 1 \in 0..N /\ ~(n <= n - 1) /\ n \in Nat /\ n - 1 \in Nat
    BY <1>1, <2>3, <2>4
  <2>6. at(n - 1) \in Seq(S) /\ Elements(at(n - 1)) = Upto(n - 1)
    BY <2>3, <2>5
  <2>7. at(n) = IF f = opts[n].field THEN Append(at(n - 1), opts[n].value) ELSE at(n - 1)
    <3>1. at(n) = IF f = opts[n].field THEN Effect(at(n - 1), opts[n]) ELSE at(n - 1)
      BY <2>5, FieldSteps
    <3>2. ASSUME NEW x, f = opts[n].field PROVE Effect(x, opts[n]) = Append(x, opts[n].value)
      BY <2>5, <3>2 DEF Effect, OnlyHow
    <3> HIDE DEF at
    <3> QED
      BY <3>1, <3>2
  <2>8. Upto(n) = Upto(n - 1) \cup (IF f = opts[n].field THEN {opts[n].value} ELSE {})
    <3>1. \A j : j \in 1..n <=> j \in 1..(n - 1) \/ j = n
      BY <2>5
    <3> QED
      BY <3>1
  <2>9. at(n) \in Seq(S) /\ Elements(at(n)) = Upto(n)
    <3>1. CASE f = opts[n].field
      <4>1. opts[n].value \in S
        BY <2>5
      <4> HIDE DEF S, at, Upto
      <4> PICK s : s = at(n - 1)
        OBVIOUS
      <4>2. s \in Seq(S) /\ at(n) = Append(s, opts[n].value)
        BY <2>6, <2>7, <3>1
      <4>3. /\ Append(s, opts[n].value) \in Seq(S)
            /\ Len(Append(s, opts[n].value)) = Len(s) + 1
            /\ \A j \in 1..Len(s) : Append(s, opts[n].value)[j] = s[j]
            /\ Append(s, opts[n].value)[Len(s) + 1] = opts[n].value
        BY <4>1, <4>2, AppendProperties
      <4>4. DOMAIN at(n) = 1..(Len(s) + 1) /\ DOMAIN s = 1..Len(s) /\ Len(s) \in Nat
        BY <4>2, <4>3, LenProperties
      <4>5. \A j : j \in 1..(Len(s) + 1) <=> j \in 1..Len(s) \/ j = Len(s) + 1
        BY <4>4
      <4>6. Elements(at(n)) = Elements(s) \cup {opts[n].value}
        BY <4>2, <4>3, <4>4, <4>5 DEF Elements
      <4> QED
        BY <2>6, <2>8, <3>1, <4>2, <4>3, <4>6
    <3>2. CASE f # opts[n].field
      BY <2>6, <2>7, <2>8, <3>2
    <3> QED
      BY <3>1, <3>2
  <2> QED
    BY <2>3, <2>9
<1>3. at(N) = Configure(defaults, opts)[f] /\ N \in 0..N
  BY <1>1, ConfigureUnfolds
<1>4. \A n \in 0..N : Elements(at(n)) = Upto(n)
  <2> HIDE DEF at, Upto, S
  <2> QED
    BY <1>2
<1>5. Upto(N) = Additions(opts, f)
  BY DEF Additions
<1> HIDE DEF at, Upto
<1> QED
  BY <1>3, <1>4, <1>5

-----------------------------------------------------------------------------
(* The managers of the two commands *)

LEMMA ControllerManagerIs ==
    /\ Given(ControllerManager) /\ Len(ControllerManager) = 12
    /\ ControllerManager[1] = Add("addToSchemes", "kubernetes")
    /\ ControllerManager[2] = Add("addToSchemes", "extensions")
    /\ ControllerManager[3] = Add("addToSchemes", "resources")
    /\ ControllerManager[4] = Add("installSchemes", "config")
    /\ ControllerManager[5] = Set("healthProbeAddr", config.probeAddress)
    /\ ControllerManager[6] = SetPart("leaderElection", "enabled", config.leaderElection)
    /\ ControllerManager[7] = SetPart("leaderElection", "id", "controller")
    /\ ControllerManager[8] = SetPart("leaderElection", "namespace", "extension")
    /\ ControllerManager[9] = SetPart("controllerOpts", "workers", config.workers)
    /\ ControllerManager[10] = SetPart("controllerOpts", "timeout", config.timeout)
    /\ ControllerManager[11] = Put("healthzChecks", "healthz", "ping")
    /\ ControllerManager[12] = Put("readyzChecks", "readyz", "ping")
<1> USE DEF ControllerManager, WithAddToScheme, WithInstallScheme, WithHealthProbeAddress,
        WithLeaderElection, WithLeaderElectionID, WithLeaderElectionNamespace,
        WithMaxConcurrentReconciles, WithReconciliationTimeout, WithHealthzCheck, WithReadyzCheck
<1>1. Len(ControllerManager) = 12
  OBVIOUS
<1>2. \A k \in 1..12 : ControllerManager[k].how \in Hows
  BY DEF Hows, Add, Set, SetPart, Put
<1> QED
  BY <1>1, <1>2 DEF Given

LEMMA WebhookManagerIs ==
    /\ Given(WebhookManager) /\ Len(WebhookManager) = 17
    /\ WebhookManager[1] = Set("restConfig", "target")
    /\ WebhookManager[2] = Add("addToSchemes", "kubernetes")
    /\ WebhookManager[3] = Add("installSchemes", "core")
    /\ WebhookManager[4] = Add("installSchemes", "config")
    /\ WebhookManager[5] = Set("healthProbeAddr", config.probeAddress)
    /\ WebhookManager[6] = SetPart("leaderElection", "enabled", config.leaderElection)
    /\ WebhookManager[7] = SetPart("leaderElection", "id", "webhook")
    /\ WebhookManager[8] = SetPart("leaderElection", "namespace", "extension")
    /\ WebhookManager[9] = SetPart("leaderElection", "cluster", "source")
    /\ WebhookManager[10] = SetPart("controllerOpts", "workers", config.workers)
    /\ WebhookManager[11] = SetPart("controllerOpts", "timeout", config.timeout)
    /\ WebhookManager[12] = Put("healthzChecks", "healthz", "ping")
    /\ WebhookManager[13] = Put("readyzChecks", "readyz", "ping")
    /\ WebhookManager[14] = Set("webhookServer", "webhookServer")
    /\ WebhookManager[15] = Put("readyzChecks", "webhookServer", "webhookServer")
    /\ WebhookManager[16] = Put("readyzChecks", "sourceInformerSync", "sourceCluster")
    /\ WebhookManager[17] = Add("runnables", "sourceCluster")
<1> USE DEF WebhookManager, WebhookOptions, SourceCluster, WithConfig, WithAddToScheme,
        WithInstallScheme, WithHealthProbeAddress, WithLeaderElection, WithLeaderElectionID,
        WithLeaderElectionNamespace, WithLeaderElectionConfig, WithMaxConcurrentReconciles,
        WithReconciliationTimeout, WithHealthzCheck, WithReadyzCheck, WithWebhookServer,
        WithRunnable
<1>1. Len(WebhookManager) = 17
  OBVIOUS
<1>2. \A k \in 1..17 : WebhookManager[k].how \in Hows
  BY DEF Hows, Add, Set, SetPart, Put
<1> QED
  BY <1>1, <1>2 DEF Given

\* The defaults, as the lemmas about options need them.
LEMMA ManagerDefaultsAre ==
    /\ "restConfig" \in DOMAIN ManagerDefaults /\ ManagerDefaults["restConfig"] = Unset
    /\ "webhookServer" \in DOMAIN ManagerDefaults
    /\ "readyzChecks" \in DOMAIN ManagerDefaults
    /\ "addToSchemes" \in DOMAIN ManagerDefaults /\ ManagerDefaults["addToSchemes"] = <<>>
    /\ "installSchemes" \in DOMAIN ManagerDefaults /\ ManagerDefaults["installSchemes"] = <<>>
    /\ "runnables" \in DOMAIN ManagerDefaults /\ ManagerDefaults["runnables"] = <<>>
    /\ "controllerOpts" \in DOMAIN ManagerDefaults
    /\ ManagerDefaults["controllerOpts"] = DefaultControllerOptions
    /\ "leaderElection" \in DOMAIN ManagerDefaults
    /\ DOMAIN ManagerDefaults["leaderElection"] = {"enabled", "id", "namespace", "cluster"}
    /\ ManagerDefaults["leaderElection"]["cluster"] = Unset
BY DEF ManagerDefaults

\* What the properties need of the configuration that the flags end up in.
FlagOptions == [workers |-> config.workers, timeout |-> config.timeout, recoverPanic |-> TRUE]

\* The options for reconciling and for leader election, wherever they are on
\* the list.
LEMMA ControllerOptsAre ==
    ASSUME NEW defaults, "controllerOpts" \in DOMAIN defaults,
           defaults["controllerOpts"] = DefaultControllerOptions, NEW o, Given(o), NEW j \in 1..Len(o), NEW k \in 1..Len(o), j # k,
           o[j] = SetPart("controllerOpts", "workers", config.workers),
           o[k] = SetPart("controllerOpts", "timeout", config.timeout),
           \A n \in 1..Len(o) : o[n].field = "controllerOpts" => n \in {j, k}
    PROVE  Configure(defaults, o).controllerOpts = FlagOptions
<1>1. /\ o[j].how = "part" /\ o[j].part = "workers" /\ o[j].value = config.workers
      /\ o[k].how = "part" /\ o[k].part = "timeout" /\ o[k].value = config.timeout
      /\ o[j].field = "controllerOpts" /\ o[k].field = "controllerOpts"
  BY DEF SetPart
<1>2. OnlyHow(o, "controllerOpts", "part")
  BY <1>1 DEF OnlyHow
<1>3. /\ LastFor(o, j, "controllerOpts", "workers")
      /\ LastFor(o, k, "controllerOpts", "timeout")
      /\ NoneFor(o, "controllerOpts", "recoverPanic")
  <2>1. j \in Int /\ k \in Int /\ j <= j /\ k <= k
    BY DEF Given
  <2> QED
    BY <1>1, <2>1 DEF LastFor, NoneFor
<1> PICK d : d = defaults["controllerOpts"]
  OBVIOUS
<1>4. /\ DOMAIN d = {"workers", "timeout", "recoverPanic"} /\ d["recoverPanic"] = TRUE
      /\ IsRecord(d)
  BY DEF DefaultControllerOptions, IsRecord
<1> PICK c : c = Configure(defaults, o)["controllerOpts"]
  OBVIOUS
<1>5. /\ DOMAIN c = DOMAIN d /\ (IsRecord(d) => IsRecord(c))
      /\ \A p \in DOMAIN d :
            /\ NoneFor(o, "controllerOpts", p) => c[p] = d[p]
            /\ \A m : LastFor(o, m, "controllerOpts", p) => c[p] = o[m].value
  BY <1>2, <1>4, PartField
<1>6. /\ c["workers"] = config.workers /\ c["timeout"] = config.timeout
      /\ c["recoverPanic"] = TRUE
      /\ DOMAIN c = {"workers", "timeout", "recoverPanic"} /\ IsRecord(c)
  <2>1. "workers" \in DOMAIN d /\ "timeout" \in DOMAIN d /\ "recoverPanic" \in DOMAIN d
    BY <1>4
  <2>2. c["workers"] = o[j].value /\ c["timeout"] = o[k].value /\ c["recoverPanic"] = d["recoverPanic"]
    BY <1>3, <1>5, <2>1
  <2> QED
    BY <1>1, <1>4, <1>5, <2>2
<1>7. c = FlagOptions
  BY <1>6 DEF IsRecord, FlagOptions
<1> QED
  BY <1>7
\* Leader election, where no option or one says in which cluster.
LEMMA LeaderElectionIs ==
    ASSUME NEW o, Given(o), OnlyHow(o, "leaderElection", "part"),
           NEW j, LastFor(o, j, "leaderElection", "enabled")
    PROVE  LET e == Configure(ManagerDefaults, o)["leaderElection"]
           IN  /\ DOMAIN e = {"enabled", "id", "namespace", "cluster"}
               /\ e["enabled"] = o[j].value
               /\ NoneFor(o, "leaderElection", "cluster") => e["cluster"] = Unset
               /\ \A k : LastFor(o, k, "leaderElection", "cluster") => e["cluster"] = o[k].value
<1> PICK d : d = ManagerDefaults["leaderElection"]
  OBVIOUS
<1> PICK e : e = Configure(ManagerDefaults, o)["leaderElection"]
  OBVIOUS
<1>1. /\ "leaderElection" \in DOMAIN ManagerDefaults
      /\ DOMAIN d = {"enabled", "id", "namespace", "cluster"} /\ d["cluster"] = Unset
  BY ManagerDefaultsAre
<1>2. /\ DOMAIN e = DOMAIN d
      /\ \A p \in DOMAIN d :
            /\ NoneFor(o, "leaderElection", p) => e[p] = d[p]
            /\ \A m : LastFor(o, m, "leaderElection", p) => e[p] = o[m].value
  BY <1>1, PartField
<1>3. "enabled" \in DOMAIN d /\ "cluster" \in DOMAIN d
  BY <1>1
<1> QED
  BY <1>1, <1>2, <1>3

\* What the two managers are configured with.
LEMMA ControllerConfigured ==
    LET c == Configure(ManagerDefaults, ControllerManager)
    IN  /\ c.restConfig = Unset /\ c.controllerOpts = FlagOptions
        /\ c.leaderElection["enabled"] = config.leaderElection
        /\ c.leaderElection["cluster"] = Unset
        /\ DOMAIN c.leaderElection = {"enabled", "id", "namespace", "cluster"}
        /\ "kubernetes" \in Elements(c.addToSchemes)
        /\ "config" \in Elements(c.installSchemes)
        /\ Elements(c.runnables) = {}
<1> PICK o : o = ControllerManager
  OBVIOUS
<1>1. Given(o) /\ Len(o) = 12
  BY ControllerManagerIs
<1>2. /\ o[1].field = "addToSchemes" /\ o[1].how = "add" /\ o[1].value = "kubernetes"
      /\ o[2].field = "addToSchemes" /\ o[2].how = "add"
      /\ o[3].field = "addToSchemes" /\ o[3].how = "add"
      /\ o[4].field = "installSchemes" /\ o[4].how = "add" /\ o[4].value = "config"
      /\ o[5].field = "healthProbeAddr"
      /\ o[6].field = "leaderElection" /\ o[6].how = "part" /\ o[6].part = "enabled"
      /\ o[6].value = config.leaderElection
      /\ o[7].field = "leaderElection" /\ o[7].how = "part" /\ o[7].part = "id"
      /\ o[8].field = "leaderElection" /\ o[8].how = "part" /\ o[8].part = "namespace"
      /\ o[9].field = "controllerOpts" /\ o[10].field = "controllerOpts"
      /\ o[11].field = "healthzChecks" /\ o[12].field = "readyzChecks"
  BY ControllerManagerIs DEF Add, Set, SetPart, Put
<1>3. \A k \in 1..Len(o) : k \in {1, 2, 3, 4, 5, 6, 7, 8, 9, 10, 11, 12}
  BY <1>1
<1>4. /\ None(o, "restConfig") /\ OnlyHow(o, "restConfig", "set")
      /\ None(o, "runnables") /\ OnlyHow(o, "runnables", "add")
      /\ OnlyHow(o, "addToSchemes", "add") /\ OnlyHow(o, "installSchemes", "add")
      /\ OnlyHow(o, "leaderElection", "part")
      /\ LastFor(o, 6, "leaderElection", "enabled") /\ NoneFor(o, "leaderElection", "cluster")
      /\ \A n \in 1..Len(o) : o[n].field = "controllerOpts" => n \in {9, 10}
  BY <1>1, <1>2, <1>3 DEF None, OnlyHow, LastFor, NoneFor
<1>5. Configure(ManagerDefaults, o)["restConfig"] = Unset
  BY <1>1, <1>4, SetField, ManagerDefaultsAre
<1>6. Configure(ManagerDefaults, o).controllerOpts = FlagOptions
  <2>1. /\ o[9] = SetPart("controllerOpts", "workers", config.workers)
        /\ o[10] = SetPart("controllerOpts", "timeout", config.timeout)
        /\ 9 \in 1..Len(o) /\ 10 \in 1..Len(o) /\ 9 # 10
    BY <1>1, ControllerManagerIs
  <2> QED
    BY <1>1, <1>4, <2>1, ControllerOptsAre, ManagerDefaultsAre
<1>7. LET e == Configure(ManagerDefaults, o)["leaderElection"]
      IN  /\ e["enabled"] = config.leaderElection /\ e["cluster"] = Unset
          /\ DOMAIN e = {"enabled", "id", "namespace", "cluster"}
  BY <1>1, <1>2, <1>4, LeaderElectionIs
<1>8. /\ "kubernetes" \in Elements(Configure(ManagerDefaults, o)["addToSchemes"])
      /\ "config" \in Elements(Configure(ManagerDefaults, o)["installSchemes"])
      /\ Elements(Configure(ManagerDefaults, o)["runnables"]) = {}
  <2>1. /\ Elements(Configure(ManagerDefaults, o)["addToSchemes"]) = Additions(o, "addToSchemes")
        /\ Elements(Configure(ManagerDefaults, o)["installSchemes"]) =
              Additions(o, "installSchemes")
        /\ Elements(Configure(ManagerDefaults, o)["runnables"]) = Additions(o, "runnables")
    BY <1>1, <1>4, ListField, ManagerDefaultsAre
  <2>2. o[1].value \in Additions(o, "addToSchemes") /\ o[4].value \in Additions(o, "installSchemes")
    BY <1>1, <1>2 DEF Additions
  <2>3. Additions(o, "runnables") = {}
    BY <1>4 DEF None, Additions
  <2> QED
    BY <1>2, <2>1, <2>2, <2>3
<1> QED
  BY <1>5, <1>6, <1>7, <1>8

LEMMA WebhookConfigured ==
    LET c == Configure(ManagerDefaults, WebhookManager)
    IN  /\ c.controllerOpts = FlagOptions
        /\ c.leaderElection["enabled"] = config.leaderElection
        /\ c.leaderElection["cluster"] = "source"
        /\ "kubernetes" \in Elements(c.addToSchemes)
        /\ {"config", "core"} \subseteq Elements(c.installSchemes)
        /\ Elements(c.runnables) = {"sourceCluster"}
        /\ c.webhookServer = "webhookServer"
        /\ {"webhookServer", "sourceInformerSync"} \subseteq DOMAIN c.readyzChecks
        /\ c.readyzChecks["webhookServer"] = "webhookServer"
        /\ c.readyzChecks["sourceInformerSync"] = "sourceCluster"
<1> PICK o : o = WebhookManager
  OBVIOUS
<1>1. Given(o) /\ Len(o) = 17
  BY WebhookManagerIs
<1>2. /\ o[1].field = "restConfig"
      /\ o[2].field = "addToSchemes" /\ o[2].how = "add" /\ o[2].value = "kubernetes"
      /\ o[3].field = "installSchemes" /\ o[3].how = "add" /\ o[3].value = "core"
      /\ o[4].field = "installSchemes" /\ o[4].how = "add" /\ o[4].value = "config"
      /\ o[5].field = "healthProbeAddr"
      /\ o[6].field = "leaderElection" /\ o[6].how = "part" /\ o[6].part = "enabled"
      /\ o[6].value = config.leaderElection
      /\ o[7].field = "leaderElection" /\ o[7].how = "part" /\ o[7].part = "id"
      /\ o[8].field = "leaderElection" /\ o[8].how = "part" /\ o[8].part = "namespace"
      /\ o[9].field = "leaderElection" /\ o[9].how = "part" /\ o[9].part = "cluster"
      /\ o[9].value = "source"
      /\ o[10].field = "controllerOpts" /\ o[11].field = "controllerOpts"
      /\ o[12].field = "healthzChecks"
  BY WebhookManagerIs DEF Add, Set, SetPart, Put
<1>3. /\ o[13].field = "readyzChecks" /\ o[13].how = "put" /\ o[13].part = "readyz"
      /\ o[14].field = "webhookServer" /\ o[14].how = "set" /\ o[14].value = "webhookServer"
      /\ o[15].field = "readyzChecks" /\ o[15].how = "put" /\ o[15].part = "webhookServer"
      /\ o[15].value = "webhookServer"
      /\ o[16].field = "readyzChecks" /\ o[16].how = "put" /\ o[16].part = "sourceInformerSync"
      /\ o[16].value = "sourceCluster"
      /\ o[17].field = "runnables" /\ o[17].how = "add" /\ o[17].value = "sourceCluster"
  BY WebhookManagerIs DEF Add, Set, SetPart, Put
<1>4. \A k \in 1..Len(o) :
         k \in {1, 2, 3, 4, 5, 6, 7, 8, 9, 10, 11, 12, 13, 14, 15, 16, 17}
  BY <1>1
<1>5. /\ OnlyHow(o, "runnables", "add") /\ OnlyHow(o, "addToSchemes", "add")
      /\ OnlyHow(o, "installSchemes", "add") /\ OnlyHow(o, "leaderElection", "part")
      /\ OnlyHow(o, "webhookServer", "set") /\ OnlyHow(o, "readyzChecks", "put")
  BY <1>1, <1>2, <1>3, <1>4 DEF OnlyHow
<1>6. /\ LastFor(o, 6, "leaderElection", "enabled")
      /\ LastFor(o, 9, "leaderElection", "cluster")
      /\ Last(o, 14, "webhookServer")
      /\ LastFor(o, 15, "readyzChecks", "webhookServer")
      /\ LastFor(o, 16, "readyzChecks", "sourceInformerSync")
      /\ \A n \in 1..Len(o) : o[n].field = "controllerOpts" => n \in {10, 11}
      /\ \A n \in 1..Len(o) : o[n].field = "runnables" => n = 17
  BY <1>1, <1>2, <1>3, <1>4 DEF LastFor, Last
<1>7. Configure(ManagerDefaults, o)["webhookServer"] = "webhookServer"
  BY <1>1, <1>3, <1>5, <1>6, SetField, ManagerDefaultsAre
<1>8. Configure(ManagerDefaults, o).controllerOpts = FlagOptions
  <2>1. /\ o[10] = SetPart("controllerOpts", "workers", config.workers)
        /\ o[11] = SetPart("controllerOpts", "timeout", config.timeout)
        /\ 10 \in 1..Len(o) /\ 11 \in 1..Len(o) /\ 10 # 11
    BY <1>1, WebhookManagerIs
  <2>2. /\ \A n \in 1..Len(o) : o[n].field = "controllerOpts" => n \in {10, 11}
        /\ "controllerOpts" \in DOMAIN ManagerDefaults
        /\ ManagerDefaults["controllerOpts"] = DefaultControllerOptions
    BY <1>6, ManagerDefaultsAre
  <2> QED
    BY <1>1, <2>1, <2>2, ControllerOptsAre
<1>9. LET e == Configure(ManagerDefaults, o)["leaderElection"]
      IN  e["enabled"] = config.leaderElection /\ e["cluster"] = "source"
  BY <1>1, <1>2, <1>5, <1>6, LeaderElectionIs
<1>10. /\ "kubernetes" \in Elements(Configure(ManagerDefaults, o)["addToSchemes"])
       /\ {"config", "core"} \subseteq Elements(Configure(ManagerDefaults, o)["installSchemes"])
       /\ Elements(Configure(ManagerDefaults, o)["runnables"]) = {"sourceCluster"}
  <2>1. /\ Elements(Configure(ManagerDefaults, o)["addToSchemes"]) = Additions(o, "addToSchemes")
        /\ Elements(Configure(ManagerDefaults, o)["installSchemes"]) =
              Additions(o, "installSchemes")
        /\ Elements(Configure(ManagerDefaults, o)["runnables"]) = Additions(o, "runnables")
    BY <1>1, <1>5, ListField, ManagerDefaultsAre
  <2>2. /\ o[2].value \in Additions(o, "addToSchemes")
        /\ o[3].value \in Additions(o, "installSchemes")
        /\ o[4].value \in Additions(o, "installSchemes")
    BY <1>1, <1>2 DEF Additions
  <2>3. Additions(o, "runnables") = {o[17].value}
    BY <1>1, <1>3, <1>6 DEF Additions
  <2> QED
    BY <1>2, <1>3, <2>1, <2>2, <2>3
<1>11. LET r == Configure(ManagerDefaults, o)["readyzChecks"]
       IN  /\ {"webhookServer", "sourceInformerSync"} \subseteq DOMAIN r
           /\ r["webhookServer"] = "webhookServer"
           /\ r["sourceInformerSync"] = "sourceCluster"
  BY <1>1, <1>3, <1>5, <1>6, MapField, ManagerDefaultsAre
<1> QED
  BY <1>7, <1>8, <1>9, <1>10, <1>11
-----------------------------------------------------------------------------
(* The invariant *)

\* The invariant.  A manager has the fields that New gives it, and what is added
\* to it has its own.
ManagerFields == {"groups", "cluster", "leaderElection", "probes", "controllerOpts",
                  "webhookServer", "runnables", "live", "ready"}

Shape == /\ DOMAIN mgr = ManagerFields
         /\ DOMAIN added = {"handlers", "seconds", "controller"}
         /\ pc = "manager" => mgr = NoManager

\* The options have made the manager what it has to be.
Managed ==
    /\ mgr.controllerOpts = FlagOptions
    /\ mgr.leaderElection["enabled"] = config.leaderElection
    /\ mgr.leaderElection["cluster"] = IF config.cmd = "webhook" THEN "source" ELSE "own"
    /\ {"kubernetes", "config"} \subseteq mgr.groups

ManagedWebhook ==
    /\ "core" \in mgr.groups /\ mgr.webhookServer = "webhookServer"
    /\ {"webhookServer", "sourceInformerSync"} \subseteq DOMAIN mgr.ready
    /\ mgr.ready["webhookServer"] = "webhookServer"
    /\ mgr.ready["sourceInformerSync"] = "sourceCluster"

OptionsHold == pc # "manager" => Managed /\ (config.cmd = "webhook" => ManagedWebhook)

Checked == pc \in {"setup", "start"} =>
              "informerSync" \in DOMAIN mgr.ready /\ mgr.ready["informerSync"] = "cache"

\* The set-up is complete before anything runs.
SetUp ==
    /\ pc = "start" => config.sound /\ (config.cmd = "webhook" => "validate" \in added.handlers)
    /\ pc # "start" => up = {} /\ ~ready
    /\ "extensionController" \in mgr.runnables =>
          pc = "start" /\ added.controller.controllerOpts = FlagOptions
    /\ "extensionController" \in up => "extensionController" \in mgr.runnables

\* What has passed the checks still does, and what leads still does.
Vouched == ready => \A name \in DOMAIN mgr.ready : Passes(mgr.ready[name])
Leading == up \cap ForLeader # {} => Leads /\ Caches \subseteq up

StartInv == TypeOK /\ Shape /\ OptionsHold /\ Checked /\ SetUp /\ Vouched /\ Leading

\* What New makes of a configuration.
LEMMA NewManagerIs ==
    \A o : LET m == NewManager(o)
               c == Configure(ManagerDefaults, o)
           IN  /\ DOMAIN m = ManagerFields
               /\ m.groups = Elements(c.addToSchemes) \cup Elements(c.installSchemes)
               /\ m.controllerOpts = c.controllerOpts
               /\ m.webhookServer = c.webhookServer
               /\ m.runnables = Elements(c.runnables)
               /\ m.ready = c.readyzChecks
               /\ c.leaderElection["cluster"] # Unset => m.leaderElection = c.leaderElection
               /\ c.leaderElection["cluster"] = Unset /\ c.restConfig = Unset
                     => m.leaderElection = [c.leaderElection EXCEPT !.cluster = "own"]
<1> TAKE o
<1> PICK c : c = Configure(ManagerDefaults, o)
  OBVIOUS
<1> QED
  BY DEF NewManager, ManagerFields

LEMMA NoManagerIs ==
    /\ DOMAIN NoManager = ManagerFields
    /\ NoManager.controllerOpts = DefaultControllerOptions
    /\ NoManager.runnables = {}
<1>1. Given(<<>>) /\ Len(<<>>) = 0
  BY DEF Given
<1>2. Configure(ManagerDefaults, <<>>) = ManagerDefaults
  BY <1>1, ConfigureUnfolds
<1>3. /\ DOMAIN NoManager = ManagerFields
      /\ NoManager.controllerOpts = ManagerDefaults.controllerOpts
      /\ NoManager.runnables = Elements(ManagerDefaults.runnables)
  BY <1>2, NewManagerIs DEF NoManager
<1>4. Elements(<<>>) = {}
  BY DEF Elements
<1> QED
  BY <1>3, <1>4, ManagerDefaultsAre

\* The managers of the two commands are as the properties need them.
LEMMA ControllerManaged ==
    ASSUME config.cmd = "controller", mgr' = NewManager(ControllerManager), config' = config
    PROVE  Managed' /\ DOMAIN mgr' = ManagerFields /\ "extensionController" \notin mgr'.runnables
<1> PICK m : m = NewManager(ControllerManager)
  OBVIOUS
<1> PICK c : c = Configure(ManagerDefaults, ControllerManager)
  OBVIOUS
<1>1. /\ c.restConfig = Unset /\ c.controllerOpts = FlagOptions
      /\ c.leaderElection["enabled"] = config.leaderElection
      /\ c.leaderElection["cluster"] = Unset
      /\ DOMAIN c.leaderElection = {"enabled", "id", "namespace", "cluster"}
      /\ "kubernetes" \in Elements(c.addToSchemes)
      /\ "config" \in Elements(c.installSchemes)
      /\ Elements(c.runnables) = {}
  BY ControllerConfigured
<1>2. /\ DOMAIN m = ManagerFields
      /\ m.groups = Elements(c.addToSchemes) \cup Elements(c.installSchemes)
      /\ m.controllerOpts = c.controllerOpts
      /\ m.runnables = Elements(c.runnables)
      /\ m.leaderElection = [c.leaderElection EXCEPT !.cluster = "own"]
  BY <1>1, NewManagerIs
<1>3. m.leaderElection["enabled"] = config.leaderElection /\ m.leaderElection["cluster"] = "own"
  BY <1>1, <1>2
<1> QED
  BY <1>1, <1>2, <1>3 DEF Managed, FlagOptions
LEMMA WebhookManaged ==
    ASSUME config.cmd = "webhook", mgr' = NewManager(WebhookManager), config' = config
    PROVE  /\ Managed' /\ ManagedWebhook' /\ DOMAIN mgr' = ManagerFields
           /\ "extensionController" \notin mgr'.runnables
<1> PICK m : m = NewManager(WebhookManager)
  OBVIOUS
<1> PICK c : c = Configure(ManagerDefaults, WebhookManager)
  OBVIOUS
<1>1. /\ c.controllerOpts = FlagOptions
      /\ c.leaderElection["enabled"] = config.leaderElection
      /\ c.leaderElection["cluster"] = "source"
      /\ "kubernetes" \in Elements(c.addToSchemes)
      /\ {"config", "core"} \subseteq Elements(c.installSchemes)
      /\ Elements(c.runnables) = {"sourceCluster"}
      /\ c.webhookServer = "webhookServer"
      /\ {"webhookServer", "sourceInformerSync"} \subseteq DOMAIN c.readyzChecks
      /\ c.readyzChecks["webhookServer"] = "webhookServer"
      /\ c.readyzChecks["sourceInformerSync"] = "sourceCluster"
  BY WebhookConfigured
<1>2. "source" # Unset
  BY DEF Unset
<1>3. /\ DOMAIN m = ManagerFields
      /\ m.groups = Elements(c.addToSchemes) \cup Elements(c.installSchemes)
      /\ m.controllerOpts = c.controllerOpts
      /\ m.webhookServer = c.webhookServer
      /\ m.runnables = Elements(c.runnables)
      /\ m.ready = c.readyzChecks
      /\ m.leaderElection = c.leaderElection
  BY <1>1, <1>2, NewManagerIs
<1> QED
  BY <1>1, <1>3 DEF Managed, ManagedWebhook, FlagOptions

LEMMA DefaultsAre ==
    /\ "controllerOpts" \in DOMAIN ControllerDefaults
    /\ ControllerDefaults["controllerOpts"] = DefaultControllerOptions
    /\ "renewInterval" \in DOMAIN HeartbeatDefaults
BY DEF ControllerDefaults, HeartbeatDefaults

\* The controller works with the same options.
LEMMA ExtensionControllerIs == ExtensionController.config["controllerOpts"] = FlagOptions
<1> DEFINE opts == <<WithActuator("actuator"), WithName("shootPack"),
                    WithExtensionType("shootPack"),
                    WithFinalizerSuffix("gardenerExtensionShootPack"),
                    WithExtensionClass("shoot"),
                    WithIgnoreOperationAnnotation(FALSE), WithResyncInterval(30),
                    WithMaxConcurrentReconciles(config.workers),
                    WithReconciliationTimeout(config.timeout)>>
<1>1. Len(opts) = 9
  OBVIOUS
<1>2. \A k \in 1..9 : opts[k].how \in Hows
  BY DEF WithActuator, WithName, WithExtensionType, WithFinalizerSuffix, WithExtensionClass,
         WithIgnoreOperationAnnotation, WithResyncInterval, WithMaxConcurrentReconciles,
         WithReconciliationTimeout, Hows, Set, SetPart, Add
<1>3. /\ opts[8] = SetPart("controllerOpts", "workers", config.workers)
      /\ opts[9] = SetPart("controllerOpts", "timeout", config.timeout)
  BY DEF WithMaxConcurrentReconciles, WithReconciliationTimeout
<1>4. \A k \in 1..9 : opts[k].field = "controllerOpts" => k \in {8, 9}
  BY DEF WithActuator, WithName, WithExtensionType, WithFinalizerSuffix, WithExtensionClass,
         WithIgnoreOperationAnnotation, WithResyncInterval, WithMaxConcurrentReconciles,
         WithReconciliationTimeout, Set, SetPart, Add
<1> PICK o : o = opts
  OBVIOUS
<1> HIDE DEF opts
<1>5. Given(o) /\ Len(o) = 9 /\ 8 \in 1..Len(o) /\ 9 \in 1..Len(o) /\ 8 # 9
  BY <1>1, <1>2 DEF Given
<1> PICK c : c = Configure(ControllerDefaults, o)
  OBVIOUS
<1>6. c["controllerOpts"] = FlagOptions
  BY <1>1, <1>3, <1>4, <1>5, ControllerOptsAre, DefaultsAre
<1>7. DOMAIN c = DOMAIN ControllerDefaults
  BY <1>5, ConfigureUnfolds, FieldSteps
<1>8. ExtensionController.config = NewController(o).config
  BY DEF ExtensionController, opts
<1>9. NewController(o).config = [c EXCEPT !.finalizerSuffix = IF @ = Unset THEN c.name ELSE @]
  BY DEF NewController
<1> QED
  BY <1>6, <1>7, <1>8, <1>9, DefaultsAre

\* The heartbeat renews as often as the flag says.
LEMMA HeartbeatIs ==
    NewHeartbeat(<<WithExtensionName("extension"), WithLeaseNamespace(config.heartbeatNamespace),
                   WithRenewInterval(config.interval)>>).config.renewInterval = config.interval
<1> PICK o : o = <<WithExtensionName("extension"), WithLeaseNamespace(config.heartbeatNamespace),
                   WithRenewInterval(config.interval)>>
  OBVIOUS
<1>1. /\ Len(o) = 3
      /\ o[1] = Set("extensionName", "extension")
      /\ o[2] = Set("namespace", config.heartbeatNamespace)
      /\ o[3] = Set("renewInterval", config.interval)
  BY DEF WithExtensionName, WithLeaseNamespace, WithRenewInterval
<1>2. /\ o[1].field # "renewInterval" /\ o[2].field # "renewInterval"
      /\ o[3].field = "renewInterval" /\ o[3].value = config.interval
      /\ o[1].how = "set" /\ o[2].how = "set" /\ o[3].how = "set"
  BY <1>1 DEF Set
<1>3. \A k \in 1..Len(o) : k \in {1, 2, 3}
  BY <1>1
<1>4. Given(o) /\ OnlyHow(o, "renewInterval", "set") /\ Last(o, 3, "renewInterval")
  BY <1>1, <1>2, <1>3 DEF Given, OnlyHow, Last, Hows
<1>5. Configure(HeartbeatDefaults, o)["renewInterval"] = config.interval
  BY <1>2, <1>4, SetField, DefaultsAre
<1> QED
  BY <1>5 DEF NewHeartbeat
-----------------------------------------------------------------------------
(* It holds in the beginning, and every step keeps it *)

OptionsType == [workers : Nat, timeout : Nat, recoverPanic : BOOLEAN]

LEMMA OptionsTyped == DefaultControllerOptions \in OptionsType
                      /\ (config \in Config => FlagOptions \in OptionsType)
<1>1. DefaultControllerOptions \in OptionsType
  BY DEF DefaultControllerOptions, Minutes, OptionsType
<1>2. config \in Config => config.workers \in Nat /\ config.timeout \in Nat
  BY StartupConstants DEF Config
<1>3. config.workers \in Nat /\ config.timeout \in Nat => FlagOptions \in OptionsType
  BY DEF FlagOptions, OptionsType
<1> QED
  BY <1>1, <1>2, <1>3

\* A process that has not begun.
Begins ==
    /\ config \in Config /\ pc = "manager" /\ mgr = NoManager /\ added = NothingAdded
    /\ up = {} /\ ready = FALSE /\ lease \in {"free", "mine", "others"} /\ exits \in 0..MaxExits

LEMMA StartsOver == Begins => StartInv
<1> SUFFICES ASSUME Begins PROVE StartInv
  OBVIOUS
<1> USE DEF Begins
<1>1. /\ DOMAIN mgr = ManagerFields /\ mgr.controllerOpts = DefaultControllerOptions
      /\ mgr.runnables = {}
  BY NoManagerIs
<1>2. DOMAIN added = {"handlers", "seconds", "controller"} /\ added.seconds = 0
  BY DEF NothingAdded
<1>3. TypeOK
  BY <1>1, <1>2, OptionsTyped DEF TypeOK, OptionsType
<1>4. Shape /\ OptionsHold /\ Checked /\ SetUp /\ Vouched /\ Leading
  BY <1>1, <1>2 DEF Shape, OptionsHold, Checked, SetUp, Vouched, Leading
<1> QED
  BY <1>3, <1>4 DEF StartInv

LEMMA StartInit == Init => StartInv
<1>1. Init => Begins
  BY StartupConstants DEF Init, Begins
<1> QED
  BY <1>1, StartsOver

LEMMA GetManagerKeeps == StartInv /\ GetManager => StartInv'
<1> SUFFICES ASSUME StartInv, GetManager PROVE StartInv'
  OBVIOUS
<1> USE DEF StartInv
<1>1. /\ config' = config /\ added' = added /\ up' = up /\ lease' = lease /\ ready' = ready
      /\ exits' = exits /\ pc = "manager" /\ pc' \in {"heartbeat", "informers"}
  BY DEF GetManager
<1>2. up = {} /\ ~ready
  BY <1>1 DEF SetUp
<1>3. /\ Managed' /\ (config.cmd = "webhook" => ManagedWebhook')
      /\ DOMAIN mgr' = ManagerFields /\ "extensionController" \notin mgr'.runnables
  <2>1. CASE config.cmd = "controller" /\ mgr' = NewManager(ControllerManager)
    BY <1>1, <2>1, ControllerManaged
  <2>2. CASE config.cmd = "webhook" /\ mgr' = NewManager(WebhookManager)
    BY <1>1, <2>2, WebhookManaged
  <2> QED
    BY <2>1, <2>2 DEF GetManager
<1>4. mgr'.controllerOpts \in OptionsType
  BY <1>1, <1>3, OptionsTyped DEF Managed, FlagOptions, TypeOK
<1>5. TypeOK'
  BY <1>1, <1>4 DEF TypeOK, OptionsType
<1>6. Shape' /\ OptionsHold'
  BY <1>1, <1>3 DEF Shape, OptionsHold
<1>7. Checked' /\ SetUp' /\ Vouched' /\ Leading'
  BY <1>1, <1>2, <1>3 DEF Checked, SetUp, Vouched, Leading
<1> QED
  BY <1>5, <1>6, <1>7

\* More runnables or another check change nothing else of a manager.
LEMMA StaysManaged ==
    ASSUME Managed, config.cmd = "webhook" => ManagedWebhook, config' = config,
           DOMAIN mgr' = ManagerFields,
           \A f \in ManagerFields \ {"runnables", "ready"} : mgr'[f] = mgr[f],
           \A name \in DOMAIN mgr.ready \ {"informerSync"} :
              name \in DOMAIN mgr'.ready /\ mgr'.ready[name] = mgr.ready[name]
    PROVE  Managed' /\ (config'.cmd = "webhook" => ManagedWebhook')
<1>1. /\ mgr'.controllerOpts = mgr.controllerOpts /\ mgr'.leaderElection = mgr.leaderElection
      /\ mgr'.groups = mgr.groups /\ mgr'.webhookServer = mgr.webhookServer
  BY DEF ManagerFields
<1>2. Managed'
  BY <1>1 DEF Managed, FlagOptions
<1>3. ASSUME ManagedWebhook PROVE ManagedWebhook'
  <2>1. "webhookServer" # "informerSync" /\ "sourceInformerSync" # "informerSync"
    OBVIOUS
  <2> QED
    BY <1>1, <1>3, <2>1 DEF ManagedWebhook
<1> QED
  BY <1>2, <1>3

LEMMA AddHeartbeatKeeps == StartInv /\ AddHeartbeat => StartInv'
<1> SUFFICES ASSUME StartInv, AddHeartbeat PROVE StartInv'
  OBVIOUS
<1> USE DEF StartInv
<1>1. /\ config' = config /\ up' = up /\ lease' = lease /\ ready' = ready /\ exits' = exits
      /\ pc = "heartbeat" /\ pc' = "informers"
      /\ mgr' = [mgr EXCEPT !.runnables = @ \cup {"heartbeat"}]
  BY DEF AddHeartbeat
<1>2. added' = [added EXCEPT !.seconds = RenewIntervalSeconds(config.interval)]
  BY HeartbeatIs DEF AddHeartbeat
<1>3. up = {} /\ ~ready /\ "extensionController" \notin mgr.runnables
  BY <1>1 DEF SetUp
<1>4. DOMAIN mgr = ManagerFields /\ DOMAIN added = {"handlers", "seconds", "controller"}
  BY DEF Shape
<1>5. /\ DOMAIN mgr' = ManagerFields /\ mgr'.runnables = mgr.runnables \cup {"heartbeat"}
      /\ \A f \in ManagerFields \ {"runnables"} : mgr'[f] = mgr[f]
  BY <1>1, <1>4 DEF ManagerFields
<1>6. mgr'.ready = mgr.ready /\ mgr'.controllerOpts = mgr.controllerOpts
  BY <1>5 DEF ManagerFields
<1>7. DOMAIN added' = DOMAIN added /\ added'.seconds = config.interval \div 1000
  BY <1>2, <1>4 DEF RenewIntervalSeconds
<1>8. config.interval \in Interval
  BY DEF TypeOK, Config
<1>9. TypeOK'
  BY <1>1, <1>6, <1>7, <1>8 DEF TypeOK
<1>10. Managed' /\ (config'.cmd = "webhook" => ManagedWebhook')
  BY <1>1, <1>5, <1>6, StaysManaged DEF OptionsHold
<1>11. Shape' /\ OptionsHold'
  BY <1>1, <1>4, <1>5, <1>7, <1>10 DEF Shape, OptionsHold
<1>12. Checked' /\ SetUp' /\ Vouched' /\ Leading'
  BY <1>1, <1>3, <1>5 DEF Checked, SetUp, Vouched, Leading
<1> QED
  BY <1>9, <1>11, <1>12

LEMMA AddInformerCheckKeeps == StartInv /\ AddInformerCheck => StartInv'
<1> SUFFICES ASSUME StartInv, AddInformerCheck PROVE StartInv'
  OBVIOUS
<1> USE DEF StartInv
<1>1. /\ config' = config /\ added' = added /\ up' = up /\ lease' = lease /\ ready' = ready
      /\ exits' = exits /\ pc = "informers" /\ pc' = "setup"
      /\ mgr' = Apply(mgr, Put("ready", "informerSync", "cache"))
  BY DEF AddInformerCheck
<1>2. up = {} /\ ~ready /\ "extensionController" \notin mgr.runnables
  BY <1>1 DEF SetUp
<1>3. DOMAIN mgr = ManagerFields /\ DOMAIN added = {"handlers", "seconds", "controller"}
  BY DEF Shape
<1> PICK o : o = Put("ready", "informerSync", "cache")
  OBVIOUS
<1>4. /\ o.how = "put" /\ o.how \in Hows /\ o.field = "ready" /\ o.part = "informerSync"
      /\ o.value = "cache"
  BY OptionIs
<1>5. /\ DOMAIN mgr' = ManagerFields
      /\ \A f \in ManagerFields : mgr'[f] = IF f = "ready" THEN Effect(mgr[f], o) ELSE mgr[f]
  BY <1>1, <1>3, <1>4, ApplyEffect
<1>6. mgr'.ready = With(mgr.ready, "informerSync", "cache")
  BY <1>4, <1>5 DEF Effect, ManagerFields
<1>7. /\ "informerSync" \in DOMAIN mgr'.ready /\ mgr'.ready["informerSync"] = "cache"
      /\ \A name \in DOMAIN mgr.ready \ {"informerSync"} :
            name \in DOMAIN mgr'.ready /\ mgr'.ready[name] = mgr.ready[name]
  BY <1>6 DEF With
<1>8. mgr'.controllerOpts = mgr.controllerOpts /\ mgr'.runnables = mgr.runnables
  BY <1>5 DEF ManagerFields
<1>9. TypeOK'
  BY <1>1, <1>8 DEF TypeOK
<1>10. Managed' /\ (config'.cmd = "webhook" => ManagedWebhook')
  BY <1>1, <1>5, <1>7, StaysManaged DEF OptionsHold
<1>11. Shape' /\ OptionsHold'
  BY <1>1, <1>3, <1>5, <1>10 DEF Shape, OptionsHold
<1>12. Checked' /\ SetUp' /\ Vouched' /\ Leading'
  BY <1>1, <1>2, <1>7, <1>8 DEF Checked, SetUp, Vouched, Leading
<1> QED
  BY <1>9, <1>11, <1>12
LEMMA SetupControllerKeeps == StartInv /\ SetupController => StartInv'
<1> SUFFICES ASSUME StartInv, SetupController PROVE StartInv'
  OBVIOUS
<1> USE DEF StartInv
<1>1. /\ config' = config /\ up' = up /\ lease' = lease /\ ready' = ready /\ exits' = exits
      /\ pc = "setup" /\ pc' = "start" /\ config.cmd = "controller" /\ config.sound
      /\ mgr' = [mgr EXCEPT !.runnables = @ \cup {"extensionController"}]
      /\ added' = [added EXCEPT !.controller = ExtensionController.config]
  BY DEF SetupController
<1>2. up = {} /\ ~ready
  BY <1>1 DEF SetUp
<1>3. DOMAIN mgr = ManagerFields /\ DOMAIN added = {"handlers", "seconds", "controller"}
  BY DEF Shape
<1>4. /\ DOMAIN mgr' = ManagerFields
      /\ \A f \in ManagerFields \ {"runnables"} : mgr'[f] = mgr[f]
  BY <1>1, <1>3
<1>5. mgr'.ready = mgr.ready /\ mgr'.controllerOpts = mgr.controllerOpts
  BY <1>4 DEF ManagerFields
<1>6. /\ DOMAIN added' = DOMAIN added /\ added'.seconds = added.seconds
      /\ added'.controller = ExtensionController.config
  BY <1>1, <1>3
<1>7. TypeOK'
  BY <1>1, <1>5, <1>6 DEF TypeOK
<1>8. Managed' /\ (config'.cmd = "webhook" => ManagedWebhook')
  BY <1>1, <1>4, <1>5, StaysManaged DEF OptionsHold
<1>9. Shape' /\ OptionsHold'
  BY <1>1, <1>3, <1>4, <1>6, <1>8 DEF Shape, OptionsHold
<1>10. Checked'
  BY <1>1, <1>5 DEF Checked
<1>11. SetUp'
  <2>1. added'.controller["controllerOpts"] = FlagOptions
    BY <1>6, ExtensionControllerIs
  <2> QED
    BY <1>1, <1>2, <2>1 DEF SetUp, FlagOptions
<1>12. Vouched' /\ Leading'
  BY <1>1, <1>2 DEF Vouched, Leading
<1> QED
  BY <1>7, <1>9, <1>10, <1>11, <1>12

LEMMA SetupWebhookKeeps == StartInv /\ SetupWebhook => StartInv'
<1> SUFFICES ASSUME StartInv, SetupWebhook PROVE StartInv'
  OBVIOUS
<1> USE DEF StartInv
<1>1. /\ config' = config /\ up' = up /\ lease' = lease /\ ready' = ready /\ exits' = exits
      /\ pc = "setup" /\ pc' = "start" /\ config.cmd = "webhook" /\ config.sound
      /\ mgr' = [mgr EXCEPT !.runnables = @ \cup {mgr.webhookServer, "certificates"}]
      /\ added' = [added EXCEPT !.handlers = {"validate"}]
  BY DEF SetupWebhook
<1>2. up = {} /\ ~ready /\ "extensionController" \notin mgr.runnables
  BY <1>1 DEF SetUp
<1>3. DOMAIN mgr = ManagerFields /\ DOMAIN added = {"handlers", "seconds", "controller"}
  BY DEF Shape
<1>4. /\ DOMAIN mgr' = ManagerFields
      /\ \A f \in ManagerFields \ {"runnables"} : mgr'[f] = mgr[f]
      /\ mgr'.runnables = mgr.runnables \cup {mgr.webhookServer, "certificates"}
  BY <1>1, <1>3 DEF ManagerFields
<1>5. mgr'.ready = mgr.ready /\ mgr'.controllerOpts = mgr.controllerOpts
  BY <1>4 DEF ManagerFields
<1>6. /\ DOMAIN added' = DOMAIN added /\ added'.seconds = added.seconds
      /\ added'.handlers = {"validate"}
  BY <1>1, <1>3
<1>7. TypeOK'
  BY <1>1, <1>5, <1>6 DEF TypeOK
<1>8. Managed' /\ (config'.cmd = "webhook" => ManagedWebhook')
  BY <1>1, <1>4, <1>5, StaysManaged DEF OptionsHold
<1>9. Shape' /\ OptionsHold'
  BY <1>1, <1>3, <1>4, <1>6, <1>8 DEF Shape, OptionsHold
<1>10. Checked'
  BY <1>1, <1>5 DEF Checked
<1>11. SetUp'
  <2>1. mgr.webhookServer = "webhookServer"
    BY <1>1 DEF OptionsHold, ManagedWebhook
  <2>2. "extensionController" \notin mgr'.runnables
    BY <1>2, <1>4, <2>1
  <2> QED
    BY <1>1, <1>2, <1>6, <2>2 DEF SetUp
<1>12. Vouched' /\ Leading'
  BY <1>1, <1>2 DEF Vouched, Leading
<1> QED
  BY <1>7, <1>9, <1>10, <1>11, <1>12

LEMMA StartPartKeeps ==
    ASSUME StartInv, NEW part \in Parts, StartPart(part) PROVE StartInv'
<1> USE DEF StartInv
<1>1. /\ config' = config /\ pc' = pc /\ mgr' = mgr /\ added' = added /\ lease' = lease
      /\ ready' = ready /\ exits' = exits /\ pc = "start" /\ up' = up \cup {part}
      /\ part \in mgr.runnables \cup Probes \cup {"cache"} /\ MayStart(part)
  BY DEF StartPart
<1>2. TypeOK'
  BY <1>1 DEF TypeOK
<1>3. Shape' /\ OptionsHold' /\ Checked'
  <2>1. Shape'
    BY <1>1 DEF Shape
  <2>2. Managed => Managed'
    BY <1>1 DEF Managed, FlagOptions
  <2>3. ManagedWebhook => ManagedWebhook'
    BY <1>1 DEF ManagedWebhook
  <2> QED
    BY <1>1, <2>1, <2>2, <2>3 DEF OptionsHold, Checked
<1>4. SetUp'
  <2>1. part = "extensionController" => part \in mgr.runnables
    BY <1>1 DEF Probes
  <2> QED
    BY <1>1, <2>1 DEF SetUp, FlagOptions
<1>5. Vouched'
  BY <1>1 DEF Vouched, Passes
<1>6. Leading'
  <2>1. part \in ForLeader => Caches \subseteq up /\ Leads
    BY <1>1 DEF MayStart, ForLeader, Caches, Probes
  <2>2. Caches' = Caches /\ Leads' = Leads
    BY <1>1 DEF Caches, Leads
  <2>3. up' \cap ForLeader # {} => up \cap ForLeader # {} \/ part \in ForLeader
    BY <1>1
  <2> QED
    BY <1>1, <2>1, <2>2, <2>3 DEF Leading
<1> QED
  BY <1>2, <1>3, <1>4, <1>5, <1>6

\* The rest leaves the manager alone, or begins again.
LEMMA OthersKeep == StartInv /\ (GetLease \/ LoseLease \/ Probe \/ UNCHANGED vars) => StartInv'
<1> SUFFICES ASSUME StartInv, GetLease \/ LoseLease \/ Probe \/ UNCHANGED vars
             PROVE  StartInv'
  OBVIOUS
<1> USE DEF StartInv
<1>1. /\ config' = config /\ pc' = pc /\ mgr' = mgr /\ added' = added /\ up' = up
      /\ lease' \in {"free", "mine", "others"} /\ (lease = "mine" => lease' = "mine")
      /\ exits' \in 0..MaxExits
  <2>1. config \in Config /\ lease \in {"free", "mine", "others"} /\ exits \in 0..MaxExits
    BY DEF TypeOK
  <2>2. CASE GetLease
    BY <2>1, <2>2 DEF GetLease
  <2>3. CASE LoseLease
    BY <2>1, <2>3, StartupConstants DEF LoseLease
  <2>4. CASE Probe
    BY <2>1, <2>4 DEF Probe
  <2>5. CASE UNCHANGED vars
    BY <2>1, <2>5 DEF vars
  <2> QED
    BY <2>2, <2>3, <2>4, <2>5
<1>2. /\ ready' \in BOOLEAN
      /\ pc # "start" => ~ready'
      /\ ready' => \A name \in DOMAIN mgr.ready : Passes(mgr.ready[name])
  <2>1. CASE ready' = ready
    BY <2>1 DEF TypeOK, SetUp, Vouched
  <2>2. CASE Probe
    <3>1. ready' = (\A name \in DOMAIN mgr.ready : Passes(mgr.ready[name])) /\ up # {}
      BY <2>2 DEF Probe
    <3>2. pc = "start"
      BY <3>1 DEF SetUp
    <3>3. ready' \in BOOLEAN
      BY <3>1, Zenon
    <3> QED
      BY <3>1, <3>2, <3>3
  <2> QED
    BY <2>1, <2>2 DEF GetLease, LoseLease, vars
<1>3. TypeOK'
  BY <1>1, <1>2 DEF TypeOK
<1>4. Shape' /\ OptionsHold' /\ Checked'
  <2>1. Shape'
    BY <1>1 DEF Shape
  <2>2. Managed => Managed'
    BY <1>1 DEF Managed, FlagOptions
  <2>3. ManagedWebhook => ManagedWebhook'
    BY <1>1 DEF ManagedWebhook
  <2> QED
    BY <1>1, <2>1, <2>2, <2>3 DEF OptionsHold, Checked
<1>5. SetUp'
  BY <1>1, <1>2 DEF SetUp, FlagOptions
<1>6. Vouched'
  BY <1>1, <1>2 DEF Vouched, Passes
<1>7. Leading'
  BY <1>1 DEF Leading, Leads, Caches
<1> QED
  BY <1>3, <1>4, <1>5, <1>6, <1>7

LEMMA ExitKeeps == StartInv /\ Exit => StartInv'
<1>1. StartInv /\ Exit => Begins'
  BY StartupConstants DEF Exit, StartInv, TypeOK, Begins
<1> QED
  BY <1>1, StartsOver, PTL
LEMMA StartStep == StartInv /\ [Next]_vars => StartInv'
<1> SUFFICES ASSUME StartInv, [Next]_vars PROVE StartInv'
  OBVIOUS
<1>1. CASE GetManager
  BY <1>1, GetManagerKeeps
<1>2. CASE AddHeartbeat
  BY <1>2, AddHeartbeatKeeps
<1>3. CASE AddInformerCheck
  BY <1>3, AddInformerCheckKeeps
<1>4. CASE SetupController
  BY <1>4, SetupControllerKeeps
<1>5. CASE SetupWebhook
  BY <1>5, SetupWebhookKeeps
<1>6. CASE \E part \in Parts : StartPart(part)
  BY <1>6, StartPartKeeps
<1>7. CASE GetLease \/ LoseLease \/ Probe \/ UNCHANGED vars
  BY <1>7, OthersKeep
<1>8. CASE Exit
  BY <1>8, ExitKeeps
<1> QED
  BY <1>1, <1>2, <1>3, <1>4, <1>5, <1>6, <1>7, <1>8 DEF Next, Process

LEMMA StartInvariant == Spec => []StartInv
BY StartInit, StartStep, PTL DEF Spec

\* The types hold: whatever the flags, a manager has numbers of workers and
\* seconds to work with, and nothing runs that is no part of a process.
THEOREM StartupTypeCorrect == Spec => []TypeOK
<1>1. StartInv => TypeOK
  BY DEF StartInv
<1> QED
  BY <1>1, StartInvariant, PTL

\* A process that the readiness probe has found ready serves: the caches are
\* in sync, the types are known and a webhook listens with its handler.
THEOREM ReadyMeansServingCorrect == Spec => []ReadyMeansServing
<1>1. StartInv => ReadyMeansServing
  <2> SUFFICES ASSUME StartInv, ready PROVE ReadyMeansServing
    BY DEF ReadyMeansServing
  <2> USE DEF StartInv
  <2>1. pc = "start" /\ \A name \in DOMAIN mgr.ready : Passes(mgr.ready[name])
    BY DEF SetUp, Vouched
  <2>2. "cache" \in up
    BY <2>1 DEF Checked, Passes
  <2>3. Managed /\ (config.cmd = "webhook" => ManagedWebhook /\ "validate" \in added.handlers)
    BY <2>1 DEF OptionsHold, SetUp
  <2>4. ASSUME ManagedWebhook PROVE {"webhookServer", "sourceCluster"} \subseteq up
    BY <2>1, <2>4 DEF ManagedWebhook, Passes
  <2> QED
    BY <2>2, <2>3, <2>4 DEF ReadyMeansServing, Managed, ManagedWebhook
<1> QED
  BY <1>1, StartInvariant, PTL

\* For every value of the flags, what works has the lease it should have and
\* its caches, and Extensions are worked on with the flags' options.
THEOREM WorksAsConfiguredCorrect == Spec => []WorksAsConfigured
<1>1. StartInv => WorksAsConfigured
  <2> SUFFICES ASSUME StartInv PROVE WorksAsConfigured
    OBVIOUS
  <2> USE DEF StartInv
  <2>1. up # {} => pc = "start" /\ Managed
    BY DEF SetUp, OptionsHold
  <2>2. ASSUME up \cap ForLeader # {}
        PROVE  /\ config.leaderElection => lease = "mine"
               /\ mgr.leaderElection.cluster =
                     IF config.cmd = "webhook" THEN "source" ELSE "own"
               /\ "cache" \in up
    BY <2>1, <2>2 DEF Leading, Leads, Caches, Managed
  <2>3. ASSUME "extensionController" \in up
        PROVE  /\ config.sound
               /\ added.controller.controllerOpts.workers = config.workers
               /\ added.controller.controllerOpts.timeout = config.timeout
               /\ mgr.controllerOpts = added.controller.controllerOpts
    <3>1. added.controller.controllerOpts = FlagOptions /\ mgr.controllerOpts = FlagOptions
      BY <2>1, <2>3 DEF SetUp, Managed
    <3>2. config.sound
      BY <2>1, <2>3 DEF SetUp
    <3> QED
      BY <3>1, <3>2 DEF FlagOptions
  <2> QED
    BY <2>2, <2>3 DEF WorksAsConfigured
<1> QED
  BY <1>1, StartInvariant, PTL
=============================================================================
