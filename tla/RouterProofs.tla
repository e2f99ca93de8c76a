---------------------------- MODULE RouterProofs ----------------------------
(***************************************************************************)
(* Proofs about Config, ScriptCodec and Router, for every configuration    *)
(* file, all sizes of names, payloads and memory, and any number of        *)
(* events.                                                                 *)
(***************************************************************************)
EXTENDS Router, DataProofs, SequenceTheorems

-----------------------------------------------------------------------------
(* Reading a file.                                                         *)

IsFile(lines) == lines \in Seq(Range(lines)) /\ \A line \in Range(lines) : IsLine(line)

\* u[i] is what parse() has after i lines.
Parses(lines, u) ==
    u = [i \in 0..Len(lines) |-> IF i = 0 THEN NewParse ELSE AddLine(u[i - 1], lines[i])]

\* The recursion of parse() is well-founded.
LEMMA ParseExists ==
    ASSUME NEW lines, Len(lines) \in Nat
    PROVE  \E u : Parses(lines, u)
<1> DEFINE N == Len(lines)
           Upto(u, n) == /\ u = [i \in 0..N |-> u[i]]
                         /\ u[0] = NewParse
                         /\ \A i \in 1..n : u[i] = AddLine(u[i - 1], lines[i])
           Bad == {n \in 0..N : ~ \E u : Upto(u, n)}
<1>1. Bad = {}
    <2> SUFFICES ASSUME Bad # {} PROVE FALSE
        OBVIOUS
    <2>1. PICK n \in Bad : n \in 0..N /\ \A k \in Bad : n <= k
        <3>1. Bad \subseteq Nat
            OBVIOUS
        <3> HIDE DEF Bad
        <3>2. PICK n \in Bad : \A k \in Bad : n <= k
            BY <3>1, LeastNumber
        <3> QED
            BY <3>2 DEF Bad
    <2>2. CASE n = 0
        <3> DEFINE u == [i \in 0..N |-> NewParse]
        <3>1. Upto(u, 0)
            OBVIOUS
        <3> QED
            BY <2>1, <2>2, <3>1
    <2>3. CASE n # 0
        <3>1. n - 1 \in 0..N /\ n - 1 \notin Bad
            <4>1. n - 1 \in 0..N /\ ~(n <= n - 1)
                BY <2>1, <2>3
            <4> HIDE DEF Bad
            <4> QED
                BY <2>1, <4>1
        <3>2. PICK u : Upto(u, n - 1)
            BY <3>1
        <3> DEFINE v == [i \in 0..N |-> IF i = n THEN AddLine(u[n - 1], lines[n]) ELSE u[i]]
        <3>3. \A i \in 0..N : v[i] = IF i = n THEN AddLine(u[n - 1], lines[n]) ELSE u[i]
            OBVIOUS
        <3>4. v = [i \in 0..N |-> v[i]]
            OBVIOUS
        <3> HIDE DEF v
        <3>5. v[0] = NewParse
            <4>1. 0 \in 0..N /\ u[0] = NewParse
                BY <3>2
            <4> QED
                BY <2>3, <3>3, <4>1
        <3>6. ASSUME NEW i \in 1..n PROVE v[i] = AddLine(v[i - 1], lines[i])
            <4>1. i \in 0..N /\ i - 1 \in 0..N /\ i - 1 # n
                BY <2>1
            <4>2. v[i - 1] = u[i - 1]
                BY <3>3, <4>1
            <4>3. CASE i = n
                BY <3>3, <4>1, <4>2, <4>3
            <4>4. CASE i # n
                <5>1. i \in 1..(n - 1)
                    BY <2>1, <4>4
                <5> QED
                    BY <3>2, <3>3, <4>1, <4>2, <4>4, <5>1
            <4> QED
                BY <4>3, <4>4
        <3>7. Upto(v, n)
            BY <3>4, <3>5, <3>6
        <3> QED
            BY <2>1, <3>7
    <2> QED
        BY <2>2, <2>3
<1>2. PICK u : Upto(u, N)
    BY <1>1
<1>3. u = [i \in 0..N |-> IF i = 0 THEN NewParse ELSE AddLine(u[i - 1], lines[i])]
    <2>1. \A i \in 0..N : u[i] = IF i = 0 THEN NewParse ELSE AddLine(u[i - 1], lines[i])
        BY <1>2
    <2> QED
        BY <1>2, <2>1
<1> QED
    BY <1>3 DEF Parses

LEMMA ParseIs ==
    ASSUME NEW lines, Len(lines) \in Nat
    PROVE  \E u : Parses(lines, u) /\ parse(lines) = u[Len(lines)]
BY ParseExists DEF parse, Parses

-----------------------------------------------------------------------------
(* Sections, by their number in the file.                                  *)

Opened(lines, i) == {k \in 1..i : lines[k].tag = "section"}

\* How many sections the first i lines open: the number of the one line i is in.
Count(lines, i) == Cardinality(Opened(lines, i))

LEMMA CountType ==
    ASSUME NEW lines, NEW i \in Nat
    PROVE  Count(lines, i) \in Nat /\ IsFiniteSet(Opened(lines, i))
<1>1. IsFiniteSet(1..i)
    BY FS_Interval
<1>2. Opened(lines, i) \subseteq 1..i
    BY DEF Opened
<1>3. IsFiniteSet(Opened(lines, i))
    BY <1>1, <1>2, FS_Subset
<1> QED
    BY <1>3, FS_CardinalityType DEF Count

LEMMA CountZero == \A lines : Count(lines, 0) = 0
<1>1. \A lines : Opened(lines, 0) = {}
    BY DEF Opened
<1> QED
    BY <1>1, FS_EmptySet DEF Count

LEMMA CountStep ==
    ASSUME NEW lines, NEW i \in Nat \ {0}
    PROVE  Count(lines, i) =
               Count(lines, i - 1) + (IF lines[i].tag = "section" THEN 1 ELSE 0)
<1>1. i - 1 \in Nat
    OBVIOUS
<1>2. IsFiniteSet(Opened(lines, i - 1)) /\ Count(lines, i - 1) \in Nat
    BY <1>1, CountType
<1>3. CASE lines[i].tag = "section"
    <2>1. Opened(lines, i) = Opened(lines, i - 1) \cup {i}
        BY <1>3 DEF Opened
    <2>2. i \notin Opened(lines, i - 1)
        BY DEF Opened
    <2> QED
        BY <1>2, <1>3, <2>1, <2>2, FS_AddElement DEF Count
<1>4. CASE lines[i].tag # "section"
    <2>1. Opened(lines, i) = Opened(lines, i - 1)
        BY <1>4 DEF Opened
    <2> QED
        BY <1>2, <1>4, <2>1 DEF Count
<1> QED
    BY <1>3, <1>4

\* The number grows from line to line, at the lines that open a section.
LEMMA CountOrder ==
    ASSUME NEW lines, NEW i \in Nat, NEW k \in Nat, k <= i
    PROVE  /\ Count(lines, k) <= Count(lines, i)
           /\ Count(lines, k) = Count(lines, i) <=> \A j \in (k + 1)..i : lines[j].tag # "section"
<1>1. Opened(lines, k) \subseteq Opened(lines, i) /\ IsFiniteSet(Opened(lines, i))
    <2>1. Opened(lines, k) \subseteq Opened(lines, i)
        BY DEF Opened
    <2> QED
        BY <2>1, CountType
<1>2. Count(lines, k) <= Count(lines, i) /\ Count(lines, k) \in Nat
    BY <1>1, FS_Subset, CountType DEF Count
<1>3. (\A j \in (k + 1)..i : lines[j].tag # "section") <=> Opened(lines, k) = Opened(lines, i)
    <2>1. ASSUME \A j \in (k + 1)..i : lines[j].tag # "section", NEW j \in Opened(lines, i)
          PROVE  j \in Opened(lines, k)
        BY <2>1 DEF Opened
    <2>2. ASSUME Opened(lines, k) = Opened(lines, i), NEW j \in (k + 1)..i, lines[j].tag = "section"
          PROVE  FALSE
        <3>1. j \in Opened(lines, i) /\ j \notin Opened(lines, k)
            BY <2>2 DEF Opened
        <3> QED
            BY <2>2, <3>1
    <2> QED
        BY <1>1, <2>1, <2>2
<1>4. Opened(lines, k) # Opened(lines, i) => Count(lines, k) # Count(lines, i)
    BY <1>1, FS_Subset DEF Count
<1>5. Opened(lines, k) = Opened(lines, i) => Count(lines, k) = Count(lines, i)
    BY DEF Count
<1> QED
    BY <1>2, <1>3, <1>4, <1>5

\* Two headers have different numbers.
LEMMA HeaderNumbers ==
    ASSUME NEW lines, NEW i \in Nat \ {0}, NEW k \in Nat \ {0},
           lines[i].tag = "section", lines[k].tag = "section", Count(lines, i) = Count(lines, k)
    PROVE  i = k
<1>1. CASE k < i
    <2>1. i \in (k + 1)..i
        BY <1>1
    <2> QED
        BY <1>1, <2>1, CountOrder
<1>2. CASE i < k
    <2>1. k \in (i + 1)..k
        BY <1>2
    <2> QED
        BY <1>2, <2>1, CountOrder
<1> QED
    BY <1>1, <1>2

\* Every number up to that of line i is that of a header.
LEMMA NumbersUsed ==
    ASSUME NEW lines, NEW i \in Nat, NEW c \in 1..Count(lines, i)
    PROVE  \E j \in 1..i : lines[j].tag = "section" /\ Count(lines, j) = c
<1> DEFINE T == {j \in Nat : c <= Count(lines, j)}
<1>1. c \in Nat /\ c > 0 /\ Count(lines, i) \in Nat
    BY CountType
<1>2. i \in T
    BY <1>1
<1>3. PICK j \in T : \A k \in T : j <= k
    <2>1. T \subseteq Nat /\ T # {}
        BY <1>2
    <2> HIDE DEF T
    <2> QED
        BY <2>1, LeastNumber
<1>4. j \in Nat /\ j <= i /\ c <= Count(lines, j)
    BY <1>2, <1>3
<1>5. j # 0
    BY <1>1, <1>4, CountZero
<1>6. j - 1 \in Nat /\ ~(c <= Count(lines, j - 1))
    <2>1. j - 1 \in Nat /\ ~(j <= j - 1)
        BY <1>4, <1>5
    <2> QED
        BY <1>3, <2>1
<1>7. Count(lines, j) \in Nat /\ Count(lines, j - 1) \in Nat
    BY <1>4, <1>6, CountType
<1>8. Count(lines, j) = Count(lines, j - 1) + (IF lines[j].tag = "section" THEN 1 ELSE 0)
    BY <1>4, <1>5, CountStep
<1>9. lines[j].tag = "section" /\ Count(lines, j) = c
    BY <1>1, <1>4, <1>6, <1>7, <1>8
<1> QED
    BY <1>4, <1>5, <1>9

-----------------------------------------------------------------------------
(* What a section holds after the first i lines of the file, c being its   *)
(* number.                                                                 *)

Belongs(lines, k, c) == lines[k].tag = "pair" /\ Count(lines, k) = c

IsMap(f) == f = [x \in DOMAIN f |-> f[x]]

\* The values of the keys that may not be repeated, ...
SingleKeys(lines, i, c, kv) ==
    /\ IsMap(kv)
    /\ \A key \in DOMAIN kv :
          ~is_multi_key(key) /\ \E k \in 1..i : Belongs(lines, k, c) /\ lines[k].key = key
    /\ \A k \in 1..i : Belongs(lines, k, c) /\ ~is_multi_key(lines[k].key) =>
          lines[k].key \in DOMAIN kv /\ kv[lines[k].key] = lines[k].val

\* ... and of one that may: at[m] is the line of the m-th value.
Listing(lines, i, c, key, vals, at) ==
    /\ vals = [m \in DOMAIN at |-> lines[at[m]].val]
    /\ \E n \in Nat : at \in [1..n -> 1..i]
    /\ \A m \in DOMAIN at : Belongs(lines, at[m], c) /\ lines[at[m]].key = key
    /\ \A m, n \in DOMAIN at : m < n => at[m] < at[n]
    /\ \A k \in 1..i : Belongs(lines, k, c) /\ lines[k].key = key => \E m \in DOMAIN at : at[m] = k

MultiKeys(lines, i, c, multi) ==
    /\ IsMap(multi)
    /\ \A key \in DOMAIN multi :
          is_multi_key(key) /\ \E at : Listing(lines, i, c, key, multi[key], at)
    /\ \A k \in 1..i : Belongs(lines, k, c) /\ is_multi_key(lines[k].key) =>
          lines[k].key \in DOMAIN multi

Holds(lines, i, c, sec) ==
    /\ sec = [type |-> sec.type, kv |-> sec.kv, multi |-> sec.multi]
    /\ \A j \in 1..i : lines[j].tag = "section" /\ Count(lines, j) = c => sec.type = lines[j].name
    /\ SingleKeys(lines, i, c, sec.kv)
    /\ MultiKeys(lines, i, c, sec.multi)

\* A line that is not of the section changes nothing.
LEMMA HoldsOther ==
    ASSUME NEW lines, NEW i \in Nat \ {0}, NEW c, NEW sec, Holds(lines, i - 1, c, sec),
           ~Belongs(lines, i, c), ~(lines[i].tag = "section" /\ Count(lines, i) = c)
    PROVE  Holds(lines, i, c, sec)
<1>1. \A k \in 1..i : k = i \/ k \in 1..(i - 1)
    OBVIOUS
<1>2. 1..(i - 1) \subseteq 1..i
    OBVIOUS
<1>3. SingleKeys(lines, i, c, sec.kv)
    BY <1>1, <1>2 DEF Holds, SingleKeys
<1>4. ASSUME NEW key, NEW vals, NEW at, Listing(lines, i - 1, c, key, vals, at)
      PROVE  Listing(lines, i, c, key, vals, at)
    <2>1. \E n \in Nat : at \in [1..n -> 1..i]
        <3>1. PICK n \in Nat : at \in [1..n -> 1..(i - 1)]
            BY <1>4 DEF Listing
        <3>2. at \in [1..n -> 1..i]
            BY <1>2, <3>1
        <3> QED
            BY <3>2
    <2>2. \A k \in 1..i : Belongs(lines, k, c) /\ lines[k].key = key => \E m \in DOMAIN at : at[m] = k
        BY <1>1, <1>4 DEF Listing
    <2> QED
        BY <1>4, <2>1, <2>2 DEF Listing
<1>5. MultiKeys(lines, i, c, sec.multi)
    <2>1. MultiKeys(lines, i - 1, c, sec.multi)
        BY DEF Holds
    <2>2. \A key \in DOMAIN sec.multi :
              is_multi_key(key) /\ \E at : Listing(lines, i, c, key, sec.multi[key], at)
        BY <1>4, <2>1 DEF MultiKeys
    <2> QED
        BY <1>1, <2>1, <2>2 DEF MultiKeys
<1> QED
    BY <1>1, <1>3, <1>5 DEF Holds

\* A new section.
LEMMA HoldsNew ==
    ASSUME NEW lines, NEW i \in Nat \ {0}, lines[i].tag = "section"
    PROVE  Holds(lines, i, Count(lines, i), Section(lines[i].name))
<1> DEFINE c == Count(lines, i)
           sec == Section(lines[i].name)
<1>1. ASSUME NEW k \in 1..i, Count(lines, k) = c PROVE k = i
    <2>1. CASE k < i
        <3>1. i \in (k + 1)..i /\ k \in Nat /\ k <= i
            BY <2>1
        <3> QED
            BY <1>1, <3>1, CountOrder
    <2> QED
        BY <2>1
<1>2. \A k \in 1..i : ~Belongs(lines, k, c)
    BY <1>1 DEF Belongs
<1>3. sec = [type |-> lines[i].name, kv |-> <<>>, multi |-> <<>>] /\ DOMAIN <<>> = {}
    BY DEF Section
<1>4. IsMap(<<>>)
    BY DEF IsMap
<1>5. SingleKeys(lines, i, c, <<>>) /\ MultiKeys(lines, i, c, <<>>)
    BY <1>2, <1>3, <1>4 DEF SingleKeys, MultiKeys
<1> HIDE DEF c, sec
<1>6. \A j \in 1..i : lines[j].tag = "section" /\ Count(lines, j) = c => sec.type = lines[j].name
    BY <1>1, <1>3
<1>7. Holds(lines, i, c, sec)
    BY <1>3, <1>5, <1>6 DEF Holds
<1> QED
    BY <1>7 DEF c, sec

\* f with one value set.
Updates(new, f, key, val) ==
    /\ DOMAIN new = DOMAIN f \cup {key}
    /\ IsMap(new)
    /\ new[key] = val
    /\ \A k \in DOMAIN f : k # key => new[k] = f[k]

LEMMA PutUpdates ==
    ASSUME NEW f, NEW key, NEW val
    PROVE  Updates(Put(f, key, val), f, key, val)
BY DEF Put, Updates, IsMap

\* One more line with a single value.
LEMMA SingleKeysAdd ==
    ASSUME NEW lines, NEW i \in Nat \ {0}, NEW c, NEW kv, SingleKeys(lines, i - 1, c, kv),
           Belongs(lines, i, c), ~is_multi_key(lines[i].key), lines[i].key \notin DOMAIN kv
    PROVE  SingleKeys(lines, i, c, Put(kv, lines[i].key, lines[i].val))
<1> DEFINE key == lines[i].key
           val == lines[i].val
           new == Put(kv, key, val)
<1>1. ~is_multi_key(key) /\ key \notin DOMAIN kv /\ lines[i].key = key /\ lines[i].val = val
    OBVIOUS
<1> HIDE DEF val, key
<1> HIDE DEF new
<1>2. Updates(new, kv, key, val)
    BY PutUpdates DEF new
<1>3. /\ DOMAIN new = DOMAIN kv \cup {key}
      /\ IsMap(new)
      /\ new[key] = val
      /\ \A k \in DOMAIN kv : k # key => new[k] = kv[k]
    BY <1>2 DEF Updates
<1>4. \A k \in 1..i : k = i \/ k \in 1..(i - 1)
    OBVIOUS
<1>5. 1..(i - 1) \subseteq 1..i /\ i \in 1..i
    OBVIOUS
<1>6. \A x \in DOMAIN new :
          ~is_multi_key(x) /\ \E k \in 1..i : Belongs(lines, k, c) /\ lines[k].key = x
    BY <1>3, <1>1, <1>5 DEF SingleKeys
<1>7. ASSUME NEW k \in 1..i, Belongs(lines, k, c), ~is_multi_key(lines[k].key)
      PROVE  lines[k].key \in DOMAIN new /\ new[lines[k].key] = lines[k].val
    <2>1. CASE k = i
        BY <1>3, <1>1, <2>1
    <2>2. CASE k \in 1..(i - 1)
        <3>1. lines[k].key \in DOMAIN kv /\ kv[lines[k].key] = lines[k].val
            BY <1>7, <2>2 DEF SingleKeys
        <3> QED
            BY <1>3, <1>1, <3>1
    <2> QED
        BY <1>4, <2>1, <2>2
<1>8. SingleKeys(lines, i, c, new)
    BY <1>3, <1>6, <1>7 DEF SingleKeys
<1> QED
    BY <1>8 DEF new, key, val

\* A single value does not touch the others.
LEMMA MultiKeysOther ==
    ASSUME NEW lines, NEW i \in Nat \ {0}, NEW c, NEW multi, MultiKeys(lines, i - 1, c, multi),
           Belongs(lines, i, c), ~is_multi_key(lines[i].key)
    PROVE  MultiKeys(lines, i, c, multi)
<1>1. \A k \in 1..i : k = i \/ k \in 1..(i - 1)
    OBVIOUS
<1>2. ASSUME NEW key, is_multi_key(key), NEW vals, NEW at, Listing(lines, i - 1, c, key, vals, at)
      PROVE  Listing(lines, i, c, key, vals, at)
    <2>1. PICK n \in Nat : at \in [1..n -> 1..(i - 1)]
        BY <1>2 DEF Listing
    <2>2. at \in [1..n -> 1..i]
        BY <2>1
    <2>3. \A k \in 1..i : Belongs(lines, k, c) /\ lines[k].key = key => \E m \in DOMAIN at : at[m] = k
        BY <1>1, <1>2 DEF Listing
    <2> QED
        BY <1>2, <2>2, <2>3 DEF Listing
<1>3. \A key \in DOMAIN multi :
          is_multi_key(key) /\ \E at : Listing(lines, i, c, key, multi[key], at)
    BY <1>2 DEF MultiKeys
<1> QED
    BY <1>1, <1>3 DEF MultiKeys

\* A single-valued key's table is not touched by a multi key.
LEMMA SingleKeysOther ==
    ASSUME NEW lines, NEW i \in Nat \ {0}, NEW c, NEW kv, SingleKeys(lines, i - 1, c, kv),
           Belongs(lines, i, c), is_multi_key(lines[i].key)
    PROVE  SingleKeys(lines, i, c, kv)
<1>1. \A k \in 1..i : k = i \/ k \in 1..(i - 1)
    OBVIOUS
<1>2. 1..(i - 1) \subseteq 1..i
    OBVIOUS
<1> QED
    BY <1>1, <1>2 DEF SingleKeys

LEMMA MapIsSeq ==
    ASSUME NEW S, NEW n \in Nat, NEW f \in [1..n -> S]
    PROVE  f \in Seq(S) /\ Len(f) = n
BY SeqDef

LEMMA AppendIs ==
    ASSUME NEW S, NEW s \in Seq(S), NEW x \in S, NEW n, Len(s) = n, NEW new, new = Append(s, x)
    PROVE  /\ new \in Seq(S) /\ Len(new) = n + 1
           /\ \A m \in 1..n : new[m] = s[m]
           /\ new[n + 1] = x
BY AppendProperties

\* One more value at the end of a list of values.
LEMMA ListingAppend ==
    ASSUME NEW lines, NEW i \in Nat \ {0}, NEW c, NEW vals, NEW at,
           Belongs(lines, i, c), Listing(lines, i - 1, c, lines[i].key, vals, at)
    PROVE  \E at2 : Listing(lines, i, c, lines[i].key, Append(vals, lines[i].val), at2)
<1> DEFINE key == lines[i].key
<1>1. PICK n \in Nat : at \in [1..n -> 1..(i - 1)]
    BY DEF Listing
<1>2. DOMAIN at = 1..n /\ vals = [m \in 1..n |-> lines[at[m]].val]
    BY <1>1 DEF Listing
<1> DEFINE at2 == [m \in 1..(n + 1) |-> IF m = n + 1 THEN i ELSE at[m]]
<1>3. /\ at2 \in [1..(n + 1) -> 1..i] /\ DOMAIN at2 = 1..(n + 1)
      /\ at2[n + 1] = i /\ \A m \in 1..n : at2[m] = at[m] /\ at[m] \in 1..(i - 1)
    BY <1>1
<1> HIDE DEF at2
<1>4. \A m \in 1..(n + 1) : m = n + 1 \/ m \in 1..n
    OBVIOUS
<1>5. Append(vals, lines[i].val) = [m \in DOMAIN at2 |-> lines[at2[m]].val]
    <2> DEFINE W == {lines[k].val : k \in 1..i}
               v == lines[i].val
               new == Append(vals, v)
               want == [m \in 1..(n + 1) |-> lines[at2[m]].val]
    <2> HIDE DEF W, v, new, want
    <2>1. vals \in [1..n -> W] /\ v \in W
        <3>1. \A k \in 1..i : lines[k].val \in W
            BY DEF W
        <3>2. i \in 1..i /\ \A m \in 1..n : at[m] \in 1..i
            BY <1>1
        <3>3. v \in W
            BY <3>1, <3>2 DEF v
        <3> QED
            BY <1>2, <3>1, <3>2, <3>3
    <2>2. vals \in Seq(W) /\ Len(vals) = n
        BY <1>1, <2>1, MapIsSeq
    <2>3. /\ new \in Seq(W) /\ Len(new) = n + 1
          /\ \A m \in 1..n : new[m] = vals[m]
          /\ new[n + 1] = v
        BY <2>1, <2>2, AppendIs DEF new
    <2>4. DOMAIN new = 1..(n + 1) /\ new = [m \in 1..(n + 1) |-> new[m]]
        BY <2>3
    <2>5. \A m \in 1..(n + 1) : new[m] = lines[at2[m]].val
        BY <1>2, <1>3, <1>4, <2>3 DEF v
    <2>6. new = want
        BY <2>4, <2>5 DEF want
    <2>7. Append(vals, lines[i].val) = new
        BY DEF new, v
    <2>8. [m \in DOMAIN at2 |-> lines[at2[m]].val] = want
        BY <1>3 DEF want
    <2> QED
        BY <2>6, <2>7, <2>8
<1>6. \A m \in DOMAIN at2 : Belongs(lines, at2[m], c) /\ lines[at2[m]].key = key
    <2>1. \A m \in 1..n : Belongs(lines, at[m], c) /\ lines[at[m]].key = key
        BY <1>2 DEF Listing
    <2> QED
        BY <1>3, <1>4, <2>1
<1>7. \A m, k \in DOMAIN at2 : m < k => at2[m] < at2[k]
    <2> SUFFICES ASSUME NEW m \in 1..(n + 1), NEW k \in 1..(n + 1), m < k PROVE at2[m] < at2[k]
        BY <1>3
    <2>1. m \in 1..n /\ at2[m] = at[m] /\ at[m] \in 1..(i - 1)
        BY <1>3
    <2>2. CASE k = n + 1
        BY <1>3, <2>1, <2>2
    <2>3. CASE k \in 1..n
        BY <1>2, <1>3, <2>1, <2>3 DEF Listing
    <2> QED
        BY <1>4, <2>2, <2>3
<1>8. ASSUME NEW k \in 1..i, Belongs(lines, k, c), lines[k].key = key
      PROVE  \E m \in DOMAIN at2 : at2[m] = k
    <2>1. CASE k = i
        BY <1>3, <2>1
    <2>2. CASE k \in 1..(i - 1)
        <3>1. PICK m \in DOMAIN at : at[m] = k
            BY <1>8, <2>2 DEF Listing
        <3>2. m \in 1..(n + 1) /\ at2[m] = k
            BY <1>2, <1>3, <3>1
        <3> QED
            BY <1>3, <3>2
    <2> QED
        BY <2>1, <2>2
<1>9. \E k \in Nat : at2 \in [1..k -> 1..i]
    BY <1>3
<1>10. Listing(lines, i, c, key, Append(vals, lines[i].val), at2)
    BY <1>5, <1>6, <1>7, <1>8, <1>9 DEF Listing
<1> QED
    BY <1>10

\* One more line with a value of a key that may be repeated.
LEMMA MultiKeysAdd ==
    ASSUME NEW lines, NEW i \in Nat \ {0}, NEW c, NEW multi, MultiKeys(lines, i - 1, c, multi),
           Belongs(lines, i, c), is_multi_key(lines[i].key)
    PROVE  MultiKeys(lines, i, c,
               Put(multi, lines[i].key, Append(Get(multi, lines[i].key), lines[i].val)))
<1> DEFINE key == lines[i].key
           vals == Append(Get(multi, key), lines[i].val)
           new == Put(multi, key, vals)
<1>1. \A k \in 1..i : k = i \/ k \in 1..(i - 1)
    OBVIOUS
<1>2. \E at : Listing(lines, i - 1, c, key, Get(multi, key), at)
    <2>1. CASE key \in DOMAIN multi
        BY <2>1 DEF MultiKeys, Get
    <2>2. CASE key \notin DOMAIN multi
        <3>1. Get(multi, key) = <<>> /\ DOMAIN <<>> = {}
            BY <2>2 DEF Get
        <3>2. <<>> = [m \in DOMAIN <<>> |-> lines[<<>>[m]].val] /\ <<>> \in [1..0 -> 1..(i - 1)]
            BY <3>1
        <3>3. \A k \in 1..(i - 1) : ~(Belongs(lines, k, c) /\ lines[k].key = key)
            BY <2>2 DEF MultiKeys
        <3>4. Listing(lines, i - 1, c, key, <<>>, <<>>)
            BY <3>1, <3>2, <3>3 DEF Listing
        <3> QED
            BY <3>1, <3>4
    <2> QED
        BY <2>1, <2>2
<1>3. \E at : Listing(lines, i, c, key, vals, at)
    BY <1>2, ListingAppend
<1>4. ASSUME NEW other, other # key, NEW v, NEW at, Listing(lines, i - 1, c, other, v, at)
      PROVE  Listing(lines, i, c, other, v, at)
    <2>1. PICK n \in Nat : at \in [1..n -> 1..(i - 1)]
        BY <1>4 DEF Listing
    <2>2. at \in [1..n -> 1..i]
        BY <2>1
    <2>3. \A k \in 1..i : Belongs(lines, k, c) /\ lines[k].key = other
                              => \E m \in DOMAIN at : at[m] = k
        BY <1>1, <1>4 DEF Listing
    <2> QED
        BY <1>4, <2>2, <2>3 DEF Listing
<1>5. is_multi_key(key) /\ lines[i].key = key
    OBVIOUS
<1> HIDE DEF vals, key
<1> HIDE DEF new
<1>6. Updates(new, multi, key, vals)
    BY PutUpdates DEF new
<1>7. /\ DOMAIN new = DOMAIN multi \cup {key}
      /\ IsMap(new)
      /\ new[key] = vals
      /\ \A k \in DOMAIN multi : k # key => new[k] = multi[k]
    BY <1>6 DEF Updates
<1>8. ASSUME NEW k \in DOMAIN new
      PROVE  is_multi_key(k) /\ \E at : Listing(lines, i, c, k, new[k], at)
    <2>1. CASE k = key
        BY <1>7, <1>3, <1>5, <2>1
    <2>2. CASE k # key
        <3>1. k \in DOMAIN multi /\ new[k] = multi[k]
            BY <1>7, <1>8, <2>2
        <3> QED
            BY <1>4, <2>2, <3>1 DEF MultiKeys
    <2> QED
        BY <2>1, <2>2
<1>9. \A k \in 1..i : Belongs(lines, k, c) /\ is_multi_key(lines[k].key) => lines[k].key \in DOMAIN new
    BY <1>7, <1>1, <1>5 DEF MultiKeys
<1>10. MultiKeys(lines, i, c, new)
    BY <1>7, <1>8, <1>9 DEF MultiKeys
<1> QED
    BY <1>10 DEF new, vals, key

\* A pair is added to the section it belongs to.
LEMMA HoldsAdd ==
    ASSUME NEW lines, NEW i \in Nat \ {0}, NEW c, NEW sec, Holds(lines, i - 1, c, sec),
           Belongs(lines, i, c), ~Repeated(sec, lines[i])
    PROVE  Holds(lines, i, c, AddPair(sec, lines[i]))
<1> DEFINE new == AddPair(sec, lines[i])
<1>1. /\ sec = [type |-> sec.type, kv |-> sec.kv, multi |-> sec.multi]
      /\ SingleKeys(lines, i - 1, c, sec.kv) /\ MultiKeys(lines, i - 1, c, sec.multi)
    BY DEF Holds
<1>2. \A j \in 1..i : lines[j].tag = "section" /\ Count(lines, j) = c => sec.type = lines[j].name
    <2>1. \A k \in 1..i : k = i \/ k \in 1..(i - 1)
        OBVIOUS
    <2> QED
        BY <2>1 DEF Holds, Belongs
<1>3. CASE is_multi_key(lines[i].key)
    <2> DEFINE multi == Put(sec.multi, lines[i].key, Append(Get(sec.multi, lines[i].key), lines[i].val))
    <2>1. new = [sec EXCEPT !.multi = multi]
        BY <1>3 DEF AddPair
    <2>2. MultiKeys(lines, i, c, multi)
        BY <1>1, <1>3, MultiKeysAdd
    <2> HIDE DEF multi, new
    <2>3. new.type = sec.type /\ new.kv = sec.kv /\ new.multi = multi
          /\ new = [type |-> sec.type, kv |-> sec.kv, multi |-> multi]
        BY <1>1, <2>1
    <2>4. SingleKeys(lines, i, c, sec.kv)
        BY <1>1, <1>3, SingleKeysOther
    <2>5. Holds(lines, i, c, new)
        BY <1>2, <2>2, <2>3, <2>4 DEF Holds
    <2> QED
        BY <2>5 DEF new
<1>4. CASE ~is_multi_key(lines[i].key)
    <2> DEFINE kv == Put(sec.kv, lines[i].key, lines[i].val)
    <2>1. new = [sec EXCEPT !.kv = kv]
        BY <1>4 DEF AddPair
    <2>2. SingleKeys(lines, i, c, kv)
        BY <1>1, <1>4, SingleKeysAdd DEF Repeated
    <2> HIDE DEF kv, new
    <2>3. new.type = sec.type /\ new.kv = kv /\ new.multi = sec.multi
          /\ new = [type |-> sec.type, kv |-> kv, multi |-> sec.multi]
        BY <1>1, <2>1
    <2>4. MultiKeys(lines, i, c, sec.multi)
        BY <1>1, <1>4, MultiKeysOther
    <2>5. Holds(lines, i, c, new)
        BY <1>2, <2>2, <2>3, <2>4 DEF Holds
    <2> QED
        BY <2>5 DEF new
<1> QED
    BY <1>3, <1>4

-----------------------------------------------------------------------------
(* What parse() has after some lines.                                      *)

\* Line k is one that a file must not have, after those before it.
Wrong(lines, k) ==
    \/ lines[k].tag = "junk"
    \/ lines[k].tag = "pair" /\ Count(lines, k) = 0
    \/ /\ lines[k].tag = "pair" /\ ~is_multi_key(lines[k].key)
       /\ \E m \in 1..(k - 1) : Belongs(lines, m, Count(lines, k)) /\ lines[m].key = lines[k].key

Reads(lines, i, p) ==
    IF \E k \in 1..i : Wrong(lines, k) THEN p = Refused
    ELSE /\ p = [ok |-> TRUE, sections |-> p.sections]
         /\ \E S : p.sections \in Seq(S)
         /\ Len(p.sections) = Count(lines, i)
         /\ \A c \in 1..Count(lines, i) : Holds(lines, i, c, p.sections[c])

LEMMA ReadsZero == \A lines : Reads(lines, 0, NewParse)
<1> TAKE lines
<1>1. Count(lines, 0) = 0
    BY CountZero
<1>2. ~ \E k \in 1..0 : Wrong(lines, k)
    OBVIOUS
<1>3. NewParse.sections = <<>> /\ NewParse = [ok |-> TRUE, sections |-> NewParse.sections]
    BY DEF NewParse
<1>4. <<>> \in Seq({}) /\ Len(<<>>) = 0 /\ 1..0 = {}
    OBVIOUS
<1> QED
    BY <1>1, <1>2, <1>3, <1>4 DEF Reads

LEMMA LineTags ==
    ASSUME NEW lines, IsFile(lines), NEW i \in 1..Len(lines)
    PROVE  IsLine(lines[i]) /\ lines[i].tag \in {"blank", "junk", "section", "pair"}
<1>1. lines[i] \in Range(lines)
    <2>1. DOMAIN lines = 1..Len(lines)
        BY LenProperties DEF IsFile
    <2> QED
        BY <2>1 DEF Range
<1>2. IsLine(lines[i])
    BY <1>1 DEF IsFile
<1> QED
    BY <1>2 DEF IsLine

LEMMA AnySections ==
    ASSUME NEW p, NEW q, NEW all, NEW old, p = [ok |-> TRUE, sections |-> old],
           q = [p EXCEPT !.sections = all]
    PROVE  q = [ok |-> TRUE, sections |-> all]
OBVIOUS

LEMMA ReadsStep ==
    ASSUME NEW lines, IsFile(lines), NEW i \in 1..Len(lines), NEW p, Reads(lines, i - 1, p)
    PROVE  Reads(lines, i, AddLine(p, lines[i]))
<1> DEFINE line == lines[i]
           n == Count(lines, i - 1)
           q == AddLine(p, line)
<1>1. Len(lines) \in Nat
    BY LenProperties DEF IsFile
<1>2. i \in Nat \ {0} /\ i - 1 \in Nat
    BY <1>1
<1>3. n \in Nat /\ Count(lines, i) = n + (IF line.tag = "section" THEN 1 ELSE 0)
    BY <1>2, CountType, CountStep
<1>4. line.tag \in {"blank", "junk", "section", "pair"}
    BY LineTags
<1>5. \A k \in 1..i : k = i \/ k \in 1..(i - 1)
    BY <1>2
<1>6. 1..(i - 1) \subseteq 1..i /\ i \in 1..i
    BY <1>2
<1>7. CASE \E k \in 1..(i - 1) : Wrong(lines, k)
    <2>1. p = Refused /\ ~p.ok
        BY <1>7 DEF Reads, Refused
    <2>2. q = p
        BY <2>1 DEF AddLine
    <2> QED
        BY <1>6, <1>7, <2>1, <2>2 DEF Reads
<1>8. CASE ~ \E k \in 1..(i - 1) : Wrong(lines, k)
    <2>1. /\ p = [ok |-> TRUE, sections |-> p.sections]
          /\ \E S : p.sections \in Seq(S)
          /\ Len(p.sections) = n
          /\ \A c \in 1..n : Holds(lines, i - 1, c, p.sections[c])
        BY <1>8 DEF Reads
    <2>2. PICK S : p.sections \in Seq(S)
        BY <2>1
    <2>3. p.ok
        BY <2>1
    <2>4. (\E k \in 1..i : Wrong(lines, k)) <=> Wrong(lines, i)
        BY <1>5, <1>6, <1>8
    <2>5. CASE line.tag = "blank"
        <3>1. q = p
            BY <2>3, <2>5 DEF AddLine, Throws
        <3>2. ~Wrong(lines, i) /\ Count(lines, i) = n
            BY <1>3, <2>5 DEF Wrong
        <3>3. \A c \in 1..n : Holds(lines, i, c, p.sections[c])
            BY <1>2, <2>1, <2>5, HoldsOther DEF Belongs
        <3> QED
            BY <2>1, <2>4, <3>1, <3>2, <3>3 DEF Reads
    <2>6. CASE line.tag = "junk"
        <3>1. q = Refused
            BY <2>3, <2>6 DEF AddLine, Throws
        <3>2. Wrong(lines, i)
            BY <2>6 DEF Wrong
        <3> QED
            BY <2>4, <3>1, <3>2 DEF Reads
    <2>7. CASE line.tag = "section"
        <3> DEFINE sec == Section(line.name)
                   T == S \cup {sec}
                   all == Append(p.sections, sec)
        <3>1. q = [p EXCEPT !.sections = all]
            BY <2>3, <2>7 DEF AddLine, Throws
        <3> HIDE DEF q, all
        <3>2. q = [ok |-> TRUE, sections |-> q.sections] /\ q.sections = all
            BY <2>1, <3>1, AnySections
        <3> USE DEF all
        <3>3. ~Wrong(lines, i) /\ Count(lines, i) = n + 1
            BY <1>3, <2>7 DEF Wrong
        <3>4. p.sections \in Seq(T) /\ sec \in T
            BY <2>2, SeqMonotonic
        <3>5. Holds(lines, i, n + 1, sec)
            BY <1>2, <2>7, <3>3, HoldsNew
        <3> HIDE DEF sec, T
        <3>6. /\ q.sections \in Seq(T) /\ Len(q.sections) = n + 1
              /\ q.sections[n + 1] = sec /\ \A c \in 1..n : q.sections[c] = p.sections[c]
            BY <2>1, <3>2, <3>4, AppendProperties
        <3>7. \A c \in 1..n : Holds(lines, i, c, p.sections[c])
            <4> TAKE c \in 1..n
            <4>1. Holds(lines, i - 1, c, p.sections[c]) /\ Count(lines, i) # c
                BY <1>3, <2>1, <3>3
            <4> QED
                BY <1>2, <2>7, <4>1, HoldsOther DEF Belongs
        <3>8. \A c \in 1..(n + 1) : c = n + 1 \/ c \in 1..n
            BY <1>3
        <3>9. \A c \in 1..(n + 1) : Holds(lines, i, c, q.sections[c])
            BY <3>5, <3>6, <3>7, <3>8
        <3>10. Reads(lines, i, q)
            BY <2>4, <3>2, <3>3, <3>6, <3>9 DEF Reads
        <3> QED
            BY <3>10 DEF q
    <2>8. CASE line.tag = "pair" /\ n = 0
        <3>1. p.sections = <<>>
            BY <2>1, <2>2, <2>8, EmptySeq
        <3>2. q = Refused
            BY <2>3, <2>8, <3>1 DEF AddLine, Throws
        <3>3. Wrong(lines, i)
            BY <1>3, <2>8 DEF Wrong
        <3> QED
            BY <2>4, <3>2, <3>3 DEF Reads
    <2>9. CASE line.tag = "pair" /\ n # 0
        <3> DEFINE old == Last(p.sections)
        <3>1. n \in 1..n /\ p.sections # <<>> /\ old = p.sections[n] /\ Count(lines, i) = n
            BY <1>3, <2>1, <2>9 DEF Last
        <3>2. Holds(lines, i - 1, n, old) /\ Belongs(lines, i, n) /\ old \in S
            <4>1. p.sections[n] \in S
                BY <2>1, <2>2, <3>1, ElementOfSeq
            <4> QED
                BY <2>1, <2>9, <3>1, <4>1 DEF Belongs
        <3> HIDE DEF old
        <3>3. Wrong(lines, i) <=> Repeated(old, line)
            <4>1. SingleKeys(lines, i - 1, n, old.kv)
                BY <3>2 DEF Holds
            <4>2. Wrong(lines, i) <=>
                      /\ ~is_multi_key(line.key)
                      /\ \E m \in 1..(i - 1) : Belongs(lines, m, n) /\ lines[m].key = line.key
                BY <2>9, <3>1 DEF Wrong
            <4> QED
                BY <4>1, <4>2 DEF SingleKeys, Repeated
        <3>4. CASE Repeated(old, line)
            <4>1. q = Refused
                BY <2>3, <2>9, <3>1, <3>4 DEF AddLine, Throws, old
            <4> QED
                BY <2>4, <3>3, <3>4, <4>1 DEF Reads
        <3>5. CASE ~Repeated(old, line)
            <4> DEFINE sec == AddPair(old, line)
                       T == S \cup {sec}
                       all == [p.sections EXCEPT ![n] = sec]
            <4>1. q = [p EXCEPT !.sections = all]
                BY <2>1, <2>3, <2>9, <3>1, <3>5 DEF AddLine, Throws, ReplaceAt, old
            <4> HIDE DEF q, all
            <4>2. q = [ok |-> TRUE, sections |-> q.sections] /\ q.sections = all
                BY <2>1, <4>1, AnySections
            <4> USE DEF all
            <4>3. p.sections \in Seq(T) /\ sec \in T
                BY <2>2, SeqMonotonic
            <4>4. Holds(lines, i, n, sec)
                BY <1>2, <3>2, <3>5, HoldsAdd
            <4> HIDE DEF sec, T
            <4>5. /\ q.sections \in Seq(T) /\ Len(q.sections) = n
                  /\ \A c \in 1..n : q.sections[c] = IF c = n THEN sec ELSE p.sections[c]
                BY <2>1, <3>1, <4>2, <4>3, ExceptSeq
            <4>6. \A c \in 1..n : c # n => Holds(lines, i, c, p.sections[c])
                <5> TAKE c \in 1..n
                <5>1. Holds(lines, i - 1, c, p.sections[c])
                    BY <2>1
                <5> QED
                    BY <1>2, <2>9, <3>1, <5>1, HoldsOther DEF Belongs
            <4>7. \A c \in 1..n : Holds(lines, i, c, q.sections[c])
                BY <4>4, <4>5, <4>6
            <4>8. Reads(lines, i, q)
                BY <2>4, <3>1, <3>3, <3>5, <4>2, <4>5, <4>7 DEF Reads
            <4> QED
                BY <4>8 DEF q
        <3> QED
            BY <3>4, <3>5
    <2> QED
        BY <1>4, <2>5, <2>6, <2>7, <2>8, <2>9
<1> QED
    BY <1>7, <1>8

\* parse() on the whole file.
LEMMA ParseReads ==
    ASSUME NEW lines, IsFile(lines)
    PROVE  Reads(lines, Len(lines), parse(lines))
<1> DEFINE N == Len(lines)
<1>1. N \in Nat
    BY LenProperties DEF IsFile
<1>2. PICK u : Parses(lines, u) /\ parse(lines) = u[N]
    BY <1>1, ParseIs
<1>3. u[0] = NewParse /\ \A i \in 1..N : u[i] = AddLine(u[i - 1], lines[i])
    <2>1. \A i \in 0..N : u[i] = IF i = 0 THEN NewParse ELSE AddLine(u[i - 1], lines[i])
        BY <1>2 DEF Parses
    <2>2. 0 \in 0..N /\ \A i \in 1..N : i \in 0..N /\ i # 0
        BY <1>1
    <2> QED
        BY <2>1, <2>2
<1> DEFINE Bad == {i \in 0..N : ~Reads(lines, i, u[i])}
<1>4. Bad = {}
    <2> SUFFICES ASSUME Bad # {} PROVE FALSE
        OBVIOUS
    <2>1. PICK i \in Bad : \A k \in Bad : i <= k
        <3>1. Bad \subseteq Nat
            OBVIOUS
        <3> HIDE DEF Bad
        <3> QED
            BY <3>1, LeastNumber
    <2>2. i \in 0..N /\ ~Reads(lines, i, u[i])
        BY <2>1
    <2>3. i # 0
        BY <1>3, <2>2, ReadsZero
    <2>4. i - 1 \in 0..N /\ i - 1 \notin Bad
        <3>1. i - 1 \in 0..N /\ ~(i <= i - 1)
            BY <1>1, <2>2, <2>3
        <3> HIDE DEF Bad
        <3> QED
            BY <2>1, <3>1
    <2>5. Reads(lines, i - 1, u[i - 1]) /\ i \in 1..N
        BY <2>2, <2>3, <2>4
    <2> QED
        BY <1>3, <2>2, <2>5, ReadsStep
<1>5. Reads(lines, N, u[N])
    <2>1. N \in 0..N
        BY <1>1
    <2> QED
        BY <1>4, <2>1
<1> QED
    BY <1>2, <1>5

-----------------------------------------------------------------------------
(* One sequence after the other.                                           *)

\* u[i] is the first i sequences in one.
Flattens(seqs, u) ==
    u = [i \in 1..Len(seqs) |-> IF i = 1 THEN seqs[1] ELSE u[i - 1] \o seqs[i]]

LEMMA FlattenExists ==
    ASSUME NEW seqs, Len(seqs) \in Nat
    PROVE  \E u : Flattens(seqs, u)
<1> DEFINE N == Len(seqs)
           Upto(u, n) == /\ u = [i \in 1..N |-> u[i]]
                         /\ \A i \in 1..N : i <= n => u[i] = IF i = 1 THEN seqs[1] ELSE u[i - 1] \o seqs[i]
           Bad == {n \in 0..N : ~ \E u : Upto(u, n)}
<1>1. Bad = {}
    <2> SUFFICES ASSUME Bad # {} PROVE FALSE
        OBVIOUS
    <2>1. PICK n \in Bad : n \in 0..N /\ \A k \in Bad : n <= k
        <3>1. Bad \subseteq Nat
            OBVIOUS
        <3> HIDE DEF Bad
        <3>2. PICK n \in Bad : \A k \in Bad : n <= k
            BY <3>1, LeastNumber
        <3> QED
            BY <3>2 DEF Bad
    <2>2. CASE n = 0
        <3> DEFINE u == [i \in 1..N |-> seqs[1]]
        <3>1. u = [i \in 1..N |-> u[i]] /\ \A i \in 1..N : ~(i <= 0)
            OBVIOUS
        <3>2. Upto(u, 0)
            BY <3>1
        <3> QED
            BY <2>1, <2>2, <3>2
    <2>3. CASE n # 0
        <3>1. n - 1 \in 0..N /\ n - 1 \notin Bad /\ n \in 1..N
            <4>1. n - 1 \in 0..N /\ ~(n <= n - 1) /\ n \in 1..N
                BY <2>1, <2>3
            <4> HIDE DEF Bad
            <4> QED
                BY <2>1, <4>1
        <3>2. PICK u : Upto(u, n - 1)
            BY <3>1
        <3> DEFINE x == IF n = 1 THEN seqs[1] ELSE u[n - 1] \o seqs[n]
                   v == [i \in 1..N |-> IF i = n THEN x ELSE u[i]]
        <3>3. \A i \in 1..N : v[i] = IF i = n THEN x ELSE u[i]
            OBVIOUS
        <3>4. v = [i \in 1..N |-> v[i]]
            OBVIOUS
        <3> HIDE DEF v
        <3>5. ASSUME NEW i \in 1..N, i <= n
              PROVE  v[i] = IF i = 1 THEN seqs[1] ELSE v[i - 1] \o seqs[i]
            <4>1. i # 1 => i - 1 \in 1..N /\ i - 1 # n /\ v[i - 1] = u[i - 1]
                BY <3>1, <3>3, <3>5
            <4>2. CASE i = n
                BY <3>3, <4>1, <4>2
            <4>3. CASE i # n
                <5>1. i <= n - 1
                    BY <3>1, <3>5, <4>3
                <5> QED
                    BY <3>2, <3>3, <4>1, <4>3, <5>1
            <4> QED
                BY <4>2, <4>3
        <3>6. Upto(v, n)
            BY <3>4, <3>5
        <3> QED
            BY <2>1, <3>6
    <2> QED
        BY <2>2, <2>3
<1>2. PICK u : Upto(u, N)
    BY <1>1
<1>3. \A i \in 1..N : u[i] = IF i = 1 THEN seqs[1] ELSE u[i - 1] \o seqs[i]
    <2>1. \A i \in 1..N : i <= N
        OBVIOUS
    <2> QED
        BY <1>2, <2>1
<1>4. u = [i \in 1..N |-> IF i = 1 THEN seqs[1] ELSE u[i - 1] \o seqs[i]]
    BY <1>2, <1>3
<1> QED
    BY <1>4 DEF Flattens

LEMMA FlattenIs ==
    ASSUME NEW seqs, Len(seqs) \in Nat, Len(seqs) # 0
    PROVE  \E u : Flattens(seqs, u) /\ FlattenSeq(seqs) = u[Len(seqs)]
<1> DEFINE v == CHOOSE u : Flattens(seqs, u)
<1>1. FlattenSeq(seqs) = v[Len(seqs)]
    BY DEF FlattenSeq, Flattens
<1>2. Flattens(seqs, v)
    BY FlattenExists
<1> QED
    BY <1>1, <1>2

\* f is the first n sequences of seqs, one after the other.
Joined(seqs, W, n, f) ==
    /\ f \in Seq(W)
    /\ \A x : x \in Range(f) <=> \E i \in 1..n : x \in Range(seqs[i])
    /\ (\A i \in 1..n : seqs[i] = <<>>) => f = <<>>
    /\ \A i \in 1..n : seqs[i] # <<>> /\ (\A k \in 1..(i - 1) : seqs[k] = <<>>) =>
          f # <<>> /\ f[1] = seqs[i][1]

LEMMA JoinedStep ==
    ASSUME NEW W, NEW seqs \in Seq(Seq(W)), NEW n \in 1..Len(seqs), NEW f, Joined(seqs, W, n - 1, f)
    PROVE  Joined(seqs, W, n, f \o seqs[n])
<1> DEFINE g == f \o seqs[n]
           s == seqs[n]
<1>1. n \in Nat \ {0} /\ n - 1 \in Nat
    BY LenProperties
<1>2. f \in Seq(W) /\ s \in Seq(W)
    BY ElementOfSeq DEF Joined
<1>3. g \in Seq(W) /\ Range(g) = Range(f) \cup Range(s)
    BY <1>2, ConcatProperties, RangeConcatenation
<1>4. \A i \in 1..n : i = n \/ i \in 1..(n - 1)
    BY <1>1
<1>5. 1..(n - 1) \subseteq 1..n /\ n \in 1..n
    BY <1>1
<1>6. (f = <<>> => g = s) /\ (s = <<>> => g = f)
    BY <1>2, ConcatEmptySeq
<1>7. f # <<>> => g # <<>> /\ g[1] = f[1]
    <2> SUFFICES ASSUME f # <<>> PROVE g # <<>> /\ g[1] = f[1]
        OBVIOUS
    <2>1. Len(f) \in Nat /\ Len(f) # 0 /\ Len(s) \in Nat
        BY <1>2, EmptySeq, LenProperties
    <2>2. 1 \in 1..(Len(f) + Len(s)) /\ 1 <= Len(f)
        BY <2>1
    <2>3. g[1] = f[1] /\ Len(g) = Len(f) + Len(s)
        BY <1>2, <2>2, ConcatProperties
    <2>4. Len(g) # 0
        BY <2>1, <2>3
    <2> QED
        BY <2>3, <2>4
<1> HIDE DEF g
<1>8. \A x : x \in Range(g) <=> \E i \in 1..n : x \in Range(seqs[i])
    <2> TAKE x
    <2>1. x \in Range(f) <=> \E i \in 1..(n - 1) : x \in Range(seqs[i])
        BY DEF Joined
    <2> QED
        BY <1>3, <1>4, <1>5, <2>1
<1>9. (\A i \in 1..n : seqs[i] = <<>>) => g = <<>>
    BY <1>5, <1>6 DEF Joined
<1>10. ASSUME NEW i \in 1..n, seqs[i] # <<>>, \A k \in 1..(i - 1) : seqs[k] = <<>>
      PROVE  g # <<>> /\ g[1] = seqs[i][1]
    <2>1. CASE i = n
        <3>1. f = <<>>
            BY <1>10, <2>1 DEF Joined
        <3> QED
            BY <1>6, <1>10, <2>1, <3>1
    <2>2. CASE i \in 1..(n - 1)
        <3>1. f # <<>> /\ f[1] = seqs[i][1]
            BY <1>10, <2>2 DEF Joined
        <3> QED
            BY <1>7, <3>1
    <2> QED
        BY <1>4, <2>1, <2>2
<1>11. Joined(seqs, W, n, g)
    BY <1>3, <1>8, <1>9, <1>10 DEF Joined
<1> QED
    BY <1>11 DEF g

LEMMA FlattenJoins ==
    ASSUME NEW W, NEW seqs \in Seq(Seq(W))
    PROVE  Joined(seqs, W, Len(seqs), FlattenSeq(seqs))
<1> DEFINE N == Len(seqs)
<1>1. N \in Nat
    BY LenProperties
<1>2. Joined(seqs, W, 0, <<>>)
    <2>1. <<>> \in Seq(W) /\ Range(<<>>) = {} /\ 1..0 = {}
        BY DEF Range
    <2> QED
        BY <2>1 DEF Joined
<1>3. CASE N = 0
    <2>1. seqs = <<>>
        BY <1>3, EmptySeq
    <2>2. FlattenSeq(seqs) = <<>>
        BY <1>3, <2>1 DEF FlattenSeq
    <2> QED
        BY <1>2, <1>3, <2>2
<1>4. CASE N # 0
    <2>1. PICK u : Flattens(seqs, u) /\ FlattenSeq(seqs) = u[N]
        BY <1>1, <1>4, FlattenIs
    <2>2. \A i \in 1..N : u[i] = IF i = 1 THEN seqs[1] ELSE u[i - 1] \o seqs[i]
        BY <2>1 DEF Flattens
    <2> DEFINE Bad == {i \in 1..N : ~Joined(seqs, W, i, u[i])}
    <2>3. Bad = {}
        <3> SUFFICES ASSUME Bad # {} PROVE FALSE
            OBVIOUS
        <3>1. PICK i \in Bad : \A k \in Bad : i <= k
            <4>1. Bad \subseteq Nat
                OBVIOUS
            <4> HIDE DEF Bad
            <4> QED
                BY <4>1, LeastNumber
        <3>2. i \in 1..N /\ ~Joined(seqs, W, i, u[i])
            BY <3>1
        <3>3. CASE i = 1
            <4>1. seqs[1] \in Seq(W) /\ u[1] = seqs[1]
                BY <2>2, <3>2, <3>3, ElementOfSeq
            <4>2. <<>> \o seqs[1] = seqs[1]
                BY <4>1, ConcatEmptySeq
            <4>3. Joined(seqs, W, i - 1, <<>>)
                BY <1>2, <3>3
            <4>4. Joined(seqs, W, i, <<>> \o seqs[i])
                BY <3>2, <4>3, JoinedStep
            <4> QED
                BY <3>2, <3>3, <4>1, <4>2, <4>4
        <3>4. CASE i # 1
            <4>1. i - 1 \in 1..N /\ i - 1 \notin Bad
                <5>1. i - 1 \in 1..N /\ ~(i <= i - 1)
                    BY <1>1, <3>2, <3>4
                <5> HIDE DEF Bad
                <5> QED
                    BY <3>1, <5>1
            <4>2. Joined(seqs, W, i - 1, u[i - 1]) /\ u[i] = u[i - 1] \o seqs[i]
                BY <2>2, <3>2, <3>4, <4>1
            <4> QED
                BY <3>2, <4>2, JoinedStep
        <3> QED
            BY <3>3, <3>4
    <2>4. N \in 1..N
        BY <1>1, <1>4
    <2> QED
        BY <2>1, <2>3, <2>4
<1> QED
    BY <1>3, <1>4

-----------------------------------------------------------------------------
(* The sections of a file.                                                 *)

\* Every value in the file.
Words(lines) == UNION {Range(lines[k].val) : k \in {j \in 1..Len(lines) : lines[j].tag = "pair"}}

LEMMA Sections ==
    ASSUME NEW lines, IsFile(lines), NEW cfg, cfg = parse(lines)
    PROVE  /\ Len(lines) \in Nat /\ DOMAIN lines = 1..Len(lines)
           /\ cfg.ok <=> ~ \E k \in 1..Len(lines) : Wrong(lines, k)
           /\ \E S : cfg.sections \in Seq(S)
           /\ Len(cfg.sections) \in Nat /\ DOMAIN cfg.sections = 1..Len(cfg.sections)
           /\ cfg.ok => Len(cfg.sections) = Count(lines, Len(lines))
           /\ ~cfg.ok => cfg.sections = <<>>
           /\ \A c \in DOMAIN cfg.sections :
                 cfg.ok /\ Holds(lines, Len(lines), c, cfg.sections[c])
<1> DEFINE N == Len(lines)
<1>1. Reads(lines, N, cfg)
    BY ParseReads
<1>2. N \in Nat /\ DOMAIN lines = 1..N
    BY LenProperties DEF IsFile
<1>3. CASE \E k \in 1..N : Wrong(lines, k)
    <2>1. cfg = [ok |-> FALSE, sections |-> <<>>]
        BY <1>1, <1>3 DEF Reads, Refused
    <2>2. ~cfg.ok /\ cfg.sections = <<>>
        BY <2>1
    <2>3. <<>> \in Seq({}) /\ Len(<<>>) = 0 /\ DOMAIN <<>> = 1..0 /\ 1..0 = {}
        OBVIOUS
    <2> QED
        BY <1>2, <1>3, <2>2, <2>3
<1>4. CASE ~ \E k \in 1..N : Wrong(lines, k)
    <2>1. /\ cfg = [ok |-> TRUE, sections |-> cfg.sections]
          /\ \E S : cfg.sections \in Seq(S)
          /\ Len(cfg.sections) = Count(lines, N)
          /\ \A c \in 1..Count(lines, N) : Holds(lines, N, c, cfg.sections[c])
        BY <1>1, <1>4 DEF Reads
    <2>2. cfg.ok
        BY <2>1
    <2>3. Len(cfg.sections) \in Nat /\ DOMAIN cfg.sections = 1..Len(cfg.sections)
        BY <2>1, LenProperties
    <2> QED
        BY <1>2, <1>4, <2>1, <2>2, <2>3
<1> QED
    BY <1>3, <1>4

\* A single-valued key has the value that some line of its section gives it.
LEMMA KvValues ==
    ASSUME NEW lines, IsFile(lines), NEW cfg, cfg = parse(lines),
           NEW c \in DOMAIN cfg.sections, NEW key
    PROVE  /\ Get(cfg.sections[c].kv, key) \in Seq(Words(lines))
           /\ key \in DOMAIN cfg.sections[c].kv =>
                 \E k \in 1..Len(lines) : /\ Belongs(lines, k, c) /\ lines[k].key = key
                                          /\ cfg.sections[c].kv[key] = lines[k].val
<1> DEFINE kv == cfg.sections[c].kv
<1>1. SingleKeys(lines, Len(lines), c, kv)
    BY Sections DEF Holds
<1>2. CASE key \in DOMAIN kv
    <2>1. PICK k \in 1..Len(lines) : Belongs(lines, k, c) /\ lines[k].key = key
                                     /\ kv[key] = lines[k].val
        BY <1>1, <1>2 DEF SingleKeys
    <2>2. lines[k].val \in Seq(Range(lines[k].val))
        BY <2>1, LineTags DEF Belongs, IsLine
    <2>3. Range(lines[k].val) \subseteq Words(lines)
        BY <2>1 DEF Words, Belongs
    <2>4. kv[key] \in Seq(Words(lines))
        BY <2>1, <2>2, <2>3, SeqMonotonic
    <2> QED
        BY <1>2, <2>1, <2>4 DEF Get
<1>3. CASE key \notin DOMAIN kv
    BY <1>3 DEF Get
<1> QED
    BY <1>2, <1>3

\* The targets of a stream are those that some [routes] section gives it.
LEMMA RoutesFacts ==
    ASSUME NEW lines, IsFile(lines), NEW cfg, cfg = parse(lines), NEW stream
    PROVE  /\ RoutesOf(cfg, stream) \in Seq(Words(lines))
           /\ \A x : x \in Range(RoutesOf(cfg, stream)) <=>
                 \E c \in of_type(cfg, "routes") : x \in Range(Get(cfg.sections[c].kv, stream))
<1> DEFINE n == Len(cfg.sections)
           W == Words(lines)
           seqs == [i \in DOMAIN cfg.sections |->
                       IF i \in of_type(cfg, "routes") THEN Get(cfg.sections[i].kv, stream) ELSE <<>>]
           f == FlattenSeq(seqs)
<1>1. n \in Nat /\ DOMAIN cfg.sections = 1..n
    BY Sections
<1>2. \A i \in DOMAIN cfg.sections :
          seqs[i] = IF i \in of_type(cfg, "routes") THEN Get(cfg.sections[i].kv, stream) ELSE <<>>
    OBVIOUS
<1>3. \A i \in DOMAIN cfg.sections : seqs[i] \in Seq(W)
    <2>1. \A i \in DOMAIN cfg.sections : Get(cfg.sections[i].kv, stream) \in Seq(W)
        BY KvValues
    <2>2. <<>> \in Seq(W)
        OBVIOUS
    <2> HIDE DEF W
    <2> QED
        BY <2>1, <2>2
<1>4. seqs \in [1..n -> Seq(W)]
    <2>1. seqs = [i \in 1..n |-> seqs[i]]
        BY <1>1
    <2> HIDE DEF seqs, W
    <2> QED
        BY <1>1, <1>3, <2>1
<1>5. seqs \in Seq(Seq(W)) /\ Len(seqs) = n
    <2> HIDE DEF seqs, W
    <2>1. seqs \in Seq(Seq(W))
        BY <1>1, <1>4, SeqDef
    <2>2. DOMAIN seqs = 1..Len(seqs) /\ Len(seqs) \in Nat
        BY <2>1, LenProperties
    <2>3. DOMAIN seqs = 1..n
        BY <1>4
    <2> QED
        BY <1>1, <2>1, <2>2, <2>3
<1> HIDE DEF seqs, W
<1>6. Joined(seqs, W, n, f)
    BY <1>5, FlattenJoins
<1>7. f = RoutesOf(cfg, stream)
    BY DEF RoutesOf, seqs
<1> HIDE DEF f
<1>8. ASSUME NEW x
      PROVE  x \in Range(f) <=>
                 \E c \in of_type(cfg, "routes") : x \in Range(Get(cfg.sections[c].kv, stream))
    <2>1. x \in Range(f) <=> \E i \in 1..n : x \in Range(seqs[i])
        BY <1>6 DEF Joined
    <2>2. Range(<<>>) = {}
        BY DEF Range
    <2>3. of_type(cfg, "routes") \subseteq 1..n
        BY <1>1 DEF of_type
    <2> QED
        BY <1>1, <1>2, <2>1, <2>2, <2>3
<1> QED
    BY <1>6, <1>7, <1>8 DEF Joined, W

\* Of some numbers, none above n, one is the greatest: Max() picks it.
LEMMA Greatest ==
    ASSUME NEW T, NEW n \in Nat, T \subseteq 0..n, T # {}
    PROVE  Max(T) \in T /\ \A k \in T : k <= Max(T)
<1> DEFINE M == {n - k : k \in T}
<1>1. M \subseteq Nat /\ M # {}
    OBVIOUS
<1>2. PICK m \in M : \A k \in M : m <= k
    <2> HIDE DEF M
    <2> QED
        BY <1>1, LeastNumber
<1>3. PICK k \in T : m = n - k
    OBVIOUS
<1>4. \A j \in T : k >= j
    <2> TAKE j \in T
    <2>1. n - j \in M
        OBVIOUS
    <2>2. m <= n - j
        BY <1>2, <2>1
    <2>3. k \in 0..n /\ j \in 0..n
        OBVIOUS
    <2> QED
        BY <1>3, <2>2, <2>3
<1>5. Max(T) \in T /\ \A j \in T : Max(T) >= j
    BY <1>4 DEF Max
<1>6. \A j \in T : j \in 0..n
    OBVIOUS
<1> QED
    BY <1>5, <1>6

\* The last section of some that has an id.
LEMMA LastOfIs ==
    ASSUME NEW lines, IsFile(lines), NEW cfg, cfg = parse(lines),
           NEW S, S \subseteq DOMAIN cfg.sections, NEW id \in Ids(cfg, S)
    PROVE  /\ LastOf(cfg, S, id) \in S
           /\ Value(cfg.sections[LastOf(cfg, S, id)], "id") = id
           /\ \A i \in S : Value(cfg.sections[i], "id") = id => i <= LastOf(cfg, S, id)
<1> DEFINE T == {i \in S : Value(cfg.sections[i], "id") = id}
           n == Len(cfg.sections)
<1>1. n \in Nat /\ DOMAIN cfg.sections = 1..n
    BY Sections
<1>2. T \subseteq 0..n /\ T # {}
    BY <1>1 DEF Ids
<1>3. LastOf(cfg, S, id) = Max(T)
    BY DEF LastOf
<1>4. Max(T) \in T /\ \A k \in T : k <= Max(T)
    <2> HIDE DEF T
    <2> QED
        BY <1>1, <1>2, Greatest
<1> QED
    BY <1>3, <1>4

-----------------------------------------------------------------------------
(* The tables, which no step changes.                                      *)

TargetNames == UNION {Range(route_table[stream]) : stream \in DOMAIN route_table}

Tables ==
    /\ status \in {"running", "refused", "failed"}
    /\ \E n \in Nat : DOMAIN script_data \subseteq 1..n /\ DOMAIN plugins \subseteq 1..n
    /\ \A x \in DOMAIN script_data : Value(script_data[x], "runtime") \in {"python", "wasm"}
    /\ \A id \in DOMAIN handlers :
          handlers[id] \in DOMAIN script_data /\ Value(script_data[handlers[id]], "id") = id
    /\ \A id \in DOMAIN endpoints : endpoints[id] \in EndpointTypes
    /\ \A stream : Targets(stream) \in Seq(TargetNames)

LEMMA FileIs == Configured => IsFile(file)
BY RouterAssumption DEF Configured, IsFile

\* What start_pipeline() makes of a file is in order.
LEMMA TablesFollow == Configured => Tables
<1> SUFFICES ASSUME Configured PROVE Tables
    OBVIOUS
<1> DEFINE cfg == parse(file)
           n == Len(cfg.sections)
<1>1. IsFile(file)
    BY FileIs
<1>2. n \in Nat /\ DOMAIN cfg.sections = 1..n
    BY <1>1, Sections
<1>3. /\ status = CASE ~cfg.ok -> "refused"
                    [] cfg.ok /\ Ingestors(cfg) = {} -> "failed"
                    [] OTHER -> "running"
      /\ route_table = parse_routes(cfg)
      /\ handlers = Handlers(cfg)
      /\ endpoints = AllEndpoints(cfg)
      /\ script_data = [i \in Scripts(cfg) |-> cfg.sections[i]]
      /\ plugins = [i \in Ingestors(cfg) |-> cfg.sections[i]]
    BY DEF Configured
<1>4. \A type : of_type(cfg, type) \subseteq 1..n
    BY <1>2 DEF of_type
<1>5. cfg = parse(file)
    OBVIOUS
<1> HIDE DEF cfg
<1>6. status \in {"running", "refused", "failed"}
    BY <1>3
<1>7. DOMAIN script_data = Scripts(cfg) /\ Scripts(cfg) \subseteq 1..n
    BY <1>3, <1>4 DEF Scripts
<1>8. DOMAIN plugins \subseteq 1..n
    BY <1>3, <1>4 DEF Ingestors
<1>9. \A x \in DOMAIN script_data :
          script_data[x] = cfg.sections[x] /\ Value(script_data[x], "runtime") \in {"python", "wasm"}
    BY <1>3 DEF Scripts
<1>10. ASSUME NEW id \in DOMAIN handlers
      PROVE  handlers[id] \in DOMAIN script_data /\ Value(script_data[handlers[id]], "id") = id
    <2>1. id \in Ids(cfg, Scripts(cfg)) /\ handlers[id] = LastOf(cfg, Scripts(cfg), id)
        BY <1>3 DEF Handlers
    <2> QED
        BY <1>1, <1>2, <1>5, <1>7, <1>9, <2>1, LastOfIs
<1>11. ASSUME NEW id \in DOMAIN endpoints PROVE endpoints[id] \in EndpointTypes
    <2> DEFINE eps == Endpoints(cfg)
    <2>1. endpoints = [e \in DOMAIN eps \cup Defaults(cfg) |-> IF e \in Defaults(cfg) THEN e ELSE eps[e]]
        BY <1>3 DEF AllEndpoints
    <2>2. CASE id \in Defaults(cfg)
        <3>1. endpoints[id] = id
            BY <2>1, <2>2
        <3> QED
            BY <2>2, <3>1 DEF Defaults, EndpointTypes
    <2>3. CASE id \notin Defaults(cfg)
        <3>1. id \in DOMAIN eps /\ endpoints[id] = eps[id]
            BY <2>1, <2>3
        <3>2. DOMAIN eps = Ids(cfg, Made(cfg))
            BY DEF Endpoints
        <3>3. id \in Ids(cfg, Made(cfg))
              /\ eps[id] = Value(cfg.sections[LastOf(cfg, Made(cfg), id)], "type")
            BY <3>1, <3>2 DEF Endpoints
        <3>4. Made(cfg) \subseteq DOMAIN cfg.sections
            BY <1>2, <1>4 DEF Made
        <3>5. LastOf(cfg, Made(cfg), id) \in Made(cfg)
            BY <1>1, <1>5, <3>3, <3>4, LastOfIs
        <3> QED
            BY <3>1, <3>3, <3>5 DEF Made, Makes
    <2> QED
        BY <2>2, <2>3
<1>12. ASSUME NEW stream PROVE Targets(stream) \in Seq(TargetNames)
    <2>1. CASE stream \in DOMAIN route_table
        <3>1. route_table[stream] = RoutesOf(cfg, stream)
            BY <1>3, <2>1 DEF parse_routes
        <3>2. route_table[stream] \in Seq(Words(file))
            BY <1>1, <1>5, <3>1, RoutesFacts
        <3>3. route_table[stream] \in Seq(Range(route_table[stream]))
            BY <3>2, SeqOfRange
        <3>4. Range(route_table[stream]) \subseteq TargetNames
            BY <2>1 DEF TargetNames
        <3>5. route_table[stream] \in Seq(TargetNames)
            BY <3>3, <3>4, SeqMonotonic
        <3> QED
            BY <2>1, <3>5 DEF Targets, Get
    <2>2. CASE stream \notin DOMAIN route_table
        BY <2>2 DEF Targets, Get
    <2> QED
        BY <2>1, <2>2
<1> QED
    BY <1>2, <1>6, <1>7, <1>8, <1>9, <1>10, <1>11, <1>12 DEF Tables

-----------------------------------------------------------------------------
(* Scripts on an event.  C is a set of cells: numbers, names, bytes.       *)

EventsOf(C) ==
    [timestamp_ns : Nat, sequence : Nat, lineage_depth : Nat, stream_id : C, schema_id : C,
     payload : [1..PAYLOAD_MAX -> C]]

\* The input of a script fits into the input zone.
Fits == HeaderSize + PAYLOAD_MAX + 1 <= IO_BUF_SIZE

IsCells(C) == Nat \subseteq C /\ {"wasm_processed", "wasm_v1", "py_processed", "py_v1"} \subseteq C

\* t is a sequence over C, n cells long, that begins with s.
Prolongs(t, s, n, C) ==
    /\ t \in Seq(C) /\ Len(t) = n
    /\ \A i \in 1..Len(s) : t[i] = s[i]

LEMMA ConcatIs ==
    ASSUME NEW C, NEW a \in Seq(C), NEW b \in Seq(C)
    PROVE  Prolongs(a \o b, a, Len(a) + Len(b), C)
<1>1. Len(a) \in Nat /\ Len(b) \in Nat
    BY LenProperties
<1>2. \A i \in 1..Len(a) : i \in 1..(Len(a) + Len(b)) /\ i <= Len(a)
    BY <1>1
<1> QED
    BY <1>2, ConcatProperties DEF Prolongs

CellIs(t, n, x) == t[n] = x

LEMMA ConcatHead ==
    ASSUME NEW C, NEW a \in Seq(C), NEW b \in Seq(C), Len(b) # 0
    PROVE  CellIs(a \o b, Len(a) + 1, b[1])
<1>1. Len(a) \in Nat /\ Len(b) \in Nat
    BY LenProperties
<1>2. Len(a) + 1 \in 1..(Len(a) + Len(b)) /\ ~(Len(a) + 1 <= Len(a)) /\ Len(a) + 1 - Len(a) = 1
    BY <1>1
<1> QED
    BY <1>2, ConcatProperties DEF CellIs

LEMMA NamedIs ==
    ASSUME NEW C, IsCells(C), NEW name \in C, NEW n \in Nat \ {0}
    PROVE  Named(name, n) \in Seq(C) /\ Len(Named(name, n)) = n /\ Named(name, n)[1] = name
<1> DEFINE a == <<name>>
           b == Cell(n - 1)
<1>1. a \in Seq(C) /\ Len(a) = 1 /\ a[1] = name
    OBVIOUS
<1>2. b \in [1..(n - 1) -> C]
    BY DEF Cell, IsCells
<1>3. b \in Seq(C) /\ Len(b) = n - 1
    BY <1>2, SeqDef
<1> HIDE DEF a, b
<1>4. Prolongs(a \o b, a, 1 + (n - 1), C)
    BY <1>1, <1>3, ConcatIs
<1>5. a \o b \in Seq(C) /\ Len(a \o b) = n /\ (a \o b)[1] = name
    BY <1>1, <1>4 DEF Prolongs
<1> QED
    BY <1>5 DEF Named, a, b

LEMMA wevIs ==
    ASSUME NEW C, IsCells(C), NEW e \in EventsOf(C)
    PROVE  /\ wev(e) \in Seq(C) /\ Len(wev(e)) = HeaderSize + PAYLOAD_MAX
           /\ wev(e)[1] = e.timestamp_ns /\ wev(e)[2] = e.sequence
           /\ wev(e)[3] = e.lineage_depth /\ wev(e)[4] = PAYLOAD_MAX
<1> DEFINE a == <<e.timestamp_ns, e.sequence, e.lineage_depth, Len(e.payload)>>
           b == Named(e.stream_id, STREAM_ID_MAX)
           c == Named(e.schema_id, SCHEMA_ID_MAX)
           d == e.payload
<1>1. /\ e.timestamp_ns \in Nat /\ e.sequence \in Nat /\ e.lineage_depth \in Nat
      /\ e.stream_id \in C /\ e.schema_id \in C /\ d \in [1..PAYLOAD_MAX -> C]
    BY DEF EventsOf
<1>2. STREAM_ID_MAX \in Nat \ {0} /\ SCHEMA_ID_MAX \in Nat \ {0} /\ PAYLOAD_MAX \in Nat
    BY CodecAssumption
<1>3. d \in Seq(C) /\ Len(d) = PAYLOAD_MAX
    BY <1>1, <1>2, SeqDef
<1>4. a \in Seq(C) /\ Len(a) = 4 /\ a[1] = e.timestamp_ns /\ a[2] = e.sequence
      /\ a[3] = e.lineage_depth /\ a[4] = PAYLOAD_MAX
    BY <1>1, <1>2, <1>3 DEF IsCells
<1>5. b \in Seq(C) /\ Len(b) = STREAM_ID_MAX /\ c \in Seq(C) /\ Len(c) = SCHEMA_ID_MAX
    BY <1>1, <1>2, NamedIs
<1> HIDE DEF a, b, c, d
<1>6. Prolongs(a \o b, a, 4 + STREAM_ID_MAX, C)
    BY <1>4, <1>5, ConcatIs
<1>7. Prolongs(a \o b \o c, a \o b, 4 + STREAM_ID_MAX + SCHEMA_ID_MAX, C)
    BY <1>5, <1>6, ConcatIs DEF Prolongs
<1>8. Prolongs(a \o b \o c \o d, a \o b \o c, 4 + STREAM_ID_MAX + SCHEMA_ID_MAX + PAYLOAD_MAX, C)
    BY <1>3, <1>7, ConcatIs DEF Prolongs
<1>9. \A i \in 1..4 : (a \o b \o c \o d)[i] = a[i]
    <2>1. \A i \in 1..4 : (a \o b)[i] = a[i]
        BY <1>4, <1>6 DEF Prolongs
    <2>2. \A i \in 1..4 : (a \o b \o c)[i] = (a \o b)[i]
        BY <1>2, <1>6, <1>7 DEF Prolongs
    <2>3. \A i \in 1..4 : (a \o b \o c \o d)[i] = (a \o b \o c)[i]
        BY <1>2, <1>7, <1>8 DEF Prolongs
    <2> QED
        BY <2>1, <2>2, <2>3
<1>10. wev(e) = a \o b \o c \o d
    BY DEF wev, a, b, c, d
<1> QED
    BY <1>4, <1>8, <1>10, <1>9 DEF Prolongs, HeaderSize

LEMMA InputIs ==
    ASSUME NEW C, IsCells(C), NEW e \in EventsOf(C), NEW zone, zone = Input(e)
    PROVE  /\ zone \in Seq(C) /\ Len(zone) = HeaderSize + PAYLOAD_MAX + 1
           /\ zone[1] = e.timestamp_ns /\ zone[2] = e.sequence
           /\ zone[3] = e.lineage_depth /\ zone[4] = PAYLOAD_MAX
<1> DEFINE a == wev(e)
<1>1. PAYLOAD_MAX \in Nat /\ HeaderSize \in Nat /\ HeaderSize >= 4
    BY CodecAssumption DEF HeaderSize
<1>2. /\ a \in Seq(C) /\ Len(a) = HeaderSize + PAYLOAD_MAX
      /\ a[1] = e.timestamp_ns /\ a[2] = e.sequence
      /\ a[3] = e.lineage_depth /\ a[4] = PAYLOAD_MAX
    BY wevIs
<1>3. zone = Append(a, 0) /\ 0 \in C
    BY DEF Input, IsCells
<1> HIDE DEF a
<1>4. zone \in Seq(C) /\ Len(zone) = Len(a) + 1 /\ \A i \in 1..Len(a) : zone[i] = a[i]
    BY <1>2, <1>3, AppendProperties
<1>5. 1 \in 1..Len(a) /\ 2 \in 1..Len(a) /\ 3 \in 1..Len(a) /\ 4 \in 1..Len(a)
    BY <1>1, <1>2
<1> QED
    BY <1>1, <1>2, <1>4, <1>5

\* Cells written over the start of a memory.
LEMMA OverIs ==
    ASSUME NEW C, NEW cells \in Seq(C), NEW mem \in Seq(C), Len(cells) <= Len(mem),
           NEW new, new = cells \o SubSeq(mem, Len(cells) + 1, Len(mem))
    PROVE  Prolongs(new, cells, Len(mem), C)
<1> DEFINE rest == SubSeq(mem, Len(cells) + 1, Len(mem))
<1>1. Len(cells) \in Nat /\ Len(mem) \in Nat
    BY LenProperties
<1>2. \A i \in (Len(cells) + 1)..Len(mem) : mem[i] \in C
    <2>1. \A i \in (Len(cells) + 1)..Len(mem) : i \in 1..Len(mem)
        BY <1>1
    <2> QED
        BY <2>1, ElementOfSeq
<1>3. rest \in Seq(C) /\ Len(rest) = Len(mem) - Len(cells)
    <2>1. rest \in Seq(C) /\ Len(rest) = IF Len(cells) + 1 <= Len(mem)
                                         THEN Len(mem) - (Len(cells) + 1) + 1 ELSE 0
        BY <1>1, <1>2, SubSeqProperties
    <2> QED
        BY <1>1, <2>1
<1> HIDE DEF rest
<1>4. Prolongs(cells \o rest, cells, Len(cells) + (Len(mem) - Len(cells)), C)
    BY <1>3, ConcatIs
<1>5. new = cells \o rest
    BY DEF rest
<1> QED
    BY <1>1, <1>4, <1>5 DEF Prolongs

\* The output zone and what is behind it.
Memories(C) == {mem \in Seq(C) : Len(mem) = IO_BUF_SIZE + STREAM_ID_MAX}

\* r is what a passthrough script makes of e.
Passed(C, e, r, stream) ==
    r \in EventsOf(C) /\ r.sequence = e.sequence /\ r.stream_id = stream

\* It has e's timestamp and lineage.
SameTime(e, r) == r.timestamp_ns = e.timestamp_ns /\ r.lineage_depth = e.lineage_depth

\* What the guest writes for an input that is not too long.
LEMMA GuestWrites ==
    ASSUME NEW C, IsCells(C), NEW in \in Seq(C), in[4] = PAYLOAD_MAX,
           Len(in) = HeaderSize + PAYLOAD_MAX + 1, Len(in) <= IO_BUF_SIZE,
           NEW out, out = passthrough_c(in)
    PROVE  /\ out \in Seq(C) /\ Len(out) = 1 + HeaderSize + PAYLOAD_MAX
           /\ out[1] = 1 /\ out[2] = in[1] /\ out[3] = in[2] /\ out[4] = in[3]
           /\ out[5] = PAYLOAD_MAX
           /\ out[6] = "wasm_processed" /\ out[6 + STREAM_ID_MAX] = "wasm_v1"
<1> DEFINE a == <<1, in[1], in[2], in[3], PAYLOAD_MAX>>
           b == Named("wasm_processed", STREAM_ID_MAX)
           c == Named("wasm_v1", SCHEMA_ID_MAX)
           d == SubSeq(in, HeaderSize + 1, HeaderSize + PAYLOAD_MAX)
           S == STREAM_ID_MAX
<1>1. /\ S \in Nat \ {0} /\ SCHEMA_ID_MAX \in Nat \ {0} /\ PAYLOAD_MAX \in Nat
      /\ HeaderSize = 4 + S + SCHEMA_ID_MAX /\ HeaderSize \in Nat /\ IO_BUF_SIZE \in Nat
    BY CodecAssumption DEF HeaderSize
<1>2. Len(in) \in Nat /\ \A i \in 1..Len(in) : in[i] \in C
    BY LenProperties, ElementOfSeq
<1>3. a \in Seq(C) /\ Len(a) = 5 /\ a[1] = 1 /\ a[2] = in[1] /\ a[3] = in[2] /\ a[4] = in[3]
      /\ a[5] = PAYLOAD_MAX
    <2>1. in[1] \in C /\ in[2] \in C /\ in[3] \in C /\ 1 \in C /\ PAYLOAD_MAX \in C
        BY <1>1, <1>2 DEF IsCells
    <2> QED
        BY <2>1
<1>4. /\ b \in Seq(C) /\ Len(b) = S /\ b[1] = "wasm_processed"
      /\ c \in Seq(C) /\ Len(c) = SCHEMA_ID_MAX /\ c[1] = "wasm_v1"
    BY <1>1, NamedIs DEF IsCells
<1>5. d \in Seq(C) /\ Len(d) = PAYLOAD_MAX
    <2>1. \A i \in (HeaderSize + 1)..(HeaderSize + PAYLOAD_MAX) : in[i] \in C
        <3>1. \A i \in (HeaderSize + 1)..(HeaderSize + PAYLOAD_MAX) : i \in 1..Len(in)
            BY <1>1
        <3> QED
            BY <1>2, <3>1
    <2>2. d \in Seq(C) /\ Len(d) = IF HeaderSize + 1 <= HeaderSize + PAYLOAD_MAX
                                   THEN HeaderSize + PAYLOAD_MAX - (HeaderSize + 1) + 1 ELSE 0
        BY <1>1, <2>1, SubSeqProperties
    <2> QED
        BY <1>1, <2>2
<1>6. out = a \o b \o c \o d
    <2>1. ~(PAYLOAD_MAX > PAYLOAD_MAX) /\ ~(1 + HeaderSize + PAYLOAD_MAX > IO_BUF_SIZE)
        BY <1>1
    <2> QED
        BY <2>1 DEF passthrough_c
<1> HIDE DEF a, b, c, d, S
<1> DEFINE x == a \o b
           y == x \o c
           z == y \o d
<1>7. Prolongs(x, a, 5 + S, C)
    BY <1>3, <1>4, ConcatIs
<1>8. S \in Nat \ {0} /\ Len(b) # 0 /\ Len(c) # 0
    BY <1>1, <1>4 DEF S
<1>9. x[6] = "wasm_processed"
    <2>1. CellIs(x, Len(a) + 1, b[1])
        BY <1>3, <1>4, <1>8, ConcatHead
    <2>2. Len(a) + 1 = 6
        BY <1>3
    <2> QED
        BY <1>4, <2>1, <2>2 DEF CellIs
<1> HIDE DEF x
<1>10. Prolongs(y, x, 5 + S + SCHEMA_ID_MAX, C)
    <2>1. x \in Seq(C) /\ Len(x) = 5 + S
        BY <1>7 DEF Prolongs
    <2> QED
        BY <1>1, <1>4, <1>8, <2>1, ConcatIs
<1>11. y[6 + S] = "wasm_v1"
    <2>1. x \in Seq(C) /\ Len(x) = 5 + S
        BY <1>7 DEF Prolongs
    <2>2. CellIs(y, 5 + S + 1, "wasm_v1")
        BY <1>4, <1>8, <2>1, ConcatHead
    <2>3. 5 + S + 1 = 6 + S
        BY <1>8
    <2> QED
        BY <2>2, <2>3 DEF CellIs
<1> HIDE DEF y
<1>12. Prolongs(z, y, 5 + S + SCHEMA_ID_MAX + PAYLOAD_MAX, C)
    <2>1. y \in Seq(C) /\ Len(y) = 5 + S + SCHEMA_ID_MAX
        BY <1>10 DEF Prolongs
    <2> QED
        BY <1>1, <1>5, <1>8, <2>1, ConcatIs
<1> HIDE DEF z
<1>13. out = z
    BY <1>6 DEF x, y, z, a, b, c, d
<1>14. \A i \in 1..5 : out[i] = a[i]
    <2>1. \A i \in 1..5 : x[i] = a[i]
        BY <1>3, <1>7 DEF Prolongs
    <2>2. \A i \in 1..5 : i \in 1..(5 + S) /\ i \in 1..(5 + S + SCHEMA_ID_MAX)
        BY <1>1, <1>8
    <2>3. \A i \in 1..5 : y[i] = x[i]
        BY <1>7, <1>10, <2>2 DEF Prolongs
    <2>4. \A i \in 1..5 : z[i] = y[i]
        BY <1>10, <1>12, <2>2 DEF Prolongs
    <2> QED
        BY <1>13, <2>1, <2>3, <2>4
<1>15. out[6] = "wasm_processed" /\ out[6 + S] = "wasm_v1"
    <2>1. 6 \in 1..(5 + S) /\ 6 \in 1..(5 + S + SCHEMA_ID_MAX) /\ 6 + S \in 1..(5 + S + SCHEMA_ID_MAX)
        BY <1>1 DEF S
    <2>2. y[6] = x[6] /\ z[6] = y[6] /\ z[6 + S] = y[6 + S]
        BY <1>7, <1>10, <1>12, <2>1 DEF Prolongs
    <2> QED
        BY <1>9, <1>11, <1>13, <2>2
<1>16. out \in Seq(C) /\ Len(out) = 1 + HeaderSize + PAYLOAD_MAX
    BY <1>1, <1>12, <1>13 DEF Prolongs, S
<1>17. out[1] = a[1] /\ out[2] = a[2] /\ out[3] = a[3] /\ out[4] = a[4] /\ out[5] = a[5]
    BY <1>14
<1> QED
    BY <1>3, <1>15, <1>16, <1>17 DEF S

\* What the host reads back.
LEMMA HostReads ==
    ASSUME NEW C, IsCells(C), NEW mem \in Memories(C), NEW ts \in Nat, NEW seq \in Nat, NEW lin \in Nat,
           1 + HeaderSize + PAYLOAD_MAX <= IO_BUF_SIZE,
           mem[2] = ts, mem[3] = seq, mem[4] = lin, mem[5] = PAYLOAD_MAX,
           mem[6] = "wasm_processed", mem[6 + STREAM_ID_MAX] = "wasm_v1"
    PROVE  \E r \in EventsOf(C) : /\ revs(mem, 2, 1) = <<r>>
                                  /\ r.timestamp_ns = ts /\ r.sequence = seq
                                  /\ r.lineage_depth = lin /\ r.stream_id = "wasm_processed"
<1> DEFINE r == rev(mem, 2)
           at == 2 + 4 + 2 * STREAM_ID_MAX
           to == at + PAYLOAD_MAX - 1
           p == SubSeq(mem, at, to)
<1>1. /\ STREAM_ID_MAX \in Nat \ {0} /\ SCHEMA_ID_MAX \in 1..STREAM_ID_MAX /\ PAYLOAD_MAX \in Nat
      /\ HeaderSize = 4 + STREAM_ID_MAX + SCHEMA_ID_MAX /\ IO_BUF_SIZE \in Nat
    BY CodecAssumption DEF HeaderSize
<1>2. mem \in Seq(C) /\ Len(mem) = IO_BUF_SIZE + STREAM_ID_MAX /\ \A i \in 1..Len(mem) : mem[i] \in C
    <2>1. mem \in Seq(C) /\ Len(mem) = IO_BUF_SIZE + STREAM_ID_MAX
        BY DEF Memories
    <2> QED
        BY <2>1, ElementOfSeq
<1>3. p \in [1..PAYLOAD_MAX -> C]
    <2>1. at \in Int /\ at >= 1 /\ to <= Len(mem) /\ to \in Int /\ to - at + 1 = PAYLOAD_MAX
        BY <1>1, <1>2
    <2>2. \A i \in at..to : i \in 1..Len(mem)
        BY <1>1, <1>2, <2>1
    <2>3. \A i \in at..to : mem[i] \in C
        BY <1>2, <2>2
    <2> HIDE DEF at, to
    <2>4. p \in Seq(C) /\ Len(p) = IF at <= to THEN to - at + 1 ELSE 0
        BY <2>1, <2>3, SubSeqProperties
    <2>5. Len(p) = PAYLOAD_MAX
        BY <1>1, <2>1, <2>4
    <2> HIDE DEF p
    <2> QED
        BY <2>4, <2>5, LenProperties
<1>4. r = [timestamp_ns |-> ts, sequence |-> seq, lineage_depth |-> lin,
           stream_id |-> "wasm_processed", schema_id |-> "wasm_v1", payload |-> p]
    <2>1. 2 + 1 = 3 /\ 2 + 2 = 4 /\ 2 + 3 = 5 /\ 2 + 4 = 6
        OBVIOUS
    <2> QED
        BY <2>1 DEF rev
<1> HIDE DEF p
<1>5. r \in EventsOf(C) /\ r.timestamp_ns = ts /\ r.sequence = seq /\ r.lineage_depth = lin
      /\ r.stream_id = "wasm_processed"
    <2> HIDE DEF r
    <2> QED
        BY <1>3, <1>4 DEF EventsOf, IsCells
<1>6. revs(mem, 2, 1) = <<r>>
    <2> DEFINE Rec(u) == u = [i \in 1..1 |-> IF i = 1 THEN 2 ELSE u[i - 1] + HeaderSize + mem[u[i - 1] + 3]]
               v == CHOOSE u : Rec(u)
    <2>1. revs(mem, 2, 1) = [i \in 1..1 |-> rev(mem, v[i])]
        BY DEF revs
    <2>2. Rec(v)
        <3> DEFINE w == [i \in 1..1 |-> 2]
        <3>1. Rec(w)
            OBVIOUS
        <3> QED
            BY <3>1
    <2>3. v[1] = 2
        BY <2>2
    <2> HIDE DEF v
    <2>4. revs(mem, 2, 1) = [i \in 1..1 |-> rev(mem, 2)]
        BY <2>1, <2>3
    <2> HIDE DEF r
    <2>5. \A x : [i \in 1..1 |-> x] = <<x>>
        OBVIOUS
    <2> QED
        BY <2>4, <2>5 DEF r
<1> QED
    BY <1>5, <1>6

\* A WASM script that copies its trigger; without room for it, one that does nothing.
LEMMA WasmPasses ==
    ASSUME NEW C, IsCells(C), NEW e \in EventsOf(C), NEW mem \in Memories(C),
           NEW run, run = invoke_zero_copy(e, mem)
    PROVE  /\ run.mem \in Memories(C)
           /\ \/ ~Fits /\ run.emitted = <<>>
              \/ Fits /\ \E r : /\ run.emitted = <<r>> /\ Passed(C, e, r, "wasm_processed")
                               /\ SameTime(e, r)
<1> DEFINE in == Input(e)
           out == passthrough_c(in)
           tail == SubSeq(in, IO_BUF_SIZE + 1, Len(in))
           Over(cells) == cells \o SubSeq(mem, Len(cells) + 1, Len(mem))
<1>1. /\ STREAM_ID_MAX \in Nat \ {0} /\ SCHEMA_ID_MAX \in 1..STREAM_ID_MAX /\ PAYLOAD_MAX \in Nat
      /\ HeaderSize = 4 + STREAM_ID_MAX + SCHEMA_ID_MAX /\ HeaderSize \in Nat
      /\ IO_BUF_SIZE \in Nat /\ HeaderSize + PAYLOAD_MAX + 2 <= 2 * IO_BUF_SIZE
    BY CodecAssumption DEF HeaderSize
<1>2. mem \in Seq(C) /\ Len(mem) = IO_BUF_SIZE + STREAM_ID_MAX
    BY DEF Memories
<1>3. /\ in \in Seq(C) /\ Len(in) = HeaderSize + PAYLOAD_MAX + 1
      /\ in[1] = e.timestamp_ns /\ in[2] = e.sequence /\ in[3] = e.lineage_depth
      /\ in[4] = PAYLOAD_MAX
    BY InputIs
<1>4. run = IF Len(in) > IO_BUF_SIZE THEN [mem |-> Over(tail), emitted |-> <<>>]
            ELSE [mem |-> Over(out), emitted |-> IF out = <<>> THEN <<>> ELSE revs(Over(out), 2, out[1])]
    BY DEF invoke_zero_copy
<1>5. Fits <=> Len(in) <= IO_BUF_SIZE
    BY <1>3 DEF Fits
<1>6. Len(in) \in Nat /\ (Len(in) > IO_BUF_SIZE <=> ~(Len(in) <= IO_BUF_SIZE))
    BY <1>1, <1>3
<1> HIDE DEF in
<1>7. CASE ~(Len(in) <= IO_BUF_SIZE)
    <2>1. tail \in Seq(C) /\ Len(tail) = Len(in) - IO_BUF_SIZE
        <3>1. \A i \in (IO_BUF_SIZE + 1)..Len(in) : in[i] \in C
            <4>1. \A i \in (IO_BUF_SIZE + 1)..Len(in) : i \in 1..Len(in)
                BY <1>1, <1>6
            <4> QED
                BY <1>3, <4>1, ElementOfSeq
        <3>2. tail \in Seq(C) /\ Len(tail) = IF IO_BUF_SIZE + 1 <= Len(in)
                                             THEN Len(in) - (IO_BUF_SIZE + 1) + 1 ELSE 0
            BY <1>1, <1>6, <3>1, SubSeqProperties
        <3> QED
            BY <1>1, <1>6, <1>7, <3>2
    <2>2. Len(tail) <= Len(mem)
        BY <1>1, <1>2, <1>3, <1>6, <2>1
    <2> HIDE DEF tail
    <2> DEFINE new == Over(tail)
    <2>3. new \in Seq(C) /\ Len(new) = Len(mem)
        <3>1. Prolongs(new, tail, Len(mem), C)
            BY <1>2, <2>1, <2>2, OverIs
        <3> QED
            BY <3>1 DEF Prolongs
    <2>4. run = [mem |-> new, emitted |-> <<>>]
        BY <1>4, <1>6, <1>7
    <2> HIDE DEF new
    <2>5. run.mem = new /\ run.emitted = <<>>
        BY <2>4
    <2>6. new \in Memories(C)
        BY <1>2, <2>3 DEF Memories
    <2> QED
        BY <1>5, <1>7, <2>5, <2>6
<1>8. CASE Len(in) <= IO_BUF_SIZE
    <2>1. /\ out \in Seq(C) /\ Len(out) = 1 + HeaderSize + PAYLOAD_MAX
          /\ out[1] = 1 /\ out[2] = in[1] /\ out[3] = in[2] /\ out[4] = in[3]
          /\ out[5] = PAYLOAD_MAX
          /\ out[6] = "wasm_processed" /\ out[6 + STREAM_ID_MAX] = "wasm_v1"
        BY <1>3, <1>8, GuestWrites
    <2>2. Len(out) <= Len(mem) /\ Len(out) # 0
        <3>1. 1 + HeaderSize + PAYLOAD_MAX <= IO_BUF_SIZE
            BY <1>1, <1>3, <1>8
        <3>2. Len(out) <= IO_BUF_SIZE /\ Len(out) # 0
            BY <1>1, <2>1, <3>1
        <3> QED
            BY <1>1, <1>2, <2>1, <3>2
    <2>3. 6 + STREAM_ID_MAX \in 1..Len(out) /\ \A i \in 1..6 : i \in 1..Len(out)
        BY <1>1, <2>1
    <2> HIDE DEF out
    <2> DEFINE new == Over(out)
    <2>4. /\ new \in Seq(C) /\ Len(new) = Len(mem)
          /\ \A i \in 1..Len(out) : new[i] = out[i]
        <3>1. Prolongs(new, out, Len(mem), C)
            BY <1>2, <2>1, <2>2, OverIs
        <3> HIDE DEF new
        <3> QED
            BY <3>1 DEF Prolongs
    <2>5. run = [mem |-> new, emitted |-> IF out = <<>> THEN <<>> ELSE revs(new, 2, out[1])]
        BY <1>4, <1>6, <1>8
    <2>6. out # <<>>
        BY <2>2
    <2> HIDE DEF new
    <2>7. run.mem = new /\ run.emitted = revs(new, 2, 1)
        BY <2>1, <2>5, <2>6
    <2>8. new \in Memories(C)
        BY <1>2, <2>4 DEF Memories
    <2>9. /\ new[2] = e.timestamp_ns /\ new[3] = e.sequence /\ new[4] = e.lineage_depth
          /\ new[5] = PAYLOAD_MAX /\ new[6] = "wasm_processed" /\ new[6 + STREAM_ID_MAX] = "wasm_v1"
        <3>1. new[2] = out[2] /\ new[3] = out[3] /\ new[4] = out[4] /\ new[5] = out[5] /\ new[6] = out[6]
              /\ new[6 + STREAM_ID_MAX] = out[6 + STREAM_ID_MAX]
            BY <2>3, <2>4
        <3> QED
            BY <1>3, <2>1, <3>1
    <2>10. e.timestamp_ns \in Nat /\ e.sequence \in Nat /\ e.lineage_depth \in Nat
        BY DEF EventsOf
    <2>11. 1 + HeaderSize + PAYLOAD_MAX <= IO_BUF_SIZE
        BY <1>1, <1>3, <1>8
    <2>12. PICK r \in EventsOf(C) : /\ revs(new, 2, 1) = <<r>>
                                    /\ r.timestamp_ns = e.timestamp_ns /\ r.sequence = e.sequence
                                    /\ r.lineage_depth = e.lineage_depth
                                    /\ r.stream_id = "wasm_processed"
        BY <2>8, <2>9, <2>10, <2>11, HostReads
    <2>13. Passed(C, e, r, "wasm_processed") /\ SameTime(e, r)
        BY <2>12 DEF Passed, SameTime
    <2> QED
        BY <1>5, <1>8, <2>7, <2>8, <2>12, <2>13
<1> QED
    BY <1>7, <1>8

\* A Python script, which keeps the payload too.
LEMMA PythonPasses ==
    ASSUME NEW C, IsCells(C), NEW e \in EventsOf(C)
    PROVE  \E r : /\ invoke_snapshot(e) = <<r>> /\ Passed(C, e, r, "py_processed")
                  /\ r.payload = e.payload
<1> DEFINE d == passthrough_py(event_to_pydict(e))
           r == pydict_to_event(d)
<1>1. e.sequence \in Nat /\ e.payload \in [1..PAYLOAD_MAX -> C] /\ PAYLOAD_MAX \in Nat
    BY CodecAssumption DEF EventsOf
<1>2. Len(e.payload) = PAYLOAD_MAX
    <2>1. e.payload \in Seq(C)
        BY <1>1, SeqDef
    <2>2. Len(e.payload) \in Nat /\ DOMAIN e.payload = 1..Len(e.payload)
        BY <2>1, LenProperties
    <2>3. DOMAIN e.payload = 1..PAYLOAD_MAX
        BY <1>1
    <2> QED
        BY <1>1, <2>2, <2>3
<1>3. d = [stream_id |-> "py_processed", schema_id |-> "py_v1",
           payload |-> e.payload, sequence |-> e.sequence]
    BY DEF passthrough_py, event_to_pydict
<1> HIDE DEF d
<1>4. /\ d.stream_id = "py_processed" /\ d.schema_id = "py_v1"
      /\ d.payload = e.payload /\ d.sequence = e.sequence
      /\ "timestamp_ns" \notin DOMAIN d
    BY <1>3
<1>5. set_payload(d.payload) = e.payload
    BY <1>1, <1>2, <1>4 DEF set_payload
<1>6. r = [timestamp_ns |-> 0, sequence |-> e.sequence, lineage_depth |-> 0,
           stream_id |-> "py_processed", schema_id |-> "py_v1", payload |-> e.payload]
    BY <1>4, <1>5 DEF pydict_to_event
<1>7. invoke_snapshot(e) = <<r>>
    BY DEF invoke_snapshot, d
<1> HIDE DEF r
<1>8. Passed(C, e, r, "py_processed") /\ r.payload = e.payload
    BY <1>1, <1>6 DEF Passed, EventsOf, IsCells
<1> QED
    BY <1>7, <1>8

-----------------------------------------------------------------------------
(* Types, and what an event keeps on its way.                              *)

\* All names there can be in an event.
Names ==
    {Native, "telemetry", "schema", "wasm_processed", "wasm_v1", "py_processed", "py_v1"}
        \cup {Value(plugins[i], "as") : i \in DOMAIN plugins}
        \cup {output_stream(script_data[x]) : x \in DOMAIN script_data}
Cells == Nat \cup Names

Paths == Seq(DOMAIN handlers)
Hists == [src : Sources, n : Nat \ {0}, path : Paths]

\* An event on its way is still that event.
Keeps(m) ==
    /\ m.ev.sequence = Original(m.hist).sequence
    /\ (\A k \in DOMAIN m.hist.path : ~IsWasm(m.hist.path[k])) =>
          m.ev.payload = Original(m.hist).payload
    /\ (\A k \in DOMAIN m.hist.path : IsWasm(m.hist.path[k])) =>
          SameTime(Original(m.hist), m.ev)

Mail == {m \in [ev : EventsOf(Cells), hist : Hists] : Keeps(m)}

Jobs ==
    {j \in [ev : EventsOf(Cells) \cup {<<>>}, hist : Hists \cup {<<>>}, todo : Seq(TargetNames)] :
        j.todo # <<>> => [ev |-> j.ev, hist |-> j.hist] \in Mail}

\* The script that route() finds under the worker's id is this one.
Answers(w) ==
    LET id == Value(Section_of(w), "id") IN id \in DOMAIN handlers /\ handlers[id] = w[2]

Shapes ==
    /\ queue \in [Workers -> Seq(Mail)]
    /\ memory \in [Workers -> Memories(Cells)]
    /\ outs \in [Workers -> Seq(Mail)]
    /\ job \in [Threads -> Jobs]
    /\ sent \in [Sources -> Nat]
    /\ received \in [DOMAIN endpoints -> Seq(Mail)]

Base ==
    /\ Configured
    /\ Shapes
    /\ \A w \in Workers : queue[w] # <<>> \/ outs[w] # <<>> => Answers(w)
    /\ \A t \in Sources : sent[t] <= Limit(t)
    /\ stalled \subseteq DOMAIN endpoints
    /\ mu # NoThread => mu \in Threads /\ AtEndpoint(mu)

LEMMA TablesKept ==
    ASSUME UNCHANGED tables
    PROVE  /\ Configured' = Configured /\ Sources' = Sources /\ Workers' = Workers /\ Threads' = Threads
           /\ TargetNames' = TargetNames /\ Cells' = Cells /\ Paths' = Paths /\ Hists' = Hists
           /\ Mail' = Mail /\ Jobs' = Jobs
           /\ \A w : Answers(w)' = Answers(w)
           /\ \A t : Limit(t)' = Limit(t)
           /\ \A stream : Targets(stream)' = Targets(stream)
<1>1. /\ file' = file /\ status' = status /\ route_table' = route_table /\ handlers' = handlers
      /\ endpoints' = endpoints /\ script_data' = script_data /\ plugins' = plugins
    BY DEF tables
<1>2. Configured' = Configured
    BY <1>1 DEF Configured
<1>3. Sources' = Sources /\ Workers' = Workers
    BY <1>1 DEF Sources, Workers
<1>4. Threads' = Threads
    BY <1>3 DEF Threads
<1>5. TargetNames' = TargetNames
    BY <1>1 DEF TargetNames
<1>6. Cells' = Cells
    <2>1. Names' = Names
        BY <1>1 DEF Names
    <2> QED
        BY <2>1 DEF Cells
<1>7. Paths' = Paths
    BY <1>1 DEF Paths
<1>8. Hists' = Hists
    BY <1>3, <1>7 DEF Hists
<1>9. \A m : Keeps(m)' = Keeps(m)
    BY <1>1 DEF Keeps, Original, Emission, Renamed, IsWasm
<1>10. Mail' = Mail
    BY <1>6, <1>8, <1>9 DEF Mail
<1>11. Jobs' = Jobs
    BY <1>5, <1>6, <1>8, <1>10 DEF Jobs
<1>12. \A w : Answers(w)' = Answers(w)
    BY <1>1 DEF Answers, Section_of
<1>13. \A t : Limit(t)' = Limit(t)
    BY <1>1 DEF Limit, Ordinal
<1>14. \A stream : Targets(stream)' = Targets(stream)
    BY <1>1 DEF Targets
<1> QED
    BY <1>2, <1>3, <1>4, <1>5, <1>6, <1>7, <1>8, <1>10, <1>11, <1>12, <1>13, <1>14

LEMMA CellsAre ==
    /\ IsCells(Cells) /\ {Native, "telemetry", "schema"} \subseteq Cells /\ Nat \subseteq Cells
    /\ \A i \in DOMAIN plugins : Value(plugins[i], "as") \in Cells
    /\ \A x \in DOMAIN script_data : output_stream(script_data[x]) \in Cells
<1>1. Names \subseteq Cells /\ Nat \subseteq Cells
    BY DEF Cells
<1>2. {Native, "telemetry", "schema", "wasm_processed", "wasm_v1", "py_processed", "py_v1"} \subseteq Names
    BY DEF Names
<1>3. \A i \in DOMAIN plugins : Value(plugins[i], "as") \in Names
    BY DEF Names
<1>4. \A x \in DOMAIN script_data : output_stream(script_data[x]) \in Names
    BY DEF Names
<1> QED
    BY <1>1, <1>2, <1>3, <1>4 DEF IsCells

\* Renaming touches the name only.
LEMMA RenamedIs ==
    ASSUME NEW e \in EventsOf(Cells), NEW name \in Cells
    PROVE  /\ Renamed(e, name) \in EventsOf(Cells)
           /\ Renamed(e, name).sequence = e.sequence
           /\ Renamed(e, name).payload = e.payload
           /\ SameTime(e, Renamed(e, name))
           /\ Renamed(e, name).stream_id = IF name = "" THEN e.stream_id ELSE name
BY DEF Renamed, EventsOf, SameTime

\* The stream of a source's events, in route().
SourceStream(t) ==
    IF t = TelemetryThread THEN "telemetry"
    ELSE IF Value(plugins[t[2]], "as") = "" THEN Native ELSE Value(plugins[t[2]], "as")

LEMMA EmissionIs ==
    ASSUME Tables, NEW t \in Sources, NEW n \in Nat \ {0}
    PROVE  /\ [ev |-> Emission(t, n), hist |-> History(t, n, <<>>)] \in Mail
           /\ Emission(t, n).stream_id = SourceStream(t)
<1>1. t = TelemetryThread \/ (t[2] \in DOMAIN plugins /\ t[2] \in Nat /\ t # TelemetryThread)
    BY DEF Tables, Sources, TelemetryThread
<1> DEFINE p == PayloadOf(t, n)
           seq == IF t = TelemetryThread THEN 0 ELSE n - 1
           stream == IF t = TelemetryThread THEN "telemetry" ELSE Native
           e == [timestamp_ns |-> 10 + n, sequence |-> seq, lineage_depth |-> 0,
                 stream_id |-> stream, schema_id |-> "schema", payload |-> p]
           as == IF t = TelemetryThread THEN "" ELSE Value(plugins[t[2]], "as")
<1>2. p \in [1..PAYLOAD_MAX -> Cells]
    <2>1. PAYLOAD_MAX \in Nat
        BY CodecAssumption
    <2>2. (IF t = TelemetryThread THEN 900 ELSE 100 * t[2]) \in Nat
        BY <1>1
    <2>3. \A i \in 1..PAYLOAD_MAX : (IF t = TelemetryThread THEN 900 ELSE 100 * t[2]) + 10 * n + i \in Cells
        BY <2>1, <2>2, CellsAre
    <2> QED
        BY <2>3 DEF PayloadOf
<1>3. seq \in Nat /\ stream \in Cells /\ 10 + n \in Nat /\ "schema" \in Cells
    BY CellsAre
<1>4. Emission(t, n) = Renamed(e, as)
    BY DEF Emission
<1>5. as = "" \/ as \in Cells
    BY <1>1, CellsAre
<1> HIDE DEF p, seq
<1>6. e \in EventsOf(Cells) /\ e.stream_id = stream
    BY <1>2, <1>3 DEF EventsOf
<1> HIDE DEF e, as, stream
<1>7. Emission(t, n) \in EventsOf(Cells) /\ Emission(t, n).stream_id = IF as = "" THEN stream ELSE as
    <2>1. CASE as = ""
        BY <1>4, <1>6, <2>1 DEF Renamed
    <2>2. CASE as # ""
        BY <1>4, <1>5, <1>6, <2>2, RenamedIs
    <2> QED
        BY <2>1, <2>2
<1>8. Emission(t, n).stream_id = SourceStream(t)
    BY <1>7 DEF SourceStream, as, stream
<1> DEFINE h == History(t, n, <<>>)
           m == [ev |-> Emission(t, n), hist |-> h]
<1>9. h.src = t /\ h.n = n /\ h \in Hists
    BY DEF History, Hists, Paths
<1> HIDE DEF h
<1>10. m \in [ev : EventsOf(Cells), hist : Hists] /\ m.ev = Emission(t, n) /\ m.hist = h
    BY <1>7, <1>9
<1> HIDE DEF m
<1>11. Original(m.hist) = Emission(t, n)
    BY <1>9, <1>10 DEF Original
<1>12. m \in Mail
    BY <1>10, <1>11 DEF Mail, Keeps, SameTime
<1> QED
    BY <1>8, <1>12 DEF m, h

\* The name a script gives an event.
RawName(w) ==
    IF Value(Section_of(w), "runtime") = "wasm" THEN "wasm_processed" ELSE "py_processed"

LEMMA WorkersAre ==
    ASSUME NEW w \in Workers
    PROVE  w = <<"script", w[2]>> /\ w[2] \in DOMAIN script_data /\ Section_of(w) = script_data[w[2]]
BY DEF Workers, Section_of

LEMMA PathSet ==
    ASSUME NEW A, NEW B, NEW C, NEW h \in [src : A, n : B, path : C], NEW new
    PROVE  [h EXCEPT !.path = new] = [src |-> h.src, n |-> h.n, path |-> new]
OBVIOUS

LEMMA ThroughIs ==
    ASSUME NEW w, NEW h \in Hists
    PROVE  Through(w, h) =
              [src |-> h.src, n |-> h.n, path |-> Append(h.path, Value(Section_of(w), "id"))]
<1> DEFINE new == Append(h.path, Value(Section_of(w), "id"))
<1>1. Through(w, h) = [h EXCEPT !.path = new]
    BY DEF Through
<1> HIDE DEF new
<1>2. [h EXCEPT !.path = new] = [src |-> h.src, n |-> h.n, path |-> new]
    BY PathSet DEF Hists
<1> QED
    BY <1>1, <1>2 DEF new

\* r is m after the script of w; only a WASM script may emit nothing, for lack of room.
LEMMA InvocationIs ==
    ASSUME Tables, NEW w \in Workers, Answers(w), memory[w] \in Memories(Cells), NEW m \in Mail,
           NEW run, run = Invocation(w, m.ev)
    PROVE  /\ run.mem \in Memories(Cells)
           /\ \/ ~Fits /\ run.emitted = <<>>
              \/ \E r : /\ run.emitted = <<r>> /\ r.stream_id = RawName(w)
                        /\ [ev |-> r, hist |-> Through(w, m.hist)] \in Mail
<1> DEFINE id == Value(Section_of(w), "id")
           e == m.ev
           h == Through(w, m.hist)
<1>1. w[2] \in DOMAIN script_data /\ Section_of(w) = script_data[w[2]]
    BY WorkersAre
<1>2. Value(Section_of(w), "runtime") \in {"python", "wasm"}
    BY <1>1 DEF Tables
<1>3. e \in EventsOf(Cells) /\ m.hist \in Hists /\ Keeps(m)
    BY DEF Mail
<1>4. id \in DOMAIN handlers /\ handlers[id] = w[2]
    BY DEF Answers
<1> HIDE DEF id
<1>5. h = [src |-> m.hist.src, n |-> m.hist.n, path |-> Append(m.hist.path, id)]
    BY <1>3, ThroughIs DEF id
<1>6. m.hist.path \in Seq(DOMAIN handlers)
    BY <1>3 DEF Hists, Paths
<1>7. /\ Append(m.hist.path, id) \in Seq(DOMAIN handlers)
      /\ Len(Append(m.hist.path, id)) = Len(m.hist.path) + 1
      /\ \A i \in 1..Len(m.hist.path) : Append(m.hist.path, id)[i] = m.hist.path[i]
      /\ Append(m.hist.path, id)[Len(m.hist.path) + 1] = id
    BY <1>4, <1>6, AppendProperties
<1> HIDE DEF h
<1>8. h \in Hists /\ Original(h) = Original(m.hist)
    BY <1>3, <1>5, <1>7 DEF Hists, Paths, Original
<1>9. /\ (\A k \in DOMAIN h.path : ~IsWasm(h.path[k])) =>
            (\A k \in DOMAIN m.hist.path : ~IsWasm(m.hist.path[k])) /\ ~IsWasm(id)
      /\ (\A k \in DOMAIN h.path : IsWasm(h.path[k])) =>
            (\A k \in DOMAIN m.hist.path : IsWasm(m.hist.path[k])) /\ IsWasm(id)
    <2>1. /\ DOMAIN m.hist.path = 1..Len(m.hist.path) /\ Len(m.hist.path) \in Nat
          /\ DOMAIN h.path = 1..(Len(m.hist.path) + 1) /\ h.path = Append(m.hist.path, id)
        BY <1>5, <1>6, <1>7, LenProperties
    <2>2. \A k \in DOMAIN m.hist.path : k \in DOMAIN h.path /\ h.path[k] = m.hist.path[k]
        BY <1>7, <2>1
    <2>3. Len(m.hist.path) + 1 \in DOMAIN h.path /\ h.path[Len(m.hist.path) + 1] = id
        BY <1>7, <2>1
    <2> QED
        BY <2>2, <2>3
<1>10. IsWasm(id) <=> Value(Section_of(w), "runtime") = "wasm"
    BY <1>1, <1>4 DEF IsWasm
<1>11. ASSUME NEW r \in EventsOf(Cells), r.sequence = e.sequence,
              ~IsWasm(id) => r.payload = e.payload, IsWasm(id) => SameTime(e, r)
       PROVE  [ev |-> r, hist |-> h] \in Mail
    <2> DEFINE new == [ev |-> r, hist |-> h]
    <2>1. new \in [ev : EventsOf(Cells), hist : Hists] /\ new.ev = r /\ new.hist = h
        BY <1>8
    <2> HIDE DEF new
    <2>2. Keeps(new)
        BY <1>3, <1>8, <1>9, <1>11, <2>1 DEF Keeps, SameTime
    <2>3. new \in Mail
        BY <2>1, <2>2 DEF Mail
    <2> QED
        BY <2>3 DEF new
<1>12. CASE Value(Section_of(w), "runtime") = "python"
    <2>1. run = [mem |-> memory[w], emitted |-> invoke_snapshot(e)]
        BY <1>12 DEF Invocation
    <2>2. PICK r : /\ invoke_snapshot(e) = <<r>> /\ Passed(Cells, e, r, "py_processed")
                   /\ r.payload = e.payload
        BY <1>3, CellsAre, PythonPasses
    <2>3. run.mem = memory[w] /\ run.emitted = <<r>>
        BY <2>1, <2>2
    <2>4. r \in EventsOf(Cells) /\ r.sequence = e.sequence /\ r.stream_id = RawName(w)
        BY <1>12, <2>2 DEF Passed, RawName
    <2>5. ~IsWasm(id)
        BY <1>10, <1>12
    <2> QED
        BY <1>11, <2>2, <2>3, <2>4, <2>5 DEF h
<1>13. CASE Value(Section_of(w), "runtime") = "wasm"
    <2> DEFINE mem == memory[w]
    <2>1. run = invoke_zero_copy(e, mem) /\ mem \in Memories(Cells)
        BY <1>13 DEF Invocation
    <2> HIDE DEF mem, e
    <2>2. /\ run.mem \in Memories(Cells)
          /\ \/ ~Fits /\ run.emitted = <<>>
             \/ Fits /\ \E r : /\ run.emitted = <<r>> /\ Passed(Cells, e, r, "wasm_processed")
                              /\ SameTime(e, r)
        BY <1>3, <2>1, CellsAre, WasmPasses
    <2>3. CASE run.emitted = <<>> /\ ~Fits
        BY <2>2, <2>3
    <2>4. ASSUME NEW r, run.emitted = <<r>>, Passed(Cells, e, r, "wasm_processed"), SameTime(e, r)
          PROVE  /\ run.emitted = <<r>> /\ r.stream_id = RawName(w)
                 /\ [ev |-> r, hist |-> h] \in Mail
        <3>1. r \in EventsOf(Cells) /\ r.sequence = e.sequence /\ r.stream_id = RawName(w)
            BY <1>13, <2>4 DEF Passed, RawName
        <3>2. IsWasm(id)
            BY <1>10, <1>13
        <3> QED
            BY <1>11, <2>4, <3>1, <3>2
    <2> QED
        BY <2>2, <2>3, <2>4 DEF h
<1> QED
    BY <1>2, <1>12, <1>13

LEMMA LimitIs ==
    ASSUME NEW t
    PROVE  Limit(t) \in Nat
<1>1. CASE t = TelemetryThread
    BY <1>1, RouterAssumption DEF Limit
<1>2. CASE t # TelemetryThread /\ Ordinal(t[2]) \in DOMAIN MaxEvents
    <2> DEFINE k == Ordinal(t[2])
    <2>1. MaxEvents \in Seq(Nat)
        BY RouterAssumption
    <2> HIDE DEF k
    <2>2. MaxEvents[k] \in Nat
        BY <1>2, <2>1, ElementOfSeq, LenProperties DEF k
    <2> QED
        BY <1>2, <2>2 DEF Limit, k
<1>3. CASE t # TelemetryThread /\ Ordinal(t[2]) \notin DOMAIN MaxEvents
    BY <1>3 DEF Limit
<1> QED
    BY <1>1, <1>2, <1>3

\* The base of all invariants holds at first.
LEMMA InitBase == Init => Base
<1> SUFFICES ASSUME Init PROVE Base
    OBVIOUS
<1>1. Configured
    BY DEF Init
<1>2. Tables
    BY <1>1, TablesFollow
<1>3. NewMemory \in Memories(Cells)
    <2> DEFINE n == IO_BUF_SIZE + STREAM_ID_MAX
    <2>1. n \in Nat
        BY CodecAssumption
    <2>2. 0 \in Cells
        BY CellsAre
    <2>3. NewMemory = [i \in 1..n |-> 0]
        BY DEF NewMemory, Cell
    <2> HIDE DEF n
    <2>4. NewMemory \in [1..n -> Cells]
        BY <2>2, <2>3
    <2>5. NewMemory \in Seq(Cells) /\ Len(NewMemory) = n
        BY <2>1, <2>4, SeqDef
    <2> QED
        BY <2>5 DEF Memories, n
<1>4. queue \in [Workers -> Seq(Mail)] /\ outs \in [Workers -> Seq(Mail)]
    BY DEF Init
<1>5. memory \in [Workers -> Memories(Cells)]
    BY <1>3 DEF Init
<1>6. job \in [Threads -> Jobs]
    <2> DEFINE none == [ev |-> <<>>, hist |-> <<>>, todo |-> <<>>]
    <2>1. none \in [ev : EventsOf(Cells) \cup {<<>>}, hist : Hists \cup {<<>>}, todo : Seq(TargetNames)]
          /\ none.todo = <<>>
        OBVIOUS
    <2>2. job = [t \in Threads |-> none]
        BY DEF Init
    <2> HIDE DEF none
    <2>3. none \in Jobs
        BY <2>1 DEF Jobs
    <2> QED
        BY <2>2, <2>3
<1>7. sent \in [Sources -> Nat] /\ \A t \in Sources : sent[t] = 0
    BY DEF Init
<1>8. received \in [DOMAIN endpoints -> Seq(Mail)]
    BY DEF Init
<1>9. \A w \in Workers : queue[w] = <<>> /\ outs[w] = <<>>
    BY DEF Init
<1>10. \A t : Limit(t) \in Nat
    BY LimitIs
<1>11. \A t \in Sources : sent[t] <= Limit(t)
    BY <1>7, <1>10
<1>12. stalled = {} /\ mu = NoThread
    BY DEF Init
<1> QED
    BY <1>1, <1>4, <1>5, <1>6, <1>7, <1>8, <1>9, <1>11, <1>12 DEF Base, Shapes

\* What an action has to show that keeps the tables.
LEMMA BaseKept ==
    ASSUME Base, UNCHANGED tables,
           queue' \in [Workers -> Seq(Mail)], memory' \in [Workers -> Memories(Cells)],
           outs' \in [Workers -> Seq(Mail)], job' \in [Threads -> Jobs],
           sent' \in [Sources -> Nat], received' \in [DOMAIN endpoints -> Seq(Mail)],
           \A w \in Workers : queue'[w] # <<>> \/ outs'[w] # <<>> => Answers(w),
           \A t \in Sources : sent'[t] <= Limit(t),
           stalled' \subseteq DOMAIN endpoints,
           mu' # NoThread =>
              /\ mu' \in Threads /\ job'[mu'].todo # <<>>
              /\ Head(job'[mu'].todo) \in DOMAIN endpoints \ DOMAIN handlers
    PROVE  Base'
<1>1. endpoints' = endpoints /\ handlers' = handlers
    BY DEF tables
<1>2. Shapes'
    BY <1>1, TablesKept DEF Shapes
<1>3. mu' # NoThread => mu' \in Threads' /\ AtEndpoint(mu)'
    BY <1>1, TablesKept DEF AtEndpoint, Idle, Target
<1>4. Configured'
    BY TablesKept DEF Base
<1>5. (\A w \in Workers : queue[w] # <<>> \/ outs[w] # <<>> => Answers(w))'
    BY TablesKept
<1>6. (\A t \in Sources : sent[t] <= Limit(t))'
    BY TablesKept
<1>7. NoThread' = NoThread
    BY DEF NoThread
<1> QED
    BY <1>1, <1>2, <1>3, <1>4, <1>5, <1>6, <1>7 DEF Base

\* Who holds the mutex is still on its way if its job is the same.
LEMMA HolderStays ==
    ASSUME Base, mu' = mu, mu # NoThread => job'[mu] = job[mu]
    PROVE  mu' # NoThread =>
              /\ mu' \in Threads /\ job'[mu'].todo # <<>>
              /\ Head(job'[mu'].todo) \in DOMAIN endpoints \ DOMAIN handlers
BY DEF Base, AtEndpoint, Idle, Target

\* A thread in route() has an event and targets.
LEMMA JobFields ==
    ASSUME NEW j \in Jobs, j.todo # <<>>
    PROVE  /\ [ev |-> j.ev, hist |-> j.hist] \in Mail
           /\ j.todo \in Seq(TargetNames) /\ Head(j.todo) \in TargetNames
           /\ Tail(j.todo) \in Seq(TargetNames)
           /\ [j EXCEPT !.todo = Tail(@)] \in Jobs
<1>1. j \in [ev : EventsOf(Cells) \cup {<<>>}, hist : Hists \cup {<<>>}, todo : Seq(TargetNames)]
      /\ [ev |-> j.ev, hist |-> j.hist] \in Mail
    BY DEF Jobs
<1>2. j.todo \in Seq(TargetNames)
    BY <1>1
<1>3. Head(j.todo) \in TargetNames /\ Tail(j.todo) \in Seq(TargetNames)
    BY <1>2, HeadTailProperties
<1> DEFINE rest == Tail(j.todo)
           new == [j EXCEPT !.todo = Tail(@)]
<1>4. new = [j EXCEPT !.todo = rest]
    OBVIOUS
<1> HIDE DEF rest, new
<1>5. rest \in Seq(TargetNames)
    BY <1>3 DEF rest
<1>6. new \in [ev : EventsOf(Cells) \cup {<<>>}, hist : Hists \cup {<<>>}, todo : Seq(TargetNames)]
      /\ new.ev = j.ev /\ new.hist = j.hist
    BY <1>1, <1>4, <1>5
<1>7. new \in Jobs
    BY <1>1, <1>6 DEF Jobs
<1> QED
    BY <1>1, <1>2, <1>3, <1>7 DEF new

LEMMA JobEntered ==
    ASSUME Tables, NEW e, NEW h, [ev |-> e, hist |-> h] \in Mail
    PROVE  [ev |-> e, hist |-> h, todo |-> Targets(e.stream_id)] \in Jobs
<1>1. e \in EventsOf(Cells) /\ h \in Hists
    BY DEF Mail
<1> DEFINE todo == Targets(e.stream_id)
           j == [ev |-> e, hist |-> h, todo |-> todo]
<1>2. todo \in Seq(TargetNames)
    BY DEF Tables
<1> HIDE DEF todo
<1>3. j \in [ev : EventsOf(Cells) \cup {<<>>}, hist : Hists \cup {<<>>}, todo : Seq(TargetNames)]
      /\ [ev |-> j.ev, hist |-> j.hist] \in Mail
    BY <1>1, <1>2
<1> HIDE DEF j
<1>4. j \in Jobs
    BY <1>3 DEF Jobs
<1> QED
    BY <1>4 DEF j, todo

LEMMA BaseEmit ==
    ASSUME Base, NEW t \in Sources, Emit(t)
    PROVE  Base'
<1>1. Shapes /\ Tables
    BY TablesFollow DEF Base
<1>2. sent[t] \in Nat /\ sent[t] + 1 \in Nat \ {0} /\ sent[t] < Limit(t) /\ Limit(t) \in Nat
    BY <1>1, LimitIs DEF Shapes, Emit
<1> DEFINE e == Emission(t, sent[t] + 1)
           h == History(t, sent[t] + 1, <<>>)
           new == [ev |-> e, hist |-> h, todo |-> Targets(e.stream_id)]
<1>3. new \in Jobs
    <2>1. [ev |-> e, hist |-> h] \in Mail
        BY <1>1, <1>2, EmissionIs
    <2> HIDE DEF e, h
    <2> QED
        BY <1>1, <2>1, JobEntered
<1>4. job' = [job EXCEPT ![t] = new]
    BY DEF Emit, Enter
<1> HIDE DEF new
<1>5. job' \in [Threads -> Jobs] /\ \A x \in Threads : x # t => job'[x] = job[x]
    BY <1>1, <1>3, <1>4 DEF Shapes
<1>6. mu # NoThread => mu # t /\ mu \in Threads
    BY DEF Base, AtEndpoint, Emit
<1>7. sent' \in [Sources -> Nat] /\ \A s \in Sources : sent'[s] <= Limit(s)
    BY <1>1, <1>2 DEF Shapes, Emit, Base
<1>8. UNCHANGED <<queue, memory, outs, mu, stalled, received>> /\ UNCHANGED tables
    BY DEF Emit, scriptVars
<1>9. mu' # NoThread =>
              /\ mu' \in Threads /\ job'[mu'].todo # <<>>
              /\ Head(job'[mu'].todo) \in DOMAIN endpoints \ DOMAIN handlers
    BY <1>5, <1>6, <1>8, HolderStays
<1>10. /\ queue' \in [Workers -> Seq(Mail)] /\ memory' \in [Workers -> Memories(Cells)]
       /\ outs' \in [Workers -> Seq(Mail)] /\ received' \in [DOMAIN endpoints -> Seq(Mail)]
    BY <1>1, <1>8 DEF Shapes
<1>11. (\A w \in Workers : queue'[w] # <<>> \/ outs'[w] # <<>> => Answers(w)) /\ stalled' \subseteq DOMAIN endpoints
    BY <1>8 DEF Base
<1> QED
    BY <1>5, <1>7, <1>8, <1>9, <1>10, <1>11, BaseKept

\* The next target of a thread in route().
LEMMA NextTarget ==
    ASSUME Base, NEW t \in Threads, ~Idle(t), Next_target(t)
    PROVE  /\ job' \in [Threads -> Jobs]
           /\ job'[t].ev = job[t].ev /\ job'[t].hist = job[t].hist /\ job'[t].todo = Tail(job[t].todo)
           /\ \A x \in Threads : x # t => job'[x] = job[x]
           /\ [ev |-> job[t].ev, hist |-> job[t].hist] \in Mail
<1> DEFINE j == job[t]
           new == [j EXCEPT !.todo = Tail(@)]
<1>1. job \in [Threads -> Jobs] /\ j \in Jobs /\ j.todo # <<>>
    BY DEF Base, Shapes, Idle
<1>2. job' = [job EXCEPT ![t] = new]
    BY <1>1 DEF Next_target
<1>3. new \in Jobs /\ [ev |-> j.ev, hist |-> j.hist] \in Mail
    BY <1>1, JobFields
<1>4. new.ev = j.ev /\ new.hist = j.hist /\ new.todo = Tail(j.todo)
    BY <1>1 DEF Jobs
<1> HIDE DEF new, j
<1>5. job' \in [Threads -> Jobs] /\ job'[t] = new /\ \A x \in Threads : x # t => job'[x] = job[x]
    BY <1>1, <1>2, <1>3
<1> QED
    BY <1>3, <1>4, <1>5 DEF j

\* Threads hold the ids of workers' queues.
LEMMA HandlerQueue ==
    ASSUME Base, NEW t \in Threads, ~Idle(t), Target(t) \in DOMAIN handlers
    PROVE  /\ <<"script", handlers[Target(t)]>> \in Workers
           /\ Answers(<<"script", handlers[Target(t)]>>)
<1> DEFINE id == Target(t)
           w == <<"script", handlers[id]>>
<1>1. handlers[id] \in DOMAIN script_data /\ Value(script_data[handlers[id]], "id") = id
    BY TablesFollow DEF Base, Tables
<1>2. status = "running"
    BY DEF Threads, Sources, Workers
<1>3. w \in Workers /\ w[2] = handlers[id]
    BY <1>1, <1>2 DEF Workers
<1> QED
    BY <1>1, <1>3 DEF Answers, Section_of

LEMMA BaseEnqueue ==
    ASSUME Base, NEW t \in Threads, Enqueue(t)
    PROVE  Base'
<1> DEFINE w == <<"script", handlers[Target(t)]>>
           m == [ev |-> job[t].ev, hist |-> job[t].hist]
<1>1. ~Idle(t) /\ Target(t) \in DOMAIN handlers /\ Next_target(t)
      /\ queue' = [queue EXCEPT ![w] = Append(@, m)]
      /\ UNCHANGED tables /\ UNCHANGED <<memory, outs, mu, stalled, sent, received>>
    BY DEF Enqueue
<1>2. w \in Workers /\ Answers(w)
    BY <1>1, HandlerQueue
<1>3. job' \in [Threads -> Jobs] /\ (\A x \in Threads : x # t => job'[x] = job[x]) /\ m \in Mail
    BY <1>1, NextTarget
<1>4. Shapes
    BY DEF Base
<1> HIDE DEF w, m
<1>5. queue' \in [Workers -> Seq(Mail)] /\ \A x \in Workers : x # w => queue'[x] = queue[x]
    <2>1. queue[w] \in Seq(Mail)
        BY <1>2, <1>4 DEF Shapes
    <2>2. Append(queue[w], m) \in Seq(Mail)
        BY <1>3, <2>1, AppendProperties
    <2> QED
        BY <1>1, <1>2, <1>4, <2>2 DEF Shapes
<1>6. \A x \in Workers : queue'[x] # <<>> \/ outs'[x] # <<>> => Answers(x)
    BY <1>1, <1>2, <1>5 DEF Base
<1>7. mu # NoThread => mu # t /\ mu \in Threads
    BY <1>1 DEF Base, AtEndpoint
<1>8. mu' # NoThread =>
              /\ mu' \in Threads /\ job'[mu'].todo # <<>>
              /\ Head(job'[mu'].todo) \in DOMAIN endpoints \ DOMAIN handlers
    BY <1>1, <1>3, <1>7, HolderStays
<1>9. /\ memory' \in [Workers -> Memories(Cells)] /\ outs' \in [Workers -> Seq(Mail)]
      /\ received' \in [DOMAIN endpoints -> Seq(Mail)] /\ sent' \in [Sources -> Nat]
    BY <1>1, <1>4 DEF Shapes
<1>10. (\A s \in Sources : sent'[s] <= Limit(s)) /\ stalled' \subseteq DOMAIN endpoints
    BY <1>1 DEF Base
<1> QED
    BY <1>1, <1>3, <1>5, <1>6, <1>8, <1>9, <1>10, BaseKept

LEMMA BaseLock ==
    ASSUME Base, NEW t \in Threads, Lock(t)
    PROVE  Base'
<1>1. AtEndpoint(t) /\ mu' = t /\ UNCHANGED tables
      /\ UNCHANGED <<queue, memory, outs, job, stalled, sent, received>>
    BY DEF Lock, scriptVars
<1>2. mu' # NoThread =>
              /\ mu' \in Threads /\ job'[mu'].todo # <<>>
              /\ Head(job'[mu'].todo) \in DOMAIN endpoints \ DOMAIN handlers
    BY <1>1 DEF AtEndpoint, Idle, Target
<1>3. /\ queue' \in [Workers -> Seq(Mail)] /\ memory' \in [Workers -> Memories(Cells)]
      /\ outs' \in [Workers -> Seq(Mail)] /\ received' \in [DOMAIN endpoints -> Seq(Mail)]
      /\ job' \in [Threads -> Jobs] /\ sent' \in [Sources -> Nat]
    BY <1>1 DEF Base, Shapes
<1>4. /\ \A w \in Workers : queue'[w] # <<>> \/ outs'[w] # <<>> => Answers(w)
      /\ \A s \in Sources : sent'[s] <= Limit(s)
      /\ stalled' \subseteq DOMAIN endpoints
    BY <1>1 DEF Base
<1> QED
    BY <1>1, <1>2, <1>3, <1>4, BaseKept

LEMMA BasePublishTo ==
    ASSUME Base, NEW t \in Threads, PublishTo(t)
    PROVE  Base'
<1> DEFINE id == Target(t)
           m == [ev |-> job[t].ev, hist |-> job[t].hist]
<1>1. AtEndpoint(t) /\ received' = [received EXCEPT ![id] = Append(@, m)]
      /\ mu' = NoThread /\ Next_target(t)
      /\ UNCHANGED tables /\ UNCHANGED <<queue, memory, outs, stalled, sent>>
    BY DEF PublishTo, scriptVars
<1>2. ~Idle(t) /\ id \in DOMAIN endpoints
    BY <1>1 DEF AtEndpoint
<1>3. job' \in [Threads -> Jobs] /\ m \in Mail
    BY <1>1, <1>2, NextTarget
<1>4. Shapes
    BY DEF Base
<1> HIDE DEF id, m
<1>5. received' \in [DOMAIN endpoints -> Seq(Mail)]
    <2>1. Append(received[id], m) \in Seq(Mail)
        BY <1>2, <1>3, <1>4, AppendProperties DEF Shapes
    <2> QED
        BY <1>1, <1>2, <1>4, <2>1 DEF Shapes
<1>6. /\ queue' \in [Workers -> Seq(Mail)] /\ memory' \in [Workers -> Memories(Cells)]
      /\ outs' \in [Workers -> Seq(Mail)] /\ sent' \in [Sources -> Nat]
    BY <1>1, <1>4 DEF Shapes
<1>7. /\ \A w \in Workers : queue'[w] # <<>> \/ outs'[w] # <<>> => Answers(w)
      /\ \A s \in Sources : sent'[s] <= Limit(s)
      /\ stalled' \subseteq DOMAIN endpoints
    BY <1>1 DEF Base
<1> QED
    BY <1>1, <1>3, <1>5, <1>6, <1>7, BaseKept

LEMMA BaseUnknown ==
    ASSUME Base, NEW t \in Threads, Unknown(t)
    PROVE  Base'
<1>1. ~Idle(t) /\ mu = NoThread /\ mu' = NoThread /\ Next_target(t)
      /\ UNCHANGED tables /\ UNCHANGED <<queue, memory, outs, stalled, sent, received>>
    BY DEF Unknown, scriptVars
<1>2. job' \in [Threads -> Jobs]
    BY <1>1, NextTarget
<1>3. /\ queue' \in [Workers -> Seq(Mail)] /\ memory' \in [Workers -> Memories(Cells)]
      /\ outs' \in [Workers -> Seq(Mail)] /\ received' \in [DOMAIN endpoints -> Seq(Mail)]
      /\ sent' \in [Sources -> Nat]
    BY <1>1 DEF Base, Shapes
<1>4. /\ \A w \in Workers : queue'[w] # <<>> \/ outs'[w] # <<>> => Answers(w)
      /\ \A s \in Sources : sent'[s] <= Limit(s)
      /\ stalled' \subseteq DOMAIN endpoints
    BY <1>1 DEF Base
<1> QED
    BY <1>1, <1>2, <1>3, <1>4, BaseKept

\* What a script makes of the first event in its queue.
LEMMA InvokeIs ==
    ASSUME Base, NEW w \in Workers, Invoke(w)
    PROVE  /\ outs[w] = <<>> /\ Answers(w) /\ Idle(w)
           /\ queue[w] \in Seq(Mail) /\ queue[w] # <<>>
           /\ Head(queue[w]) \in Mail /\ Tail(queue[w]) \in Seq(Mail)
           /\ queue' = [queue EXCEPT ![w] = Tail(@)]
           /\ \E mem \in Memories(Cells) : memory' = [memory EXCEPT ![w] = mem]
           /\ \E out \in Seq(Mail) :
                 /\ outs' = [outs EXCEPT ![w] = out]
                 /\ \/ ~Fits /\ out = <<>>
                    \/ \E m \in Mail : /\ out = <<m>> /\ m.ev.stream_id = RawName(w)
                                       /\ m.hist = Through(w, Head(queue[w]).hist)
<1> DEFINE first == Head(queue[w])
           h == Through(w, first.hist)
<1>1. Shapes /\ Tables /\ outs[w] = <<>> /\ queue[w] # <<>> /\ Idle(w)
      /\ queue' = [queue EXCEPT ![w] = Tail(@)]
    BY TablesFollow DEF Base, Invoke
<1>2. queue[w] \in Seq(Mail) /\ memory[w] \in Memories(Cells)
    BY <1>1 DEF Shapes
<1>3. first \in Mail /\ Tail(queue[w]) \in Seq(Mail)
    BY <1>1, <1>2, HeadTailProperties
<1>4. Answers(w)
    BY <1>1 DEF Base
<1>5. PICK run : /\ run = Invocation(w, first.ev)
                 /\ memory' = [memory EXCEPT ![w] = run.mem]
                 /\ outs' = [outs EXCEPT ![w] =
                       [i \in DOMAIN run.emitted |-> [ev |-> run.emitted[i], hist |-> h]]]
    BY DEF Invoke
<1> HIDE DEF first
<1>6. run.mem \in Memories(Cells)
      /\ \/ ~Fits /\ run.emitted = <<>>
         \/ \E r : /\ run.emitted = <<r>> /\ r.stream_id = RawName(w)
                   /\ [ev |-> r, hist |-> h] \in Mail
    BY <1>1, <1>2, <1>3, <1>4, <1>5, InvocationIs
<1> HIDE DEF h
<1> DEFINE out == [i \in DOMAIN run.emitted |-> [ev |-> run.emitted[i], hist |-> h]]
<1>7. out \in Seq(Mail)
      /\ \/ ~Fits /\ out = <<>>
         \/ \E m \in Mail : out = <<m>> /\ m.ev.stream_id = RawName(w) /\ m.hist = h
    <2>1. CASE ~Fits /\ run.emitted = <<>>
        <3>1. out = <<>>
            BY <2>1
        <3> QED
            BY <2>1, <3>1
    <2>2. ASSUME NEW r, run.emitted = <<r>>, r.stream_id = RawName(w), [ev |-> r, hist |-> h] \in Mail
          PROVE  out \in Seq(Mail)
                 /\ \E m \in Mail : out = <<m>> /\ m.ev.stream_id = RawName(w) /\ m.hist = h
        <3> DEFINE m == [ev |-> r, hist |-> h]
        <3>1. DOMAIN run.emitted = 1..1 /\ run.emitted[1] = r
            BY <2>2
        <3>2. m \in Mail /\ m.ev.stream_id = RawName(w) /\ m.hist = h
            BY <2>2
        <3>3. out = [i \in 1..1 |-> m]
            BY <3>1
        <3> HIDE DEF m, out
        <3>4. out = <<m>>
            BY <3>3
        <3> QED
            BY <3>2, <3>4
    <2> QED
        BY <1>6, <2>1, <2>2
<1> HIDE DEF out
<1>8. outs' = [outs EXCEPT ![w] = out]
    BY <1>5 DEF out
<1> QED
    BY <1>1, <1>2, <1>3, <1>4, <1>5, <1>6, <1>7, <1>8 DEF first, h

LEMMA BaseInvoke ==
    ASSUME Base, NEW w \in Workers, Invoke(w)
    PROVE  Base'
<1>1. Shapes /\ UNCHANGED tables /\ UNCHANGED <<job, mu, stalled, sent, received>>
    BY DEF Base, Invoke
<1>2. /\ Answers(w) /\ Tail(queue[w]) \in Seq(Mail)
      /\ queue' = [queue EXCEPT ![w] = Tail(@)]
    BY InvokeIs
<1>3. PICK mem \in Memories(Cells) : memory' = [memory EXCEPT ![w] = mem]
    BY InvokeIs
<1>4. PICK out \in Seq(Mail) : outs' = [outs EXCEPT ![w] = out]
    BY InvokeIs
<1>5. /\ queue' \in [Workers -> Seq(Mail)] /\ memory' \in [Workers -> Memories(Cells)]
      /\ outs' \in [Workers -> Seq(Mail)]
      /\ \A x \in Workers : x # w => queue'[x] = queue[x] /\ outs'[x] = outs[x]
    BY <1>1, <1>2, <1>3, <1>4 DEF Shapes
<1>6. /\ received' \in [DOMAIN endpoints -> Seq(Mail)]
      /\ job' \in [Threads -> Jobs] /\ sent' \in [Sources -> Nat]
    BY <1>1 DEF Shapes
<1>7. \A x \in Workers : queue'[x] # <<>> \/ outs'[x] # <<>> => Answers(x)
    BY <1>2, <1>5 DEF Base
<1>8. (\A s \in Sources : sent'[s] <= Limit(s)) /\ stalled' \subseteq DOMAIN endpoints
    BY <1>1 DEF Base
<1>9. mu' # NoThread =>
              /\ mu' \in Threads /\ job'[mu'].todo # <<>>
              /\ Head(job'[mu'].todo) \in DOMAIN endpoints \ DOMAIN handlers
    BY <1>1, HolderStays
<1> QED
    BY <1>1, <1>5, <1>6, <1>7, <1>8, <1>9, BaseKept

\* The next event of a script, renamed, in route().
LEMMA RerouteIs ==
    ASSUME Base, NEW w \in Workers, Reroute(w), NEW m, m = Head(outs[w])
    PROVE  /\ Idle(w) /\ outs[w] \in Seq(Mail) /\ outs[w] # <<>> /\ Answers(w)
           /\ m \in Mail /\ Tail(outs[w]) \in Seq(Mail)
           /\ outs' = [outs EXCEPT ![w] = Tail(@)]
           /\ \E e : /\ [ev |-> e, hist |-> m.hist] \in Mail
                     /\ e.stream_id = IF output_stream(Section_of(w)) = "" THEN m.ev.stream_id
                                      ELSE output_stream(Section_of(w))
                     /\ job' = [job EXCEPT ![w] =
                            [ev |-> e, hist |-> m.hist, todo |-> Targets(e.stream_id)]]
<1> DEFINE name == output_stream(Section_of(w))
           e == Renamed(m.ev, name)
           new == [ev |-> e, hist |-> m.hist]
<1>1. Shapes /\ Idle(w) /\ outs[w] # <<>> /\ outs' = [outs EXCEPT ![w] = Tail(@)]
      /\ job' = [job EXCEPT ![w] = [ev |-> e, hist |-> m.hist, todo |-> Targets(e.stream_id)]]
    BY DEF Base, Reroute, Enter
<1>2. Answers(w)
    BY <1>1 DEF Base
<1>3. outs[w] \in Seq(Mail)
    BY <1>1 DEF Shapes
<1>4. m \in Mail /\ Tail(outs[w]) \in Seq(Mail)
    BY <1>1, <1>3, HeadTailProperties
<1>5. m.ev \in EventsOf(Cells) /\ m.hist \in Hists /\ Keeps(m)
    BY <1>4 DEF Mail
<1>6. name \in Cells
    BY WorkersAre, CellsAre
<1> HIDE DEF name
<1>7. /\ e \in EventsOf(Cells) /\ e.sequence = m.ev.sequence /\ e.payload = m.ev.payload
      /\ SameTime(m.ev, e)
      /\ e.stream_id = IF name = "" THEN m.ev.stream_id ELSE name
    BY <1>5, <1>6, RenamedIs
<1> HIDE DEF e
<1>8. new \in [ev : EventsOf(Cells), hist : Hists] /\ new.ev = e /\ new.hist = m.hist
    BY <1>5, <1>7
<1> HIDE DEF new
<1>9. new \in Mail
    BY <1>5, <1>7, <1>8 DEF Mail, Keeps, SameTime
<1> QED
    BY <1>1, <1>2, <1>3, <1>4, <1>7, <1>9 DEF name, new

LEMMA BaseReroute ==
    ASSUME Base, NEW w \in Workers, Reroute(w)
    PROVE  Base'
<1>1. Shapes /\ Tables /\ UNCHANGED tables /\ UNCHANGED <<queue, memory, mu, stalled, sent, received>>
    BY TablesFollow DEF Base, Reroute
<1>2. Idle(w) /\ Answers(w) /\ Tail(outs[w]) \in Seq(Mail) /\ outs' = [outs EXCEPT ![w] = Tail(@)]
    BY RerouteIs
<1> DEFINE h == Head(outs[w]).hist
<1>3. PICK e : /\ [ev |-> e, hist |-> h] \in Mail
               /\ job' = [job EXCEPT ![w] = [ev |-> e, hist |-> h, todo |-> Targets(e.stream_id)]]
    BY RerouteIs
<1> HIDE DEF h
<1> DEFINE new == [ev |-> e, hist |-> h, todo |-> Targets(e.stream_id)]
<1>4. new \in Jobs
    BY <1>1, <1>3, JobEntered
<1>5. job' = [job EXCEPT ![w] = new]
    BY <1>3
<1> HIDE DEF new
<1>6. job' \in [Threads -> Jobs] /\ \A x \in Threads : x # w => job'[x] = job[x]
    BY <1>1, <1>4, <1>5 DEF Shapes
<1>7. outs' \in [Workers -> Seq(Mail)] /\ \A x \in Workers : x # w => outs'[x] = outs[x]
    BY <1>1, <1>2 DEF Shapes
<1>8. \A x \in Workers : queue'[x] # <<>> \/ outs'[x] # <<>> => Answers(x)
    BY <1>1, <1>2, <1>7 DEF Base
<1>9. mu # NoThread => mu # w /\ mu \in Threads
    BY <1>2 DEF Base, AtEndpoint
<1>10. mu' # NoThread =>
              /\ mu' \in Threads /\ job'[mu'].todo # <<>>
              /\ Head(job'[mu'].todo) \in DOMAIN endpoints \ DOMAIN handlers
    BY <1>1, <1>6, <1>9, HolderStays
<1>11. /\ queue' \in [Workers -> Seq(Mail)] /\ memory' \in [Workers -> Memories(Cells)]
       /\ received' \in [DOMAIN endpoints -> Seq(Mail)] /\ sent' \in [Sources -> Nat]
    BY <1>1 DEF Shapes
<1>12. (\A s \in Sources : sent'[s] <= Limit(s)) /\ stalled' \subseteq DOMAIN endpoints
    BY <1>1 DEF Base
<1> QED
    BY <1>1, <1>6, <1>7, <1>8, <1>10, <1>11, <1>12, BaseKept

LEMMA BaseSame ==
    ASSUME Base, UNCHANGED <<queue, memory, outs, job, mu, sent, received>>, UNCHANGED tables,
           stalled' \subseteq DOMAIN endpoints
    PROVE  Base'
<1>1. mu' # NoThread =>
              /\ mu' \in Threads /\ job'[mu'].todo # <<>>
              /\ Head(job'[mu'].todo) \in DOMAIN endpoints \ DOMAIN handlers
    BY HolderStays
<1>2. /\ queue' \in [Workers -> Seq(Mail)] /\ memory' \in [Workers -> Memories(Cells)]
      /\ outs' \in [Workers -> Seq(Mail)] /\ received' \in [DOMAIN endpoints -> Seq(Mail)]
      /\ job' \in [Threads -> Jobs] /\ sent' \in [Sources -> Nat]
    BY DEF Base, Shapes
<1>3. /\ \A w \in Workers : queue'[w] # <<>> \/ outs'[w] # <<>> => Answers(w)
      /\ \A s \in Sources : sent'[s] <= Limit(s)
    BY DEF Base
<1> QED
    BY <1>1, <1>2, <1>3, BaseKept

LEMMA BaseStep == Base /\ [Next]_vars => Base'
<1> SUFFICES ASSUME Base, [Next]_vars PROVE Base'
    OBVIOUS
<1>1. ASSUME NEW t \in Sources, Emit(t) PROVE Base'
    BY <1>1, BaseEmit
<1>2. ASSUME NEW t \in Threads, Route(t) PROVE Base'
    BY <1>2, BaseEnqueue, BaseLock, BasePublishTo, BaseUnknown DEF Route
<1>3. ASSUME NEW w \in Workers, Invoke(w) \/ Reroute(w) PROVE Base'
    BY <1>3, BaseInvoke, BaseReroute
<1>4. ASSUME NEW id \in DOMAIN endpoints, Stall(id) \/ Resume(id) PROVE Base'
    <2>1. stalled' \subseteq DOMAIN endpoints
        BY <1>4 DEF Stall, Resume, Base
    <2> QED
        BY <1>4, <2>1, BaseSame DEF Stall, Resume, scriptVars
<1>5. CASE UNCHANGED vars
    BY <1>5, BaseSame DEF vars, tables, Base
<1> QED
    BY <1>1, <1>2, <1>3, <1>4, <1>5 DEF Next

THEOREM BaseHolds == Spec => []Base
BY InitBase, BaseStep, PTL DEF Spec

(* The tables are in order, memories keep their size, and who holds the mutex *)
(* of the publisher is on its way into an endpoint (TypeOK).                  *)
THEOREM TypeCorrect == Spec => []TypeOK
<1>1. Base => TypeOK
    <2> SUFFICES ASSUME Base PROVE TypeOK
        OBVIOUS
    <2>1. Tables /\ Shapes
        BY TablesFollow DEF Base
    <2>2. Range(handlers) \subseteq DOMAIN script_data /\ Range(endpoints) \subseteq EndpointTypes
        BY <2>1 DEF Tables, Range
    <2>3. \A w \in Workers : Len(memory[w]) = Len(NewMemory)
        <3>1. IO_BUF_SIZE + STREAM_ID_MAX \in Nat
            BY CodecAssumption
        <3>2. Len(NewMemory) = IO_BUF_SIZE + STREAM_ID_MAX
            BY <3>1 DEF NewMemory, Cell
        <3> QED
            BY <2>1, <3>2 DEF Shapes, Memories
    <2>4. DOMAIN queue = Workers /\ DOMAIN outs = Workers /\ DOMAIN job = Threads
        BY <2>1 DEF Shapes
    <2>5. \A t \in Sources : sent[t] \in 0..Limit(t)
        BY <2>1, LimitIs DEF Shapes, Base
    <2> QED
        BY <2>1, <2>2, <2>3, <2>4, <2>5 DEF TypeOK, Base, Tables
<1> QED
    BY <1>1, BaseHolds, PTL

(* Whatever scripts an event goes through, it arrives with the sequence number *)
(* and the payload size it was emitted with, with the payload itself if no     *)
(* script was WASM, and with its timestamp and lineage if none was Python      *)
(* (FieldsKept).                                                               *)
THEOREM FieldsAreKept == Spec => []FieldsKept
<1>1. Base => FieldsKept
    <2> SUFFICES ASSUME Base, NEW id \in DOMAIN endpoints, NEW i \in DOMAIN received[id]
                 PROVE  LET m == received[id][i]
                        IN /\ m.ev.sequence = Original(m.hist).sequence
                           /\ Len(m.ev.payload) = Len(Original(m.hist).payload)
                           /\ (\A k \in DOMAIN m.hist.path : ~IsWasm(m.hist.path[k])) =>
                                  m.ev.payload = Original(m.hist).payload
                           /\ (\A k \in DOMAIN m.hist.path : IsWasm(m.hist.path[k])) =>
                                  /\ m.ev.timestamp_ns = Original(m.hist).timestamp_ns
                                  /\ m.ev.lineage_depth = Original(m.hist).lineage_depth
        BY DEF FieldsKept
    <2> DEFINE m == received[id][i]
    <2>1. Tables /\ Shapes
        BY TablesFollow DEF Base
    <2>2. received[id] \in Seq(Mail)
        BY <2>1 DEF Shapes
    <2>3. m \in Mail
        BY <2>2, ElementOfSeq, LenProperties
    <2> HIDE DEF m
    <2>4. m.ev \in EventsOf(Cells) /\ m.hist \in Hists /\ Keeps(m)
        BY <2>3 DEF Mail
    <2>5. Original(m.hist) \in EventsOf(Cells)
        <3>1. m.hist.src \in Sources /\ m.hist.n \in Nat \ {0}
            BY <2>4 DEF Hists
        <3>2. [ev |-> Emission(m.hist.src, m.hist.n), hist |-> History(m.hist.src, m.hist.n, <<>>)] \in Mail
            BY <2>1, <3>1, EmissionIs
        <3> QED
            BY <3>2 DEF Mail, Original
    <2>6. ASSUME NEW e \in EventsOf(Cells) PROVE Len(e.payload) = PAYLOAD_MAX
        <3>1. PAYLOAD_MAX \in Nat /\ e.payload \in [1..PAYLOAD_MAX -> Cells]
            BY CodecAssumption DEF EventsOf
        <3>2. e.payload \in Seq(Cells)
            BY <3>1, SeqDef
        <3> QED
            BY <3>1, <3>2, LenProperties
    <2>7. Len(m.ev.payload) = Len(Original(m.hist).payload)
        BY <2>4, <2>5, <2>6
    <2>8. /\ m.ev.sequence = Original(m.hist).sequence
          /\ (\A k \in DOMAIN m.hist.path : ~IsWasm(m.hist.path[k])) =>
                  m.ev.payload = Original(m.hist).payload
          /\ (\A k \in DOMAIN m.hist.path : IsWasm(m.hist.path[k])) =>
                  /\ m.ev.timestamp_ns = Original(m.hist).timestamp_ns
                  /\ m.ev.lineage_depth = Original(m.hist).lineage_depth
        BY <2>4 DEF Keeps, SameTime
    <2> QED
        BY <2>7, <2>8 DEF m
<1> QED
    BY <1>1, BaseHolds, PTL

-----------------------------------------------------------------------------
(* Order along a chain of scripts.                                         *)

\* The histories of the events in a queue, and those of one chain in order.
HistsOf(s) == {s[i].hist : i \in DOMAIN s}
SameChain(g, h) == g.src = h.src /\ g.path = h.path
Sorted(s) ==
    \A i, j \in DOMAIN s : i < j /\ SameChain(s[i].hist, s[j].hist) => s[i].hist.n < s[j].hist.n

LEMMA HistsOfOne ==
    HistsOf(<<>>) = {} /\ Sorted(<<>>) /\ \A m : HistsOf(<<m>>) = {m.hist}
<1>1. HistsOf(<<>>) = {} /\ Sorted(<<>>)
    BY DEF HistsOf, Sorted
<1>2. ASSUME NEW m PROVE HistsOf(<<m>>) = {m.hist}
    <2>1. DOMAIN <<m>> = 1..1 /\ <<m>>[1] = m
        OBVIOUS
    <2> QED
        BY <2>1 DEF HistsOf
<1> QED
    BY <1>1, <1>2

OneMore(new, old, x) == new = old \cup {x}

LEMMA HistsAppend ==
    ASSUME NEW S, NEW s \in Seq(S), NEW m \in S, NEW new, new = Append(s, m)
    PROVE  /\ OneMore(HistsOf(new), HistsOf(s), m.hist)
           /\ Sorted(s) /\ (\A g \in HistsOf(s) : SameChain(g, m.hist) => g.n < m.hist.n) => Sorted(new)
<1>1. /\ Len(s) \in Nat /\ DOMAIN s = 1..Len(s) /\ DOMAIN new = 1..(Len(s) + 1)
      /\ new[Len(s) + 1] = m
    BY AppendProperties, LenProperties
<1>2. \A i \in 1..Len(s) : new[i] = s[i]
    BY AppendProperties
<1>3. HistsOf(new) = HistsOf(s) \cup {m.hist}
    <2>1. \A i \in DOMAIN new : i \in DOMAIN s \/ i = Len(s) + 1
        BY <1>1
    <2>2. Len(s) + 1 \in DOMAIN new /\ \A i \in DOMAIN s : i \in DOMAIN new /\ new[i] = s[i]
        BY <1>1, <1>2
    <2> QED
        BY <1>1, <2>1, <2>2 DEF HistsOf
<1>4. ASSUME Sorted(s), \A g \in HistsOf(s) : SameChain(g, m.hist) => g.n < m.hist.n
      PROVE  Sorted(new)
    <2> SUFFICES ASSUME NEW i \in DOMAIN new, NEW j \in DOMAIN new, i < j,
                        SameChain(new[i].hist, new[j].hist)
                 PROVE  new[i].hist.n < new[j].hist.n
        BY DEF Sorted
    <2>1. i \in DOMAIN s /\ new[i] = s[i]
        BY <1>1, <1>2
    <2>2. CASE j = Len(s) + 1
        <3>1. s[i].hist \in HistsOf(s)
            BY <2>1 DEF HistsOf
        <3> QED
            BY <1>1, <1>4, <2>1, <2>2, <3>1
    <2>3. CASE j # Len(s) + 1
        <3>1. j \in DOMAIN s /\ new[j] = s[j]
            BY <1>1, <1>2, <2>3
        <3> QED
            BY <1>4, <2>1, <3>1 DEF Sorted
    <2> QED
        BY <2>2, <2>3
<1> QED
    BY <1>3, <1>4 DEF OneMore

LEMMA HistsTail ==
    ASSUME NEW S, NEW s \in Seq(S), s # <<>>, NEW new, new = Tail(s)
    PROVE  /\ OneMore(HistsOf(s), HistsOf(new), Head(s).hist)
           /\ Sorted(s) => /\ Sorted(new)
                           /\ \A g \in HistsOf(new) : SameChain(g, Head(s).hist) => Head(s).hist.n < g.n
<1>1. /\ Len(s) \in Nat /\ Len(s) # 0 /\ DOMAIN s = 1..Len(s) /\ Head(s) = s[1]
      /\ DOMAIN new = 1..(Len(s) - 1)
    BY HeadTailProperties, LenProperties, EmptySeq
<1>2. \A i \in DOMAIN new : i + 1 \in DOMAIN s /\ new[i] = s[i + 1] /\ 1 < i + 1
    BY <1>1, HeadTailProperties
<1>3. HistsOf(s) = HistsOf(new) \cup {Head(s).hist}
    <2>1. \A i \in DOMAIN s : i = 1 \/ (i - 1 \in DOMAIN new /\ i - 1 + 1 = i)
        BY <1>1
    <2>2. 1 \in DOMAIN s
        BY <1>1
    <2>3. HistsOf(new) \subseteq HistsOf(s)
        BY <1>2 DEF HistsOf
    <2>4. ASSUME NEW i \in DOMAIN s, i # 1 PROVE s[i].hist \in HistsOf(new)
        BY <1>2, <2>1, <2>4 DEF HistsOf
    <2> QED
        BY <1>1, <2>2, <2>3, <2>4 DEF HistsOf
<1>4. ASSUME Sorted(s)
      PROVE  /\ Sorted(new)
             /\ \A g \in HistsOf(new) : SameChain(g, Head(s).hist) => Head(s).hist.n < g.n
    <2>1. Sorted(new)
        <3> SUFFICES ASSUME NEW i \in DOMAIN new, NEW j \in DOMAIN new, i < j,
                            SameChain(new[i].hist, new[j].hist)
                     PROVE  new[i].hist.n < new[j].hist.n
            BY DEF Sorted
        <3>1. i + 1 < j + 1
            BY <1>1
        <3> QED
            BY <1>2, <1>4, <3>1 DEF Sorted
    <2>2. ASSUME NEW i \in DOMAIN new, SameChain(new[i].hist, Head(s).hist)
          PROVE  Head(s).hist.n < new[i].hist.n
        <3>1. 1 \in DOMAIN s /\ SameChain(s[1].hist, s[i + 1].hist)
            BY <1>1, <1>2, <2>2 DEF SameChain
        <3> QED
            BY <1>1, <1>2, <1>4, <3>1 DEF Sorted
    <2> QED
        BY <2>1, <2>2 DEF HistsOf
<1> QED
    BY <1>3, <1>4 DEF OneMore

\* No target twice.
Once(s) == \A i, j \in DOMAIN s : s[i] = s[j] => i = j

LEMMA OnceTail ==
    ASSUME NEW S, NEW s \in Seq(S), s # <<>>, NEW new, new = Tail(s)
    PROVE  /\ Head(s) \in Range(s) /\ Range(new) \subseteq Range(s)
           /\ Range(s) = Range(new) \cup {Head(s)}
           /\ Once(s) => Once(new) /\ Head(s) \notin Range(new)
<1>1. /\ Len(s) \in Nat /\ Len(s) # 0 /\ DOMAIN s = 1..Len(s) /\ Head(s) = s[1]
      /\ DOMAIN new = 1..(Len(s) - 1)
    BY HeadTailProperties, LenProperties, EmptySeq
<1>2. \A i \in DOMAIN new : i + 1 \in DOMAIN s /\ new[i] = s[i + 1] /\ 1 # i + 1
    BY <1>1, HeadTailProperties
<1>3. 1 \in DOMAIN s /\ Head(s) \in Range(s)
    BY <1>1 DEF Range
<1>4. Range(new) \subseteq Range(s)
    BY <1>2 DEF Range
<1>5. ASSUME NEW i \in DOMAIN s, i # 1 PROVE s[i] \in Range(new)
    <2>1. i - 1 \in DOMAIN new /\ i - 1 + 1 = i
        BY <1>1, <1>5
    <2> QED
        BY <1>2, <2>1 DEF Range
<1>6. ASSUME Once(s) PROVE Once(new) /\ Head(s) \notin Range(new)
    <2>1. Once(new)
        <3> SUFFICES ASSUME NEW i \in DOMAIN new, NEW j \in DOMAIN new, new[i] = new[j] PROVE i = j
            BY DEF Once
        <3>1. i + 1 = j + 1
            BY <1>2, <1>6 DEF Once
        <3> QED
            BY <1>1, <3>1
    <2>2. Head(s) \notin Range(new)
        BY <1>1, <1>2, <1>3, <1>6 DEF Once, Range
    <2> QED
        BY <2>1, <2>2
<1> QED
    BY <1>1, <1>3, <1>4, <1>5, <1>6 DEF Range

LEMMA PathAppend ==
    ASSUME NEW S, NEW p \in Seq(S), NEW q \in Seq(S), NEW x \in S, NEW y \in S
    PROVE  /\ Append(p, x) \in Seq(S) /\ Append(p, x) # <<>>
           /\ Append(p, x)[Len(Append(p, x))] = x
           /\ Append(p, x) = Append(q, y) => p = q /\ x = y
<1>1. /\ Append(p, x) \in Seq(S) /\ Len(Append(p, x)) = Len(p) + 1 /\ Len(p) \in Nat
      /\ Append(p, x)[Len(p) + 1] = x
    BY AppendProperties, LenProperties
<1>2. ASSUME Append(p, x) = Append(q, y) PROVE p = q /\ x = y
    <2>1. /\ Len(Append(q, y)) = Len(q) + 1 /\ Len(q) \in Nat /\ Append(q, y)[Len(q) + 1] = y
        BY AppendProperties, LenProperties
    <2>2. Len(p) = Len(q) /\ x = y
        BY <1>1, <1>2, <2>1
    <2>3. \A i \in 1..Len(p) : Append(p, x)[i] = p[i]
        BY AppendProperties
    <2>4. \A i \in 1..Len(q) : Append(q, y)[i] = q[i]
        BY AppendProperties
    <2>5. \A i \in 1..Len(p) : p[i] = q[i]
        BY <1>2, <2>2, <2>3, <2>4
    <2> QED
        BY <2>2, <2>5, SeqEqual
<1> QED
    BY <1>1, <1>2

LEMMA PathsAppend ==
    \A p, q \in Paths, x, y \in DOMAIN handlers :
        /\ Append(p, x) \in Paths /\ Append(p, x) # <<>> /\ Append(p, x)[Len(Append(p, x))] = x
        /\ Append(p, x) = Append(q, y) => p = q /\ x = y
BY PathAppend DEF Paths

LEMMA HistsMail == \A s \in Seq(Mail) : HistsOf(s) \subseteq Hists
<1> SUFFICES ASSUME NEW s \in Seq(Mail), NEW i \in DOMAIN s PROVE s[i].hist \in Hists
    BY DEF HistsOf
<1>1. s[i] \in Mail
    BY ElementOfSeq, LenProperties
<1> QED
    BY <1>1 DEF Mail

\* A worker's script id, and the worker that route() finds under an id.
IdOfWorker(w) == Value(Section_of(w), "id")
WorkerOf(id) == <<"script", handlers[id]>>

\* The thread that routes the events of source s that came through path p.
Station(s, p) == IF p = <<>> THEN s ELSE WorkerOf(p[Len(p)])

LEMMA WorkersOf ==
    ASSUME Tables, NEW id \in DOMAIN handlers, Workers # {}
    PROVE  /\ WorkerOf(id) \in Workers /\ IdOfWorker(WorkerOf(id)) = id
           /\ Answers(WorkerOf(id))
<1>1. handlers[id] \in DOMAIN script_data /\ Value(script_data[handlers[id]], "id") = id
    BY DEF Tables
<1>2. WorkerOf(id) \in Workers /\ WorkerOf(id)[2] = handlers[id]
    BY <1>1 DEF Workers, WorkerOf
<1> QED
    BY <1>1, <1>2 DEF IdOfWorker, Section_of, Answers

LEMMA WorkerExists ==
    ASSUME Tables, NEW id \in DOMAIN handlers, NEW t \in Threads
    PROVE  /\ WorkerOf(id) \in Workers /\ IdOfWorker(WorkerOf(id)) = id
           /\ Answers(WorkerOf(id))
<1>1. status = "running" /\ handlers[id] \in DOMAIN script_data
    BY DEF Tables, Threads, Sources, Workers
<1>2. Workers # {}
    BY <1>1 DEF Workers
<1> QED
    BY <1>2, WorkersOf

LEMMA AnswersIs ==
    ASSUME NEW w \in Workers, Answers(w)
    PROVE  IdOfWorker(w) \in DOMAIN handlers /\ WorkerOf(IdOfWorker(w)) = w
BY WorkersAre DEF Answers, IdOfWorker, WorkerOf

\* W[<<s, p>>] is the number of the last event of source s that entered route()
\* with the path p.
Marks == [Sources \X Paths -> Nat]
Mark(W, s, p) == W[<<s, p>>]

\* In what follows r, q, o, j and n stand for received, queue, outs, job and sent,
\* now or after a step.

\* No event of the chain of h at target x is as late as h.
Before(W, h, x, r, q, o) ==
    /\ x \in DOMAIN endpoints => \A g \in HistsOf(r[x]) : SameChain(g, h) => g.n < h.n
    /\ x \in DOMAIN handlers =>
          /\ Mark(W, h.src, Append(h.path, x)) < h.n
          /\ \A g \in HistsOf(q[WorkerOf(x)]) : SameChain(g, h) => g.n < h.n
          /\ \A g \in HistsOf(o[WorkerOf(x)]) :
                g.src = h.src /\ g.path = Append(h.path, x) => g.n < h.n

MarksFall(W, n) ==
    /\ W \in Marks
    /\ \A s \in Sources : Mark(W, s, <<>>) = n[s]
    /\ \A s \in Sources, p \in Paths, x \in DOMAIN handlers :
          Mark(W, s, Append(p, x)) <= Mark(W, s, p)

EndpointsInOrder(W, r) ==
    \A id \in DOMAIN endpoints :
        Sorted(r[id]) /\ \A h \in HistsOf(r[id]) : h.n <= Mark(W, h.src, h.path)

QueueInOrder(W, w, s) ==
    Sorted(s) /\ \A h \in HistsOf(s) :
        h.n <= Mark(W, h.src, h.path) /\ Mark(W, h.src, Append(h.path, IdOfWorker(w))) < h.n

QueuesInOrder(W, q) == \A w \in Workers : QueueInOrder(W, w, q[w])

\* h is what w made of an event with path p; s is the queue of w.
MadeOf(W, w, h, p, s) ==
    /\ h.path = Append(p, IdOfWorker(w))
    /\ Mark(W, h.src, h.path) < h.n /\ h.n <= Mark(W, h.src, p)
    /\ \A g \in HistsOf(s) : g.src = h.src /\ g.path = p => h.n < g.n

OutsInOrder(W, q, o) ==
    \A w \in Workers :
        Len(o[w]) <= 1 /\ \A h \in HistsOf(o[w]) : \E p \in Paths : MadeOf(W, w, h, p, q[w])

\* Thread t is in route() with the last event of its chain.
OnItsWay(W, t, job_t, r, q, o) ==
    LET h == job_t.hist
    IN /\ t = Station(h.src, h.path) /\ h.n = Mark(W, h.src, h.path)
       /\ Once(job_t.todo)
       /\ \A x \in Range(job_t.todo) : Before(W, h, x, r, q, o)

JobsInOrder(W, r, q, o, j) ==
    \A t \in Threads : j[t].todo # <<>> => OnItsWay(W, t, j[t], r, q, o)

Ordered(W, r, q, o, j, n) ==
    /\ MarksFall(W, n) /\ EndpointsInOrder(W, r) /\ QueuesInOrder(W, q)
    /\ OutsInOrder(W, q, o) /\ JobsInOrder(W, r, q, o, j)

TargetsOnce == status = "running" => \A stream : Once(Targets(stream))

\* The operators of the tables, when the tables stay.
LEMMA NamesKept ==
    ASSUME UNCHANGED tables
    PROVE  /\ \A w : IdOfWorker(w)' = IdOfWorker(w)
           /\ \A id : WorkerOf(id)' = WorkerOf(id)
           /\ \A s, p : Station(s, p)' = Station(s, p)
           /\ Marks' = Marks /\ TargetsOnce' = TargetsOnce
           /\ DOMAIN endpoints' = DOMAIN endpoints /\ DOMAIN handlers' = DOMAIN handlers
<1>1. status' = status /\ handlers' = handlers /\ endpoints' = endpoints /\ script_data' = script_data
      /\ route_table' = route_table
    BY DEF tables
<1>2. \A id : WorkerOf(id)' = WorkerOf(id)
    BY <1>1 DEF WorkerOf
<1>3. \A w : IdOfWorker(w)' = IdOfWorker(w)
    BY <1>1 DEF IdOfWorker, Section_of
<1>4. \A s, p : Station(s, p)' = Station(s, p)
    BY <1>2 DEF Station
<1>5. Marks' = Marks
    BY TablesKept DEF Marks
<1>6. TargetsOnce' = TargetsOnce
    BY <1>1 DEF TargetsOnce, Targets
<1> QED
    BY <1>1, <1>2, <1>3, <1>4, <1>5, <1>6

LEMMA OrderedKept ==
    ASSUME UNCHANGED tables, NEW W
    PROVE  Ordered(W, received, queue, outs, job, sent)' =
           Ordered(W, received', queue', outs', job', sent')
<1>1. MarksFall(W, sent)' = MarksFall(W, sent')
    BY TablesKept, NamesKept DEF MarksFall, Mark
<1>2. EndpointsInOrder(W, received)' = EndpointsInOrder(W, received')
    BY NamesKept DEF EndpointsInOrder, Sorted, HistsOf, SameChain, Mark
<1>3. QueuesInOrder(W, queue)' = QueuesInOrder(W, queue')
    <2>1. ASSUME NEW w, NEW s PROVE QueueInOrder(W, w, s)' = QueueInOrder(W, w, s)
        <3>1. IdOfWorker(w)' = IdOfWorker(w)
            BY NamesKept
        <3> QED
            BY <3>1 DEF QueueInOrder, Sorted, HistsOf, SameChain, Mark
    <2>2. Workers' = Workers
        BY TablesKept
    <2>3. \A w \in Workers : QueueInOrder(W, w, queue[w])' = QueueInOrder(W, w, queue'[w])
        BY <2>1 DEF QueueInOrder
    <2> QED
        BY <2>2, <2>3 DEF QueuesInOrder
<1>4. OutsInOrder(W, queue, outs)' = OutsInOrder(W, queue', outs')
    <2>1. Workers' = Workers /\ Paths' = Paths
        BY TablesKept
    <2>2. \A w, h, p : MadeOf(W, w, h, p, queue[w])' = MadeOf(W, w, h, p, queue'[w])
        BY NamesKept DEF MadeOf, HistsOf, Mark
    <2>3. \A w : HistsOf(outs[w])' = HistsOf(outs'[w])
        BY DEF HistsOf
    <2> QED
        BY <2>1, <2>2, <2>3 DEF OutsInOrder
<1>5. JobsInOrder(W, received, queue, outs, job)' = JobsInOrder(W, received', queue', outs', job')
    <2>1. \A h, x, r, q, o : Before(W, h, x, r, q, o)' = Before(W, h, x, r, q, o)
        BY NamesKept DEF Before, HistsOf, SameChain, Mark
    <2>2. \A t, job_t, r, q, o : OnItsWay(W, t, job_t, r, q, o)' = OnItsWay(W, t, job_t, r, q, o)
        BY <2>1, NamesKept DEF OnItsWay, Once, Mark, Range
    <2> QED
        BY <2>2, TablesKept DEF JobsInOrder
<1> QED
    BY <1>1, <1>2, <1>3, <1>4, <1>5 DEF Ordered

\* A thread takes its next target; what is before the others is not disturbed.
LEMMA OrderNext ==
    ASSUME Base, NEW t \in Threads, ~Idle(t), Next_target(t),
           NEW W, JobsInOrder(W, received, queue, outs, job), NEW r, NEW q, NEW o,
           \A u \in Threads, x \in TargetNames :
              /\ ~Idle(u) /\ (u # t \/ x # Target(t))
              /\ Before(W, job[u].hist, x, received, queue, outs)
              => Before(W, job[u].hist, x, r, q, o)
    PROVE  JobsInOrder(W, r, q, o, job')
<1>1. /\ job'[t].hist = job[t].hist /\ job'[t].todo = Tail(job[t].todo)
      /\ \A x \in Threads : x # t => job'[x] = job[x]
    BY NextTarget
<1>2. \A u \in Threads : ~Idle(u) => job[u].todo \in Seq(TargetNames) /\ job[u].todo # <<>>
    BY JobFields DEF Base, Shapes, Idle
<1>3. \A u \in Threads : ~Idle(u) => OnItsWay(W, u, job[u], received, queue, outs)
    BY DEF JobsInOrder, Idle
<1>4. \A u \in Threads : ~Idle(u) => Range(job[u].todo) \subseteq TargetNames
    <2>1. \A s \in Seq(TargetNames) : Range(s) \subseteq TargetNames
        BY ElementOfSeq, LenProperties DEF Range
    <2> QED
        BY <1>2, <2>1
<1>5. ASSUME job'[t].todo # <<>> PROVE OnItsWay(W, t, job'[t], r, q, o)
    <2> DEFINE old == job[t].todo
               new == job'[t].todo
    <2>1. old \in Seq(TargetNames) /\ old # <<>> /\ new = Tail(old) /\ Target(t) = Head(old)
        BY <1>1, <1>2 DEF Target
    <2>2. Once(old)
        BY <1>3 DEF OnItsWay
    <2> HIDE DEF old, new
    <2>3. Range(new) \subseteq Range(old) /\ Once(new) /\ Target(t) \notin Range(new)
        <3>1. /\ Range(new) \subseteq Range(old)
              /\ Once(old) => Once(new) /\ Head(old) \notin Range(new)
            BY <2>1, OnceTail
        <3> QED
            BY <2>1, <2>2, <3>1
    <2>4. \A x \in Range(new) : Before(W, job[t].hist, x, received, queue, outs)
        BY <1>3, <2>3 DEF OnItsWay, old
    <2>5. Range(new) \subseteq TargetNames
        BY <1>4, <2>3 DEF old
    <2>6. \A x \in Range(new) : Before(W, job[t].hist, x, r, q, o)
        BY <2>3, <2>4, <2>5
    <2> QED
        BY <1>1, <1>3, <2>3, <2>6 DEF OnItsWay, new
<1>6. ASSUME NEW u \in Threads, u # t, job'[u].todo # <<>> PROVE OnItsWay(W, u, job'[u], r, q, o)
    <2>1. job'[u] = job[u] /\ ~Idle(u) /\ OnItsWay(W, u, job[u], received, queue, outs)
        BY <1>1, <1>3, <1>6 DEF Idle
    <2>2. \A x \in Range(job[u].todo) : Before(W, job[u].hist, x, r, q, o)
        BY <1>4, <1>6, <2>1 DEF OnItsWay
    <2> QED
        BY <2>1, <2>2 DEF OnItsWay
<1> QED
    BY <1>5, <1>6 DEF JobsInOrder

LEMMA OrderUnknown ==
    ASSUME Base, NEW t \in Threads, Unknown(t),
           NEW W, Ordered(W, received, queue, outs, job, sent)
    PROVE  Ordered(W, received', queue', outs', job', sent')
<1>1. ~Idle(t) /\ Next_target(t) /\ UNCHANGED <<queue, outs, sent, received>>
    BY DEF Unknown, scriptVars
<1>2. JobsInOrder(W, received, queue, outs, job')
    BY <1>1, OrderNext DEF Ordered
<1> QED
    BY <1>1, <1>2 DEF Ordered

\* Two threads in route() are not with the same chain.
LEMMA OneOfAChain ==
    ASSUME NEW W, JobsInOrder(W, received, queue, outs, job),
           NEW t \in Threads, NEW u \in Threads, ~Idle(t), ~Idle(u),
           SameChain(job[t].hist, job[u].hist)
    PROVE  t = u
BY DEF JobsInOrder, OnItsWay, SameChain, Idle

LEMMA OrderEnqueue ==
    ASSUME Base, NEW t \in Threads, Enqueue(t),
           NEW W, Ordered(W, received, queue, outs, job, sent)
    PROVE  Ordered(W, received', queue', outs', job', sent')
<1> DEFINE x == Target(t)
           w == WorkerOf(x)
           m == [ev |-> job[t].ev, hist |-> job[t].hist]
           h == job[t].hist
<1>1. ~Idle(t) /\ x \in DOMAIN handlers /\ Next_target(t)
      /\ queue' = [queue EXCEPT ![w] = Append(@, m)]
      /\ UNCHANGED <<outs, sent, received>>
    BY DEF Enqueue, WorkerOf
<1>2. Shapes /\ Tables
    BY TablesFollow DEF Base
<1>3. w \in Workers
    BY <1>1, HandlerQueue DEF WorkerOf
<1>4. IdOfWorker(w) = x
    BY <1>1, <1>2, <1>3, WorkersOf
<1>5. m \in Mail /\ m.hist = h
    BY <1>1, NextTarget
<1>6. h \in Hists
    BY <1>5 DEF Mail
<1>7. /\ MarksFall(W, sent) /\ EndpointsInOrder(W, received) /\ QueuesInOrder(W, queue)
      /\ OutsInOrder(W, queue, outs) /\ JobsInOrder(W, received, queue, outs, job)
    BY DEF Ordered
<1>8. /\ h.n = Mark(W, h.src, h.path) /\ Before(W, h, x, received, queue, outs)
    <2>1. job[t].todo \in Seq(TargetNames) /\ job[t].todo # <<>>
        BY <1>1, <1>2, JobFields DEF Idle, Shapes
    <2>2. x \in Range(job[t].todo)
        BY <2>1, OnceTail DEF Target
    <2> QED
        BY <1>7, <2>1, <2>2 DEF JobsInOrder, OnItsWay
<1> HIDE DEF m
<1>9. queue[w] \in Seq(Mail) /\ queue'[w] = Append(queue[w], m)
      /\ \A u \in Workers : u # w => queue'[u] = queue[u]
    BY <1>1, <1>2, <1>3 DEF Shapes
<1>10. /\ Mark(W, h.src, Append(h.path, x)) < h.n
       /\ \A g \in HistsOf(queue[w]) : SameChain(g, h) => g.n < h.n
       /\ \A g \in HistsOf(outs[w]) : g.src = h.src /\ g.path = Append(h.path, x) => g.n < h.n
    BY <1>1, <1>8 DEF Before
<1> HIDE DEF w, h, x
<1>11. /\ HistsOf(queue'[w]) = HistsOf(queue[w]) \cup {h}
       /\ Sorted(queue[w]) => Sorted(queue'[w])
    <2>1. \A g \in HistsOf(queue[w]) : SameChain(g, m.hist) => g.n < m.hist.n
        BY <1>5, <1>10
    <2> DEFINE old == queue[w]
               new == queue'[w]
    <2>2. old \in Seq(Mail) /\ new = Append(old, m)
        BY <1>9
    <2> HIDE DEF old, new
    <2>3. OneMore(HistsOf(new), HistsOf(old), m.hist)
        BY <1>5, <2>2, HistsAppend
    <2>4. Sorted(old) => Sorted(new)
        BY <1>5, <2>1, <2>2, HistsAppend DEF old
    <2> QED
        BY <1>5, <2>3, <2>4 DEF old, new, OneMore
<1>12. QueuesInOrder(W, queue')
    <2>1. h.n \in Nat
        BY <1>6 DEF Hists
    <2>2. QueueInOrder(W, w, queue'[w])
        BY <1>3, <1>4, <1>7, <1>8, <1>10, <1>11, <2>1 DEF QueuesInOrder, QueueInOrder
    <2> QED
        BY <1>7, <1>9, <2>2 DEF QueuesInOrder
<1>13. OutsInOrder(W, queue', outs)
    <2>1. ASSUME NEW g \in HistsOf(outs[w]), NEW p \in Paths, MadeOf(W, w, g, p, queue[w])
          PROVE  MadeOf(W, w, g, p, queue'[w])
        BY <1>4, <1>10, <1>11, <2>1 DEF MadeOf
    <2> QED
        BY <1>7, <1>9, <2>1 DEF OutsInOrder
<1>14. ASSUME NEW u \in Threads, NEW y \in TargetNames, ~Idle(u), u # t \/ y # x,
              Before(W, job[u].hist, y, received, queue, outs)
       PROVE  Before(W, job[u].hist, y, received, queue', outs)
    <2>1. CASE y = x
        <3>1. ~SameChain(h, job[u].hist)
            BY <1>1, <1>7, <1>14, <2>1, OneOfAChain DEF h
        <3> QED
            BY <1>11, <1>14, <2>1, <3>1 DEF Before, w
    <2>2. CASE y # x
        <3>1. y \in DOMAIN handlers => WorkerOf(y) \in Workers /\ WorkerOf(y) # w
            BY <1>2, <1>3, <1>4, <2>2, WorkersOf
        <3> QED
            BY <1>9, <1>14, <3>1 DEF Before
    <2> QED
        BY <2>1, <2>2
<1>15. JobsInOrder(W, received, queue', outs, job')
    BY <1>1, <1>7, <1>14, OrderNext DEF x
<1> QED
    BY <1>1, <1>7, <1>12, <1>13, <1>15 DEF Ordered

LEMMA OrderPublishTo ==
    ASSUME Base, NEW t \in Threads, PublishTo(t),
           NEW W, Ordered(W, received, queue, outs, job, sent)
    PROVE  Ordered(W, received', queue', outs', job', sent')
<1> DEFINE x == Target(t)
           m == [ev |-> job[t].ev, hist |-> job[t].hist]
           h == job[t].hist
<1>1. AtEndpoint(t) /\ received' = [received EXCEPT ![x] = Append(@, m)]
      /\ Next_target(t) /\ UNCHANGED <<queue, outs, sent>>
    BY DEF PublishTo, scriptVars
<1>2. ~Idle(t) /\ x \in DOMAIN endpoints
    BY <1>1 DEF AtEndpoint
<1>3. Shapes
    BY DEF Base
<1>4. m \in Mail /\ m.hist = h
    BY <1>1, <1>2, NextTarget
<1>5. h \in Hists
    BY <1>4 DEF Mail
<1>6. /\ MarksFall(W, sent) /\ EndpointsInOrder(W, received) /\ QueuesInOrder(W, queue)
      /\ OutsInOrder(W, queue, outs) /\ JobsInOrder(W, received, queue, outs, job)
    BY DEF Ordered
<1>7. /\ h.n = Mark(W, h.src, h.path) /\ Before(W, h, x, received, queue, outs)
    <2>1. job[t].todo \in Seq(TargetNames) /\ job[t].todo # <<>>
        BY <1>2, <1>3, JobFields DEF Idle, Shapes
    <2>2. x \in Range(job[t].todo)
        BY <2>1, OnceTail DEF Target
    <2> QED
        BY <1>6, <2>1, <2>2 DEF JobsInOrder, OnItsWay
<1> HIDE DEF m
<1>8. received[x] \in Seq(Mail) /\ received'[x] = Append(received[x], m)
      /\ \A y \in DOMAIN endpoints : y # x => received'[y] = received[y]
    BY <1>1, <1>2, <1>3 DEF Shapes
<1>9. \A g \in HistsOf(received[x]) : SameChain(g, h) => g.n < h.n
    BY <1>2, <1>7 DEF Before
<1> HIDE DEF h, x
<1>10. /\ HistsOf(received'[x]) = HistsOf(received[x]) \cup {h}
       /\ Sorted(received[x]) => Sorted(received'[x])
    <2>1. \A g \in HistsOf(received[x]) : SameChain(g, m.hist) => g.n < m.hist.n
        BY <1>4, <1>9
    <2> DEFINE old == received[x]
               new == received'[x]
    <2>2. old \in Seq(Mail) /\ new = Append(old, m)
        BY <1>8
    <2> HIDE DEF old, new
    <2>3. OneMore(HistsOf(new), HistsOf(old), m.hist)
        BY <1>4, <2>2, HistsAppend
    <2>4. Sorted(old) => Sorted(new)
        BY <1>4, <2>1, <2>2, HistsAppend DEF old
    <2> QED
        BY <1>4, <2>3, <2>4 DEF old, new, OneMore
<1>11. EndpointsInOrder(W, received')
    <2>1. h.n \in Nat
        BY <1>5 DEF Hists
    <2>2. Sorted(received'[x]) /\ \A g \in HistsOf(received'[x]) : g.n <= Mark(W, g.src, g.path)
        BY <1>2, <1>6, <1>7, <1>10, <2>1 DEF EndpointsInOrder
    <2> QED
        BY <1>6, <1>8, <2>2 DEF EndpointsInOrder
<1>12. ASSUME NEW u \in Threads, NEW y \in TargetNames, ~Idle(u), u # t \/ y # x,
              Before(W, job[u].hist, y, received, queue, outs)
       PROVE  Before(W, job[u].hist, y, received', queue, outs)
    <2>1. CASE y = x
        <3>1. ~SameChain(h, job[u].hist)
            BY <1>2, <1>6, <1>12, <2>1, OneOfAChain DEF h
        <3> QED
            BY <1>10, <1>12, <2>1, <3>1 DEF Before
    <2>2. CASE y # x
        BY <1>8, <1>12, <2>2 DEF Before
    <2> QED
        BY <2>1, <2>2
<1>13. JobsInOrder(W, received', queue, outs, job')
    BY <1>2, <1>1, <1>6, <1>12, OrderNext DEF x
<1> QED
    BY <1>1, <1>6, <1>11, <1>13 DEF Ordered

LEMMA OrderInvoke ==
    ASSUME Base, NEW w \in Workers, Invoke(w),
           NEW W, Ordered(W, received, queue, outs, job, sent)
    PROVE  Ordered(W, received', queue', outs', job', sent')
<1> DEFINE first == Head(queue[w])
           rest == Tail(queue[w])
           g0 == first.hist
           id == IdOfWorker(w)
<1>1. UNCHANGED <<job, sent, received>> /\ Shapes /\ Tables
    BY TablesFollow DEF Invoke, Base
<1>2. /\ Answers(w) /\ queue[w] \in Seq(Mail) /\ queue[w] # <<>> /\ first \in Mail
      /\ queue' = [queue EXCEPT ![w] = Tail(@)]
    BY InvokeIs
<1>3. PICK out \in Seq(Mail) :
         /\ outs' = [outs EXCEPT ![w] = out]
         /\ \/ out = <<>>
            \/ \E m \in Mail : out = <<m>> /\ m.hist = Through(w, g0)
    BY InvokeIs
<1>4. /\ MarksFall(W, sent) /\ EndpointsInOrder(W, received) /\ QueuesInOrder(W, queue)
      /\ OutsInOrder(W, queue, outs) /\ JobsInOrder(W, received, queue, outs, job)
    BY DEF Ordered
<1>5. g0 \in Hists
    BY <1>2 DEF Mail
<1>6. id \in DOMAIN handlers /\ WorkerOf(id) = w
    BY <1>2, AnswersIs
<1>7. OneMore(HistsOf(queue[w]), HistsOf(rest), g0)
      /\ (Sorted(queue[w]) =>
             /\ Sorted(rest)
             /\ \A g \in HistsOf(rest) : SameChain(g, g0) => g0.n < g.n)
    BY <1>2, HistsTail
<1>8. QueueInOrder(W, w, queue[w])
    BY <1>4 DEF QueuesInOrder
<1>9. /\ queue'[w] = rest /\ outs'[w] = out
      /\ \A u \in Workers : u # w => queue'[u] = queue[u] /\ outs'[u] = outs[u]
    BY <1>1, <1>2, <1>3 DEF Shapes
<1>10. /\ g0.path \in Paths /\ g0.n \in Nat
       /\ Through(w, g0) = [src |-> g0.src, n |-> g0.n, path |-> Append(g0.path, id)]
    BY <1>5, ThroughIs DEF Hists, IdOfWorker
<1> HIDE DEF rest, g0, first, id
<1>11. /\ id \in DOMAIN handlers /\ WorkerOf(id) = w /\ g0.path \in Paths
      /\ Through(w, g0) = [src |-> g0.src, n |-> g0.n, path |-> Append(g0.path, id)]
    BY <1>6, <1>10 DEF id, g0, first
<1>12. out = <<>> \/ \E m \in Mail : out = <<m>> /\ m.hist = Through(w, g0)
    BY <1>3 DEF g0, first
<1>13. HistsOf(queue[w]) = HistsOf(rest) \cup {g0}
    BY <1>7 DEF OneMore
<1>14. QueueInOrder(W, w, rest)
    BY <1>7, <1>8, <1>13 DEF QueueInOrder
<1>15. QueuesInOrder(W, queue')
    BY <1>4, <1>9, <1>14 DEF QueuesInOrder
<1>16. out = <<>> \/ HistsOf(out) = {[src |-> g0.src, n |-> g0.n, path |-> Append(g0.path, id)]}
    <2>1. ASSUME NEW m, out = <<m>>, m.hist = Through(w, g0) PROVE HistsOf(out) = {Through(w, g0)}
        BY <2>1, HistsOfOne
    <2>2. out = <<>> \/ HistsOf(out) = {Through(w, g0)}
        BY <1>12, <2>1
    <2> QED
        BY <1>11, <2>2
<1>17. Len(out) <= 1 /\ HistsOf(<<>>) = {}
    <2>1. CASE out = <<>>
        BY <2>1, HistsOfOne
    <2>2. ASSUME NEW m, out = <<m>> PROVE Len(out) <= 1
        BY <2>2
    <2> QED
        BY <1>12, <2>1, <2>2, HistsOfOne
<1> DEFINE made == [src |-> g0.src, n |-> g0.n, path |-> Append(g0.path, id)]
<1>18. made.src = g0.src /\ made.n = g0.n /\ made.path = Append(g0.path, id)
    OBVIOUS
<1>19. out = <<>> \/ HistsOf(out) = {made}
    BY <1>16
<1> HIDE DEF made
<1>20. MadeOf(W, w, made, g0.path, rest)
    <2>1. g0.n <= Mark(W, g0.src, g0.path) /\ Mark(W, g0.src, Append(g0.path, id)) < g0.n
        BY <1>8, <1>13 DEF QueueInOrder, id
    <2>2. \A g \in HistsOf(rest) : g.src = g0.src /\ g.path = g0.path => g0.n < g.n
        BY <1>7, <1>8 DEF QueueInOrder, SameChain
    <2> QED
        BY <1>18, <2>1, <2>2 DEF MadeOf, id
<1>21. OutsInOrder(W, queue', outs')
    <2>1. Len(out) <= 1 /\ \A h \in HistsOf(out) : \E p \in Paths : MadeOf(W, w, h, p, rest)
        BY <1>10, <1>17, <1>19, <1>20
    <2> QED
        BY <1>4, <1>9, <2>1 DEF OutsInOrder
<1>22. ASSUME NEW h \in Hists, NEW x, Before(W, h, x, received, queue, outs)
       PROVE  Before(W, h, x, received, queue', outs')
    <2>1. CASE x \in DOMAIN handlers /\ WorkerOf(x) = w
        <3>1. x = id
            BY <1>1, <2>1, WorkersOf DEF id
        <3>2. \A g \in HistsOf(rest) : SameChain(g, h) => g.n < h.n
            BY <1>13, <1>22, <2>1 DEF Before
        <3>3. made.src = h.src /\ made.path = Append(h.path, x) => made.n < h.n
            <4>1. h.path \in Paths
                BY DEF Hists
            <4>2. Append(g0.path, id) = Append(h.path, id) => g0.path = h.path
                <5>1. id \in DOMAIN handlers /\ g0.path \in Paths
                    BY <1>11
                <5> DEFINE p == g0.path
                           q == h.path
                <5>2. p \in Paths /\ q \in Paths
                    BY <4>1, <5>1
                <5> HIDE DEF p, q
                <5>3. Append(p, id) = Append(q, id) => p = q
                    BY <5>1, <5>2, PathsAppend
                <5> QED
                    BY <5>3 DEF p, q
            <4>3. SameChain(g0, h) => g0.n < h.n
                BY <1>13, <1>22, <2>1 DEF Before
            <4> QED
                BY <1>18, <3>1, <4>2, <4>3 DEF SameChain
        <3>4. \A g \in HistsOf(out) : g.src = h.src /\ g.path = Append(h.path, x) => g.n < h.n
            BY <1>17, <1>19, <3>3
        <3> QED
            BY <1>9, <1>22, <2>1, <3>2, <3>4 DEF Before
    <2>2. CASE ~(x \in DOMAIN handlers /\ WorkerOf(x) = w)
        <3>1. x \in DOMAIN handlers => WorkerOf(x) \in Workers
            BY <1>1, WorkersOf
        <3> QED
            BY <1>9, <1>22, <2>2, <3>1 DEF Before
    <2> QED
        BY <2>1, <2>2
<1>23. JobsInOrder(W, received, queue', outs', job)
    <2>1. \A t \in Threads : job[t].todo # <<>> => job[t].hist \in Hists
        <3> SUFFICES ASSUME NEW t \in Threads, job[t].todo # <<>> PROVE job[t].hist \in Hists
            OBVIOUS
        <3> DEFINE m == [ev |-> job[t].ev, hist |-> job[t].hist]
        <3>1. job[t] \in Jobs
            BY <1>1 DEF Shapes
        <3>2. m \in Mail /\ m.hist = job[t].hist
            BY <3>1, JobFields
        <3> HIDE DEF m
        <3> QED
            BY <3>2 DEF Mail
    <2> QED
        BY <1>4, <1>22, <2>1 DEF JobsInOrder, OnItsWay
<1> QED
    BY <1>1, <1>4, <1>15, <1>21, <1>23 DEF Ordered

\* V is W with the mark of path b of source a set to k.
Marked(V, W, a, b, k) ==
    /\ V \in Marks /\ Mark(V, a, b) = k
    /\ \A s \in Sources, p \in Paths : s # a \/ p # b => Mark(V, s, p) = Mark(W, s, p)

LEMMA MarkSet ==
    ASSUME NEW W \in Marks, NEW a \in Sources, NEW b \in Paths, NEW k \in Nat
    PROVE  \E V : Marked(V, W, a, b, k)
<1> DEFINE V == [W EXCEPT ![<<a, b>>] = k]
<1>1. /\ <<a, b>> \in Sources \X Paths
      /\ \A s \in Sources, p \in Paths : <<s, p>> \in Sources \X Paths
    OBVIOUS
<1>2. \A s, p : <<s, p>> = <<a, b>> <=> s = a /\ p = b
    OBVIOUS
<1>3. V \in Marks /\ V[<<a, b>>] = k /\ \A c \in Sources \X Paths : c # <<a, b>> => V[c] = W[c]
    BY <1>1 DEF Marks
<1> HIDE DEF V
<1>4. Marked(V, W, a, b, k)
    BY <1>1, <1>2, <1>3 DEF Marked, Mark
<1> QED
    BY <1>4

LEMMA MarkType == \A W \in Marks, s \in Sources, p \in Paths : Mark(W, s, p) \in Nat
BY DEF Marks, Mark

\* The job of a thread in route() is with an event.
LEMMA JobHist ==
    ASSUME Shapes
    PROVE  \A t \in Threads : job[t].todo # <<>> =>
              job[t].hist \in Hists /\ job[t].hist.src \in Sources /\ job[t].hist.path \in Paths
                /\ job[t].hist.n \in Nat
<1> SUFFICES ASSUME NEW t \in Threads, job[t].todo # <<>>
             PROVE  job[t].hist \in Hists /\ job[t].hist.src \in Sources /\ job[t].hist.path \in Paths
                /\ job[t].hist.n \in Nat
    OBVIOUS
<1> DEFINE m == [ev |-> job[t].ev, hist |-> job[t].hist]
<1>1. job[t] \in Jobs
    BY DEF Shapes
<1>2. m \in Mail /\ m.hist = job[t].hist
    BY <1>1, JobFields
<1> HIDE DEF m
<1>3. job[t].hist \in Hists
    BY <1>2 DEF Mail
<1> QED
    BY <1>3 DEF Hists

\* Thread t enters route() with h, the next event of its chain; o are the outputs
\* that are left and n the new numbers of the sources.
Enters(W, t, e, h, o, n) ==
    /\ t \in Threads /\ h \in Hists
    /\ job' = [job EXCEPT ![t] = [ev |-> e, hist |-> h, todo |-> Targets(e.stream_id)]]
    /\ \A u \in Workers : Len(o[u]) <= 1 /\ HistsOf(o[u]) \subseteq HistsOf(outs[u])
    /\ \A u \in Workers : \A g \in HistsOf(o[u]) : ~SameChain(g, h)
    /\ \A s \in Sources : n[s] = IF s = h.src /\ h.path = <<>> THEN h.n ELSE sent[s]
    /\ t = Station(h.src, h.path) /\ Mark(W, h.src, h.path) < h.n
    /\ \A p \in Paths, x \in DOMAIN handlers : h.path = Append(p, x) => h.n <= Mark(W, h.src, p)
    /\ \A u \in Workers : \A g \in HistsOf(queue[u]) :
          g.src = h.src /\ Append(g.path, IdOfWorker(u)) = h.path => h.n < g.n
    /\ \A u \in Threads : \A x \in DOMAIN handlers :
          /\ u # t /\ ~Idle(u) /\ x \in Range(job[u].todo)
          /\ job[u].hist.src = h.src /\ Append(job[u].hist.path, x) = h.path
          => h.n < job[u].hist.n

LEMMA OrderEnter ==
    ASSUME Base, TargetsOnce,
           NEW W, Ordered(W, received, queue, outs, job, sent),
           NEW t, NEW e, NEW h, NEW o, NEW n, Enters(W, t, e, h, o, n),
           NEW V, Marked(V, W, h.src, h.path, h.n)
    PROVE  Ordered(V, received, queue, o, job', n)
<1> USE DEF Enters
<1>1. Shapes /\ Tables /\ t \in Threads /\ h \in Hists
    BY TablesFollow DEF Base
<1>2. /\ MarksFall(W, sent) /\ EndpointsInOrder(W, received) /\ QueuesInOrder(W, queue)
      /\ OutsInOrder(W, queue, outs) /\ JobsInOrder(W, received, queue, outs, job)
    BY DEF Ordered
<1>3. h.src \in Sources /\ h.path \in Paths /\ h.n \in Nat /\ W \in Marks
    BY <1>2 DEF Hists, MarksFall
<1>4. /\ V \in Marks /\ Mark(V, h.src, h.path) = h.n
      /\ \A s \in Sources, p \in Paths :
            s # h.src \/ p # h.path => Mark(V, s, p) = Mark(W, s, p)
    BY DEF Marked
<1>5. \A s \in Sources, p \in Paths :
          Mark(W, s, p) \in Nat /\ Mark(V, s, p) \in Nat /\ Mark(W, s, p) <= Mark(V, s, p)
    <2>1. \A s \in Sources, p \in Paths : Mark(W, s, p) \in Nat /\ Mark(V, s, p) \in Nat
        BY <1>3, <1>4, MarkType
    <2>2. ASSUME NEW s \in Sources, NEW p \in Paths PROVE Mark(W, s, p) <= Mark(V, s, p)
        <3>1. CASE s = h.src /\ p = h.path
            BY <1>3, <1>4, <2>1, <3>1
        <3>2. CASE s # h.src \/ p # h.path
            BY <1>4, <2>1, <3>2
        <3> QED
            BY <3>1, <3>2
    <2> QED
        BY <2>1, <2>2
<1>6. MarksFall(V, n)
    <2>1. <<>> \in Paths /\ \A s \in Sources : Mark(W, s, <<>>) = sent[s]
        BY <1>2 DEF MarksFall, Paths
    <2>2. \A s \in Sources : Mark(V, s, <<>>) = n[s]
        BY <1>4, <2>1
    <2>3. ASSUME NEW s \in Sources, NEW p \in Paths, NEW x \in DOMAIN handlers
          PROVE  Mark(V, s, Append(p, x)) <= Mark(V, s, p)
        <3> DEFINE q == Append(p, x)
        <3>1. q \in Paths /\ Mark(W, s, q) <= Mark(W, s, p)
            BY <1>2, PathsAppend DEF MarksFall
        <3>2. s = h.src /\ h.path = q => h.n <= Mark(W, h.src, p)
            OBVIOUS
        <3> HIDE DEF q
        <3>3. Mark(V, s, q) <= Mark(V, s, p)
            BY <1>3, <1>4, <1>5, <3>1, <3>2
        <3> QED
            BY <3>3 DEF q
    <2> QED
        BY <1>4, <2>2, <2>3 DEF MarksFall
<1>7. /\ \A id \in DOMAIN endpoints : \A g \in HistsOf(received[id]) :
            g.src \in Sources /\ g.path \in Paths /\ g.n \in Nat
      /\ \A u \in Workers : \A g \in HistsOf(queue[u]) :
            g.src \in Sources /\ g.path \in Paths /\ g.n \in Nat
      /\ \A u \in Workers : \A g \in HistsOf(outs[u]) :
            g.src \in Sources /\ g.path \in Paths /\ g.n \in Nat
    BY <1>1, HistsMail DEF Shapes, Hists
<1>8. EndpointsInOrder(V, received)
    BY <1>2, <1>5, <1>7 DEF EndpointsInOrder
<1>9. ASSUME NEW u \in Workers, queue[u] # <<>> \/ outs[u] # <<>>
      PROVE  IdOfWorker(u) \in DOMAIN handlers /\ WorkerOf(IdOfWorker(u)) = u
    BY <1>9, AnswersIs DEF Base
<1>10. \A u \in Workers : (HistsOf(queue[u]) # {} => queue[u] # <<>>)
                          /\ (HistsOf(outs[u]) # {} => outs[u] # <<>>)
    BY HistsOfOne
<1>11. QueuesInOrder(V, queue)
    <2> SUFFICES ASSUME NEW u \in Workers, NEW g \in HistsOf(queue[u])
                 PROVE  /\ g.n <= Mark(V, g.src, g.path)
                        /\ Mark(V, g.src, Append(g.path, IdOfWorker(u))) < g.n
        BY <1>2 DEF QueuesInOrder, QueueInOrder
    <2>1. g.n <= Mark(W, g.src, g.path) /\ Mark(W, g.src, Append(g.path, IdOfWorker(u))) < g.n
        BY <1>2 DEF QueuesInOrder, QueueInOrder
    <2> DEFINE q == Append(g.path, IdOfWorker(u))
    <2>2. q \in Paths
        <3>1. g.path \in Paths
            BY <1>7
        <3>2. IdOfWorker(u) \in DOMAIN handlers
            BY <1>9, <1>10
        <3> QED
            BY <3>1, <3>2, PathsAppend
    <2>3. g.src = h.src /\ q = h.path => h.n < g.n
        OBVIOUS
    <2>4. Mark(W, g.src, q) < g.n
        BY <2>1
    <2> HIDE DEF q
    <2>5. Mark(V, g.src, q) < g.n
        BY <1>4, <1>7, <2>2, <2>3, <2>4
    <2>6. g.n <= Mark(V, g.src, g.path)
        BY <1>5, <1>7, <2>1
    <2> QED
        BY <2>5, <2>6 DEF q
<1>12. OutsInOrder(V, queue, o)
    <2> SUFFICES ASSUME NEW u \in Workers, NEW g \in HistsOf(o[u])
                 PROVE  \E p \in Paths : MadeOf(V, u, g, p, queue[u])
        BY DEF OutsInOrder
    <2>1. g \in HistsOf(outs[u])
        OBVIOUS
    <2>2. PICK p \in Paths : MadeOf(W, u, g, p, queue[u])
        BY <1>2, <2>1 DEF OutsInOrder
    <2>3. ~SameChain(g, h)
        OBVIOUS
    <2>4. g.src \in Sources /\ g.path \in Paths /\ g.n \in Nat
        BY <1>7, <2>1
    <2>5. Mark(V, g.src, g.path) = Mark(W, g.src, g.path) /\ Mark(W, g.src, p) <= Mark(V, g.src, p)
        BY <1>4, <1>5, <2>3, <2>4 DEF SameChain
    <2>6. Mark(W, g.src, p) \in Nat /\ Mark(V, g.src, p) \in Nat
        BY <1>5, <2>4
    <2>7. g.n <= Mark(V, g.src, p)
        BY <2>2, <2>4, <2>5, <2>6 DEF MadeOf
    <2>8. MadeOf(V, u, g, p, queue[u])
        BY <2>2, <2>5, <2>7 DEF MadeOf
    <2> QED
        BY <2>8
<1>13. ASSUME NEW u \in Threads, u # t, job[u].todo # <<>>
       PROVE  OnItsWay(V, u, job[u], received, queue, o)
    <2> DEFINE g == job[u].hist
    <2>1. OnItsWay(W, u, job[u], received, queue, outs)
        BY <1>2, <1>13 DEF JobsInOrder
    <2>2. g.src \in Sources /\ g.path \in Paths /\ g.n \in Nat
        BY <1>1, <1>13, JobHist
    <2>3. u = Station(g.src, g.path) /\ g.n = Mark(W, g.src, g.path)
        BY <2>1 DEF OnItsWay
    <2>4. g.n = Mark(V, g.src, g.path)
        BY <1>4, <1>13, <2>2, <2>3
    <2>5. ASSUME NEW x \in Range(job[u].todo) PROVE Before(V, g, x, received, queue, o)
        <3>1. Before(W, g, x, received, queue, outs)
            BY <2>1 DEF OnItsWay
        <3>2. ASSUME x \in DOMAIN handlers
              PROVE  /\ Mark(V, g.src, Append(g.path, x)) < g.n
                     /\ HistsOf(o[WorkerOf(x)]) \subseteq HistsOf(outs[WorkerOf(x)])
            <4> DEFINE q == Append(g.path, x)
            <4>1. q \in Paths
                BY <2>2, <3>2, PathsAppend
            <4>2. Mark(W, g.src, q) < g.n
                BY <3>1, <3>2 DEF Before
            <4>3. g.src = h.src /\ q = h.path => h.n < g.n
                BY <1>13, <2>5, <3>2 DEF Idle
            <4> HIDE DEF q, g
            <4>4. Mark(V, g.src, q) < g.n
                BY <1>4, <2>2, <4>1, <4>2, <4>3 DEF g
            <4>5. WorkerOf(x) \in Workers
                BY <1>1, <3>2, WorkerExists
            <4> QED
                BY <4>4, <4>5 DEF q
        <3> QED
            BY <3>1, <3>2 DEF Before
    <2> QED
        BY <2>1, <2>3, <2>4, <2>5 DEF OnItsWay
<1>14. OnItsWay(V, t, [ev |-> e, hist |-> h, todo |-> Targets(e.stream_id)], received, queue, o)
    <2>1. h.n = Mark(V, h.src, h.path)
        BY <1>3, <1>4
    <2>2. Once(Targets(e.stream_id))
        BY <1>3 DEF TargetsOnce, Sources
    <2>3. ASSUME NEW x, x \in DOMAIN endpoints, NEW g \in HistsOf(received[x]), SameChain(g, h)
          PROVE  g.n < h.n
        BY <1>2, <1>3, <1>5, <1>7, <2>3 DEF EndpointsInOrder, SameChain
    <2>4. ASSUME NEW x, x \in DOMAIN handlers
          PROVE  /\ Mark(V, h.src, Append(h.path, x)) < h.n
                 /\ \A g \in HistsOf(queue[WorkerOf(x)]) : SameChain(g, h) => g.n < h.n
                 /\ \A g \in HistsOf(o[WorkerOf(x)]) :
                        g.src = h.src /\ g.path = Append(h.path, x) => g.n < h.n
        <3>1. WorkerOf(x) \in Workers /\ IdOfWorker(WorkerOf(x)) = x
            BY <1>1, <2>4, WorkerExists
        <3> DEFINE q == Append(h.path, x)
        <3>2. /\ q \in Paths /\ q # h.path
              /\ Mark(W, h.src, q) <= Mark(W, h.src, h.path)
            <4>1. q \in Paths /\ Len(q) = Len(h.path) + 1 /\ Len(h.path) \in Nat
                BY <1>3, <2>4, AppendProperties, LenProperties DEF Paths
            <4> QED
                BY <1>2, <1>3, <2>4, <4>1 DEF MarksFall
        <3>3. ASSUME NEW g \in HistsOf(queue[WorkerOf(x)]), SameChain(g, h) PROVE g.n < h.n
            BY <1>2, <1>3, <1>5, <1>7, <3>1, <3>3 DEF QueuesInOrder, QueueInOrder, SameChain
        <3>4. ASSUME NEW g \in HistsOf(o[WorkerOf(x)]), g.src = h.src, g.path = Append(h.path, x)
              PROVE  g.n < h.n
            <4>1. g \in HistsOf(outs[WorkerOf(x)])
                BY <3>1
            <4>2. PICK p \in Paths : MadeOf(W, WorkerOf(x), g, p, queue[WorkerOf(x)])
                BY <1>2, <3>1, <4>1 DEF OutsInOrder
            <4>3. g.path = Append(p, x) /\ g.n <= Mark(W, h.src, p)
                BY <3>1, <3>4, <4>2 DEF MadeOf
            <4>4. p = h.path
                <5> DEFINE b == h.path
                <5>1. b \in Paths /\ Append(p, x) = Append(b, x)
                    BY <1>3, <3>4, <4>3
                <5> HIDE DEF b
                <5>2. p = b
                    BY <2>4, <5>1, PathsAppend
                <5> QED
                    BY <5>2 DEF b
            <4> QED
                BY <1>3, <1>5, <1>7, <3>1, <4>1, <4>3, <4>4
        <3> HIDE DEF q
        <3>5. Mark(V, h.src, q) < h.n
            BY <1>3, <1>4, <1>5, <3>2
        <3> QED
            BY <3>3, <3>4, <3>5 DEF q
    <2>5. \A x : Before(V, h, x, received, queue, o)
        BY <2>3, <2>4 DEF Before
    <2> DEFINE todo == Targets(e.stream_id)
    <2> HIDE DEF todo
    <2>6. OnItsWay(V, t, [ev |-> e, hist |-> h, todo |-> todo], received, queue, o)
        BY <2>1, <2>2, <2>5 DEF OnItsWay, todo
    <2> QED
        BY <2>6 DEF todo
<1>15. JobsInOrder(V, received, queue, o, job')
    <2> DEFINE new == [ev |-> e, hist |-> h, todo |-> Targets(e.stream_id)]
    <2>1. OnItsWay(V, t, new, received, queue, o) /\ job' = [job EXCEPT ![t] = new]
        BY <1>14
    <2> HIDE DEF new
    <2>2. job'[t] = new /\ \A u \in Threads : u # t => job'[u] = job[u]
        BY <1>1, <2>1 DEF Shapes
    <2> QED
        BY <1>13, <2>1, <2>2 DEF JobsInOrder
<1> QED
    BY <1>6, <1>8, <1>11, <1>12, <1>15 DEF Ordered

LEMMA OrderEmit ==
    ASSUME Base, TargetsOnce, NEW t \in Sources, Emit(t),
           NEW W, Ordered(W, received, queue, outs, job, sent)
    PROVE  /\ \E V : Marked(V, W, t, <<>>, sent[t] + 1)
           /\ \A V : Marked(V, W, t, <<>>, sent[t] + 1) =>
                 Ordered(V, received', queue', outs', job', sent')
<1> DEFINE k == sent[t] + 1
           h == History(t, k, <<>>)
           e == Emission(t, k)
<1>1. Shapes /\ Tables
    BY TablesFollow DEF Base
<1>2. /\ Idle(t) /\ sent' = [sent EXCEPT ![t] = k] /\ UNCHANGED <<received, queue, outs>>
      /\ job' = [job EXCEPT ![t] = [ev |-> e, hist |-> h, todo |-> Targets(e.stream_id)]]
    BY DEF Emit, Enter, scriptVars
<1>3. sent[t] \in Nat /\ k \in Nat \ {0} /\ sent[t] < k
    BY <1>1 DEF Shapes
<1> HIDE DEF k, e
<1>4. h.src = t /\ h.n = k /\ h.path = <<>> /\ h \in Hists
    BY <1>3 DEF History, Hists, Paths
<1> HIDE DEF h
<1>5. \A s \in Sources : sent'[s] = IF s = h.src /\ h.path = <<>> THEN h.n ELSE sent[s]
    BY <1>1, <1>2, <1>4 DEF Shapes
<1>6. t \in Threads /\ t = Station(h.src, h.path)
    BY <1>4 DEF Threads, Station
<1>7. Mark(W, h.src, h.path) = sent[t] /\ W \in Marks
    BY <1>4 DEF Ordered, MarksFall
<1>8. \A p \in Paths, x \in DOMAIN handlers : h.path # Append(p, x)
    BY <1>4, PathsAppend
<1>9. \A u \in Workers : Len(outs[u]) <= 1
    BY DEF Ordered, OutsInOrder
<1>10. \A u \in Workers : \A g \in HistsOf(outs[u]) : ~SameChain(g, h)
    <2> SUFFICES ASSUME NEW u \in Workers, NEW g \in HistsOf(outs[u]) PROVE g.path # <<>>
        BY <1>4 DEF SameChain
    <2>1. PICK p \in Paths : g.path = Append(p, IdOfWorker(u))
        BY DEF Ordered, OutsInOrder, MadeOf
    <2>2. outs[u] # <<>>
        BY HistsOfOne
    <2>3. IdOfWorker(u) \in DOMAIN handlers
        BY <2>2, AnswersIs DEF Base
    <2> QED
        BY <2>1, <2>3, PathsAppend
<1>11. \A u \in Workers : \A g \in HistsOf(queue[u]) : Append(g.path, IdOfWorker(u)) # h.path
    <2> SUFFICES ASSUME NEW u \in Workers, NEW g \in HistsOf(queue[u])
                 PROVE  Append(g.path, IdOfWorker(u)) # <<>>
        BY <1>4
    <2>1. queue[u] # <<>> /\ g \in Hists
        BY <1>1, HistsOfOne, HistsMail DEF Shapes
    <2>2. IdOfWorker(u) \in DOMAIN handlers /\ g.path \in Paths
        BY <2>1, AnswersIs DEF Base, Hists
    <2> QED
        BY <2>2, PathsAppend
<1>12. \A u \in Threads : \A x \in DOMAIN handlers :
          ~Idle(u) => Append(job[u].hist.path, x) # h.path
    BY <1>1, <1>4, JobHist, PathsAppend DEF Idle
<1>13. h.src \in Sources /\ h.path \in Paths /\ h.n \in Nat
    BY <1>4 DEF Hists
<1>14. \E V : Marked(V, W, h.src, h.path, h.n)
    BY <1>7, <1>13, MarkSet
<1>15. Mark(W, h.src, h.path) < h.n
    BY <1>3, <1>4, <1>7
<1>16. Enters(W, t, e, h, outs, sent')
    BY <1>2, <1>4, <1>5, <1>6, <1>8, <1>9, <1>10, <1>11, <1>12, <1>15 DEF Enters
<1>17. ASSUME NEW V, Marked(V, W, h.src, h.path, h.n)
       PROVE  Ordered(V, received, queue, outs, job', sent')
    BY <1>16, <1>17, OrderEnter
<1>18. h.n = sent[t] + 1
    BY <1>4 DEF k
<1> QED
    BY <1>2, <1>4, <1>14, <1>17, <1>18

LEMMA OrderReroute ==
    ASSUME Base, TargetsOnce, NEW w \in Workers, Reroute(w),
           NEW W, Ordered(W, received, queue, outs, job, sent),
           NEW head, head = Head(outs[w]).hist
    PROVE  /\ \E V : Marked(V, W, head.src, head.path, head.n)
           /\ \A V : Marked(V, W, head.src, head.path, head.n) =>
                 Ordered(V, received', queue', outs', job', sent')
<1> DEFINE m == Head(outs[w])
           h == m.hist
           id == IdOfWorker(w)
<1>1. Shapes /\ Tables /\ UNCHANGED <<queue, sent, received>>
    BY TablesFollow DEF Base, Reroute
<1>2. /\ Idle(w) /\ outs[w] \in Seq(Mail) /\ outs[w] # <<>> /\ Answers(w)
      /\ m \in Mail /\ outs' = [outs EXCEPT ![w] = Tail(@)]
    BY RerouteIs
<1>3. PICK e : job' = [job EXCEPT ![w] = [ev |-> e, hist |-> h, todo |-> Targets(e.stream_id)]]
    BY RerouteIs
<1>4. h \in Hists /\ h \in HistsOf(outs[w])
    <2>1. 1 \in DOMAIN outs[w] /\ outs[w][1] = m
        BY <1>2, LenProperties, EmptySeq
    <2> QED
        BY <1>2, <2>1 DEF Mail, HistsOf
<1>5. /\ OutsInOrder(W, queue, outs) /\ W \in Marks
      /\ JobsInOrder(W, received, queue, outs, job)
    BY DEF Ordered, MarksFall
<1>6. PICK p \in Paths : MadeOf(W, w, h, p, queue[w])
    BY <1>4, <1>5 DEF OutsInOrder
<1>7. id \in DOMAIN handlers /\ WorkerOf(id) = w
    BY <1>2, AnswersIs
<1>8. outs'[w] = <<>> /\ \A u \in Workers : u # w => outs'[u] = outs[u]
    <2> DEFINE s == outs[w]
    <2>1. Len(s) <= 1
        BY <1>5 DEF OutsInOrder
    <2>2. s \in Seq(Mail) /\ s # <<>>
        BY <1>2
    <2> HIDE DEF s
    <2>3. Len(s) \in Nat /\ Len(s) # 0 /\ Tail(s) \in Seq(Mail) /\ Len(Tail(s)) = Len(s) - 1
        BY <2>2, LenProperties, EmptySeq, HeadTailProperties
    <2>4. Len(Tail(s)) = 0
        BY <2>1, <2>3
    <2>5. Tail(s) = <<>>
        BY <2>3, <2>4, EmptySeq
    <2> QED
        BY <1>1, <1>2, <2>5 DEF Shapes, s
<1>9. head = h
    OBVIOUS
<1> HIDE DEF m, h, id
<1>10. /\ h \in Hists /\ h \in HistsOf(outs[w]) /\ id \in DOMAIN handlers /\ WorkerOf(id) = w
      /\ MadeOf(W, w, h, p, queue[w])
      /\ job' = [job EXCEPT ![w] = [ev |-> e, hist |-> h, todo |-> Targets(e.stream_id)]]
    BY <1>3, <1>4, <1>6, <1>7 DEF m, h, id
<1>11. /\ h.src \in Sources /\ h.path \in Paths /\ h.n \in Nat
       /\ h.path = Append(p, id) /\ Mark(W, h.src, h.path) < h.n /\ h.n <= Mark(W, h.src, p)
       /\ \A g \in HistsOf(queue[w]) : g.src = h.src /\ g.path = p => h.n < g.n
    BY <1>10 DEF MadeOf, Hists, id
<1>12. w \in Threads /\ w = Station(h.src, h.path) /\ h.path # <<>>
    <2>1. h.path # <<>> /\ h.path[Len(h.path)] = id
        BY <1>10, <1>11, PathsAppend
    <2> QED
        BY <1>10, <2>1 DEF Threads, Station
<1>13. \A q \in Paths, x \in DOMAIN handlers : Append(q, x) = h.path => q = p /\ x = id
    BY <1>10, <1>11, PathsAppend
<1>14. ASSUME NEW u \in Workers, queue[u] # <<>> \/ outs[u] # <<>>
       PROVE  IdOfWorker(u) \in DOMAIN handlers /\ (IdOfWorker(u) = id => u = w)
    BY <1>10, <1>14, AnswersIs DEF Base
<1>15. \A u \in Workers : Len(outs'[u]) <= 1 /\ HistsOf(outs'[u]) \subseteq HistsOf(outs[u])
    <2>1. Len(outs'[w]) <= 1 /\ HistsOf(outs'[w]) = {}
        BY <1>8, HistsOfOne
    <2> QED
        BY <1>5, <1>8, <2>1 DEF OutsInOrder
<1>16. \A u \in Workers : \A g \in HistsOf(outs'[u]) : ~SameChain(g, h)
    <2> SUFFICES ASSUME NEW u \in Workers, NEW g \in HistsOf(outs'[u]), g.path = h.path PROVE FALSE
        BY DEF SameChain
    <2>1. u # w
        BY <1>8, HistsOfOne
    <2>2. g \in HistsOf(outs[u]) /\ outs[u] # <<>>
        BY <1>15, HistsOfOne
    <2>3. PICK q \in Paths : g.path = Append(q, IdOfWorker(u))
        BY <1>5, <2>2 DEF OutsInOrder, MadeOf
    <2> QED
        BY <1>13, <1>14, <2>1, <2>2, <2>3
<1>17. \A s \in Sources : sent'[s] = IF s = h.src /\ h.path = <<>> THEN h.n ELSE sent[s]
    BY <1>1, <1>12
<1>18. \A q \in Paths, x \in DOMAIN handlers : h.path = Append(q, x) => h.n <= Mark(W, h.src, q)
    BY <1>11, <1>13
<1>19. ASSUME NEW u \in Workers, NEW g \in HistsOf(queue[u]),
              g.src = h.src, Append(g.path, IdOfWorker(u)) = h.path
       PROVE  h.n < g.n
    <2>1. queue[u] # <<>> /\ g \in Hists
        BY <1>1, HistsOfOne, HistsMail DEF Shapes
    <2>2. g.path \in Paths
        BY <2>1 DEF Hists
    <2>3. g.path = p /\ u = w
        BY <1>13, <1>14, <1>19, <2>1, <2>2
    <2> QED
        BY <1>11, <1>19, <2>3
<1>20. ASSUME NEW u \in Threads, NEW x \in DOMAIN handlers, u # w, ~Idle(u),
              x \in Range(job[u].todo),
              job[u].hist.src = h.src, Append(job[u].hist.path, x) = h.path
       PROVE  h.n < job[u].hist.n
    <2>1. job[u].hist.path \in Paths
        BY <1>1, <1>20, JobHist DEF Idle
    <2>2. x = id
        BY <1>13, <1>20, <2>1
    <2>3. Before(W, job[u].hist, x, received, queue, outs)
        BY <1>5, <1>20 DEF JobsInOrder, OnItsWay, Idle
    <2>4. \A g \in HistsOf(outs[w]) :
             g.src = job[u].hist.src /\ g.path = Append(job[u].hist.path, x) => g.n < job[u].hist.n
        BY <1>10, <2>2, <2>3 DEF Before
    <2> QED
        BY <1>10, <1>20, <2>4
<1>21. Enters(W, w, e, h, outs', sent')
    BY <1>10, <1>11, <1>12, <1>15, <1>16, <1>17, <1>18, <1>19, <1>20 DEF Enters
<1>22. \E V : Marked(V, W, h.src, h.path, h.n)
    BY <1>5, <1>11, MarkSet
<1>23. ASSUME NEW V, Marked(V, W, h.src, h.path, h.n)
       PROVE  Ordered(V, received, queue, outs', job', sent')
    BY <1>21, <1>23, OrderEnter
<1> QED
    BY <1>1, <1>22, <1>23, <1>9

LEMMA OrderInit ==
    ASSUME Init
    PROVE  \E W : /\ Ordered(W, received, queue, outs, job, sent)
                  /\ \A s \in Sources, p \in Paths : Mark(W, s, p) = 0
<1> DEFINE W == [c \in Sources \X Paths |-> 0]
<1>1. W \in Marks /\ \A s \in Sources, p \in Paths : Mark(W, s, p) = 0
    BY DEF Marks, Mark
<1> HIDE DEF W
<1>2. <<>> \in Paths /\ \A s \in Sources : sent[s] = 0
    BY DEF Init, Paths
<1>3. MarksFall(W, sent)
    BY <1>1, <1>2, PathsAppend DEF MarksFall
<1>4. \A id \in DOMAIN endpoints : received[id] = <<>>
    BY DEF Init
<1>5. EndpointsInOrder(W, received)
    BY <1>4, HistsOfOne DEF EndpointsInOrder
<1>6. \A w \in Workers : queue[w] = <<>> /\ outs[w] = <<>>
    BY DEF Init
<1>7. QueuesInOrder(W, queue)
    BY <1>6, HistsOfOne DEF QueuesInOrder, QueueInOrder
<1>8. OutsInOrder(W, queue, outs)
    <2>1. Len(<<>>) <= 1
        OBVIOUS
    <2> QED
        BY <1>6, <2>1, HistsOfOne DEF OutsInOrder
<1>9. \A t \in Threads : job[t].todo = <<>>
    BY DEF Init
<1>10. JobsInOrder(W, received, queue, outs, job)
    BY <1>9 DEF JobsInOrder
<1>11. Ordered(W, received, queue, outs, job, sent)
    BY <1>3, <1>5, <1>7, <1>8, <1>10 DEF Ordered
<1> QED
    BY <1>1, <1>11

InOrder == \E W : Ordered(W, received, queue, outs, job, sent)

LEMMA OrderStep == Base /\ TargetsOnce /\ InOrder /\ [Next]_vars => (TargetsOnce /\ InOrder)'
<1> SUFFICES ASSUME Base, TargetsOnce, InOrder, [Next]_vars PROVE (TargetsOnce /\ InOrder)'
    OBVIOUS
<1>1. PICK W : Ordered(W, received, queue, outs, job, sent)
    BY DEF InOrder
<1>2. UNCHANGED tables
    BY DEF Next, vars, tables, Emit, Route, Enqueue, Lock, PublishTo, Unknown, Invoke, Reroute, Stall, Resume
<1>3. \E V : Ordered(V, received', queue', outs', job', sent')
    <2>1. ASSUME NEW t \in Sources, Emit(t) PROVE \E V : Ordered(V, received', queue', outs', job', sent')
        <3>1. PICK V : Marked(V, W, t, <<>>, sent[t] + 1)
            BY <1>1, <2>1, OrderEmit
        <3> QED
            BY <1>1, <2>1, <3>1, OrderEmit
    <2>2. ASSUME NEW t \in Threads, Enqueue(t) PROVE Ordered(W, received', queue', outs', job', sent')
        BY <1>1, <2>2, OrderEnqueue
    <2>3. ASSUME NEW t \in Threads, PublishTo(t) PROVE Ordered(W, received', queue', outs', job', sent')
        BY <1>1, <2>3, OrderPublishTo
    <2>4. ASSUME NEW t \in Threads, Unknown(t) PROVE Ordered(W, received', queue', outs', job', sent')
        BY <1>1, <2>4, OrderUnknown
    <2>5. ASSUME NEW w \in Workers, Invoke(w) PROVE Ordered(W, received', queue', outs', job', sent')
        BY <1>1, <2>5, OrderInvoke
    <2>6. ASSUME NEW w \in Workers, Reroute(w) PROVE \E V : Ordered(V, received', queue', outs', job', sent')
        <3> DEFINE h == Head(outs[w]).hist
        <3>1. h = Head(outs[w]).hist
            OBVIOUS
        <3> HIDE DEF h
        <3>2. PICK V : Marked(V, W, h.src, h.path, h.n)
            BY <1>1, <2>6, <3>1, OrderReroute
        <3> QED
            BY <1>1, <2>6, <3>1, <3>2, OrderReroute
    <2>7. CASE UNCHANGED <<queue, outs, job, sent, received>>
        BY <1>1, <2>7
    <2>8. \A t \in Threads : Lock(t) => UNCHANGED <<queue, outs, job, sent, received>>
        BY DEF Lock, scriptVars
    <2>9. \A id \in DOMAIN endpoints :
             Stall(id) \/ Resume(id) => UNCHANGED <<queue, outs, job, sent, received>>
        BY DEF Stall, Resume, scriptVars
    <2>10. UNCHANGED vars => UNCHANGED <<queue, outs, job, sent, received>>
        BY DEF vars
    <2> QED
        BY <2>1, <2>2, <2>3, <2>4, <2>5, <2>6, <2>7, <2>8, <2>9, <2>10 DEF Next, Route
<1>4. InOrder'
    <2>1. \A V : Ordered(V, received, queue, outs, job, sent)' =
                 Ordered(V, received', queue', outs', job', sent')
        BY <1>2, OrderedKept
    <2> QED
        BY <1>3, <2>1 DEF InOrder
<1> QED
    BY <1>2, <1>4, NamesKept

(* Events of one source that take the same way arrive in the order they were  *)
(* emitted, whatever the threads of other scripts do (ChainOrder), if no      *)
(* target stands twice in the list of a stream: an event that is delivered    *)
(* twice is not before itself.                                                *)
THEOREM ChainsInOrder == Spec /\ TargetsOnce => []ChainOrder
<1>1. Init => InOrder
    BY OrderInit DEF InOrder
<1>2. InOrder => ChainOrder
    <2> SUFFICES ASSUME NEW W, EndpointsInOrder(W, received) PROVE ChainOrder
        BY DEF InOrder, Ordered
    <2> QED
        BY DEF EndpointsInOrder, Sorted, SameChain, ChainOrder
<1>3. Base /\ (TargetsOnce /\ InOrder) /\ [Next]_vars => (TargetsOnce /\ InOrder)'
    BY OrderStep
<1>4. Spec => []Base
    BY BaseHolds
<1> QED
    BY <1>1, <1>2, <1>3, <1>4, PTL DEF Spec

-----------------------------------------------------------------------------
(* What the file says, and the tables.                                     *)

LEMMA HeaderCounts ==
    ASSUME NEW lines, NEW j \in Nat \ {0}, lines[j].tag = "section"
    PROVE  Count(lines, j) \in Nat \ {0}
<1>1. j - 1 \in Nat
    OBVIOUS
<1>2. Count(lines, j - 1) \in Nat /\ Count(lines, j) = Count(lines, j - 1) + 1
    BY <1>1, CountType, CountStep
<1> QED
    BY <1>2

\* A line is in the section that has its number.
LEMMA UnderIs ==
    ASSUME IsFile(file), NEW i \in DOMAIN file, NEW j \in DOMAIN file
    PROVE  Under(i, j) <=>
              /\ file[i].tag = "pair" /\ file[j].tag = "section"
              /\ Count(file, j) = Count(file, i)
<1>1. i \in Nat \ {0} /\ j \in Nat \ {0}
    BY LenProperties DEF IsFile
<1>2. CASE j < i
    BY <1>1, <1>2, CountOrder DEF Under
<1>3. CASE i = j
    BY <1>3 DEF Under
<1>4. CASE i < j
    <2>1. ~Under(i, j)
        BY <1>1, <1>4 DEF Under
    <2>2. j \in (i + 1)..j
        BY <1>1, <1>4
    <2>3. file[j].tag = "section" => Count(file, i) # Count(file, j)
        BY <1>1, <1>4, <2>2, CountOrder
    <2> QED
        BY <2>1, <2>3
<1> QED
    BY <1>1, <1>2, <1>3, <1>4

LEMMA MalformedIs ==
    ASSUME IsFile(file)
    PROVE  Malformed <=> \E k \in 1..Len(file) : Wrong(file, k)
<1>1. Len(file) \in Nat /\ DOMAIN file = 1..Len(file)
    BY LenProperties DEF IsFile
<1>2. ASSUME NEW k \in DOMAIN file, file[k].tag = "pair"
      PROVE  Count(file, k) = 0 <=> ~ \E j \in DOMAIN file : Under(k, j)
    <2>1. Count(file, k) \in Nat /\ k \in Nat
        BY <1>1, CountType
    <2>2. ASSUME Count(file, k) # 0 PROVE \E j \in DOMAIN file : Under(k, j)
        <3>1. PICK j \in 1..k : file[j].tag = "section" /\ Count(file, j) = Count(file, k)
            BY <2>1, <2>2, NumbersUsed
        <3>2. j \in DOMAIN file
            BY <1>1, <2>1
        <3> QED
            BY <1>2, <3>1, <3>2, UnderIs
    <2>3. ASSUME NEW j \in DOMAIN file, Under(k, j) PROVE Count(file, k) # 0
        <3>1. file[j].tag = "section" /\ Count(file, j) = Count(file, k)
            BY <2>3, UnderIs
        <3> QED
            BY <1>1, <3>1, HeaderCounts
    <2> QED
        BY <2>2, <2>3
<1>3. ASSUME Malformed PROVE \E k \in DOMAIN file : Wrong(file, k)
    <2>1. CASE \E i \in DOMAIN file : file[i].tag = "junk"
        BY <2>1 DEF Wrong
    <2>2. CASE \E i \in DOMAIN file : file[i].tag = "pair" /\ ~ \E j \in DOMAIN file : Under(i, j)
        BY <1>2, <2>2 DEF Wrong
    <2>3. ASSUME NEW j \in DOMAIN file, NEW i \in DOMAIN file, NEW k \in DOMAIN file,
                 Under(i, j), Under(k, j), i < k, file[i].key = file[k].key, ~is_multi_key(file[i].key)
          PROVE  Wrong(file, k)
        <3>1. /\ file[i].tag = "pair" /\ file[k].tag = "pair" /\ Count(file, i) = Count(file, k)
            BY <2>3, UnderIs
        <3>2. i \in 1..(k - 1)
            BY <1>1, <2>3
        <3> QED
            BY <2>3, <3>1, <3>2 DEF Wrong, Belongs
    <2>4. \A i, k \in DOMAIN file : i # k => i < k \/ k < i
        BY <1>1
    <2> QED
        BY <1>3, <2>1, <2>2, <2>3, <2>4 DEF Malformed
<1>4. ASSUME NEW k \in DOMAIN file, Wrong(file, k) PROVE Malformed
    <2>1. CASE file[k].tag = "junk"
        BY <2>1 DEF Malformed
    <2>2. CASE file[k].tag = "pair" /\ Count(file, k) = 0
        BY <1>2, <2>2 DEF Malformed
    <2>3. ASSUME file[k].tag = "pair", Count(file, k) # 0, ~is_multi_key(file[k].key),
                 NEW m \in 1..(k - 1), Belongs(file, m, Count(file, k)), file[m].key = file[k].key
          PROVE  Malformed
        <3>1. m \in DOMAIN file /\ m # k
            BY <1>1
        <3>2. PICK j \in DOMAIN file : Under(k, j)
            BY <1>2, <2>3
        <3>3. Under(m, j)
            BY <2>3, <3>1, <3>2, UnderIs DEF Belongs
        <3> QED
            BY <2>3, <3>1, <3>2, <3>3 DEF Malformed
    <2> QED
        BY <1>4, <2>1, <2>2, <2>3 DEF Wrong
<1> QED
    BY <1>1, <1>3, <1>4

\* The sections of the file and those that parse() makes.
LEMMA HeadersAre ==
    ASSUME IsFile(file), NEW cfg, cfg = parse(file), cfg.ok
    PROVE  /\ \A j \in DOMAIN file : file[j].tag = "section" =>
                 /\ Count(file, j) \in DOMAIN cfg.sections
                 /\ cfg.sections[Count(file, j)].type = file[j].name
           /\ \A c \in DOMAIN cfg.sections :
                 \E j \in DOMAIN file : file[j].tag = "section" /\ Count(file, j) = c
<1> DEFINE N == Len(file)
           n == Len(cfg.sections)
<1>1. N \in Nat /\ DOMAIN file = 1..N
    BY LenProperties DEF IsFile
<1>2. n = Count(file, N) /\ n \in Nat /\ DOMAIN cfg.sections = 1..n
    BY Sections
<1>3. \A c \in DOMAIN cfg.sections : Holds(file, N, c, cfg.sections[c])
    BY Sections
<1>4. ASSUME NEW j \in DOMAIN file, file[j].tag = "section"
      PROVE  /\ Count(file, j) \in DOMAIN cfg.sections
             /\ cfg.sections[Count(file, j)].type = file[j].name
    <2>1. Count(file, j) \in Nat \ {0} /\ Count(file, j) <= n
        BY <1>1, <1>2, <1>4, HeaderCounts, CountOrder
    <2>2. Count(file, j) \in DOMAIN cfg.sections
        BY <1>2, <2>1
    <2> QED
        BY <1>1, <1>3, <1>4, <2>2 DEF Holds
<1>5. ASSUME NEW c \in DOMAIN cfg.sections
      PROVE  \E j \in DOMAIN file : file[j].tag = "section" /\ Count(file, j) = c
    <2>1. c \in 1..Count(file, N)
        BY <1>2
    <2> HIDE DEF N
    <2>2. \E j \in 1..N : file[j].tag = "section" /\ Count(file, j) = c
        BY <1>1, <2>1, NumbersUsed DEF N
    <2> QED
        BY <1>1, <2>2 DEF N
<1> QED
    BY <1>4, <1>5

\* The lines that give a key a value in the section of line j.
LEMMA EntriesAre ==
    ASSUME IsFile(file), NEW j \in DOMAIN file, file[j].tag = "section", NEW key
    PROVE  Entries(j, key) = {i \in 1..Len(file) : Belongs(file, i, Count(file, j)) /\ file[i].key = key}
<1>1. DOMAIN file = 1..Len(file)
    BY LenProperties DEF IsFile
<1> QED
    BY <1>1, UnderIs DEF Entries, Belongs

LEMMA MinIs ==
    ASSUME NEW T, T \subseteq Nat, NEW a \in T, \A k \in T : a <= k
    PROVE  Min(T) = a
<1>1. \A x, y \in Nat : x <= y /\ y <= x => x = y
    OBVIOUS
<1>2. Min(T) = CHOOSE x \in T : \A y \in T : x <= y
    BY DEF Min
<1>3. \A x \in T : (\A y \in T : x <= y) => x = a
    BY <1>1
<1> QED
    BY <1>2, <1>3

\* A word is not empty.
LEMMA FirstWord ==
    ASSUME IsFile(file), NEW i \in DOMAIN file, file[i].tag = "pair", file[i].val # <<>>
    PROVE  file[i].val[1] # ""
<1> DEFINE val == file[i].val
<1>1. i \in 1..Len(file)
    BY LenProperties DEF IsFile
<1>2. IsLine(file[i])
    BY <1>1, LineTags
<1>3. val \in Seq(Range(val)) /\ "" \notin Range(val)
    BY <1>2 DEF IsLine
<1> HIDE DEF val
<1>4. val # <<>> => Len(val) \in Nat /\ Len(val) # 0 /\ DOMAIN val = 1..Len(val)
    BY <1>3, LenProperties, EmptySeq
<1>5. val # <<>> => val[1] \in Range(val)
    BY <1>4 DEF Range
<1> QED
    BY <1>3, <1>5 DEF val

\* The value written for a key that is not repeated.
LEMMA EntryIs ==
    ASSUME IsFile(file), NEW cfg, cfg = parse(file), cfg.ok,
           NEW j \in DOMAIN file, file[j].tag = "section", NEW key, ~is_multi_key(key), NEW def,
           NEW v, v = Value(cfg.sections[Count(file, j)], key)
    PROVE  Entry(j, key, def) = IF v = "" THEN def ELSE v
<1> DEFINE N == Len(file)
           c == Count(file, j)
           kv == cfg.sections[c].kv
           E == Entries(j, key)
           given == {i \in E : file[i].val # <<>>}
<1>1. N \in Nat /\ DOMAIN file = 1..N
    BY LenProperties DEF IsFile
<1>2. c \in DOMAIN cfg.sections
    BY HeadersAre
<1>3. SingleKeys(file, N, c, kv)
    BY <1>2, Sections DEF Holds
<1>4. E = {i \in 1..N : Belongs(file, i, c) /\ file[i].key = key}
    BY EntriesAre
<1>5. v = IF Get(kv, key) = <<>> THEN "" ELSE Get(kv, key)[1]
    BY DEF Value
<1>6. ASSUME NEW i \in E PROVE key \in DOMAIN kv /\ kv[key] = file[i].val /\ Get(kv, key) = file[i].val
    BY <1>3, <1>4, <1>6 DEF SingleKeys, Get
<1>7. ASSUME NEW i \in E, NEW k \in E PROVE i = k
    <2>1. i \in 1..N /\ k \in 1..N /\ Belongs(file, i, c) /\ Belongs(file, k, c)
          /\ file[i].key = key /\ file[k].key = key
        BY <1>4
    <2>2. \A m \in 1..N : ~Wrong(file, m)
        BY Sections
    <2>3. ~(i < k)
        <3> SUFFICES ASSUME i < k PROVE FALSE
            OBVIOUS
        <3>1. i \in 1..(k - 1)
            BY <1>1, <2>1
        <3> QED
            BY <2>1, <2>2, <3>1 DEF Wrong, Belongs
    <2>4. ~(k < i)
        <3> SUFFICES ASSUME k < i PROVE FALSE
            OBVIOUS
        <3>1. k \in 1..(i - 1)
            BY <1>1, <2>1
        <3> QED
            BY <2>1, <2>2, <3>1 DEF Wrong, Belongs
    <2> QED
        BY <1>1, <2>1, <2>3, <2>4
<1>8. Entry(j, key, def) = IF given = {} THEN def ELSE file[Min(given)].val[1]
    BY DEF Entry
<1> HIDE DEF N, c, kv, E
<1>9. CASE given = {}
    <2>1. v = ""
        <3>1. CASE \E i \in E : TRUE
            BY <1>5, <1>6, <1>9, <3>1
        <3>2. CASE E = {}
            <4>1. key \notin DOMAIN kv
                BY <1>3, <1>4, <3>2 DEF SingleKeys
            <4> QED
                BY <1>5, <4>1 DEF Get
        <3> QED
            BY <3>1, <3>2
    <2> QED
        BY <1>8, <1>9, <2>1
<1>10. CASE given # {}
    <2>1. PICK i \in E : file[i].val # <<>>
        BY <1>10
    <2>2. given = {i}
        BY <1>7, <2>1
    <2>3. v = file[i].val[1]
        BY <1>5, <1>6, <2>1
    <2>4. v # ""
        <3>1. i \in DOMAIN file /\ file[i].tag = "pair"
            BY <1>1, <1>4 DEF Belongs
        <3> QED
            BY <2>1, <2>3, <3>1, FirstWord
    <2>5. Min(given) = i
        <3>1. i \in Nat /\ i <= i
            BY <1>1, <1>4
        <3> HIDE DEF given
        <3> QED
            BY <2>2, <3>1, MinIs
    <2> HIDE DEF given
    <2> QED
        BY <1>8, <1>10, <2>3, <2>4, <2>5
<1> QED
    BY <1>9, <1>10

\* The stream of a [script]'s events, if a line gives it one.
LEMMA EmitsIs ==
    ASSUME IsFile(file), NEW cfg, cfg = parse(file), cfg.ok,
           NEW j \in DOMAIN file, file[j].tag = "section", NEW def,
           NEW v, v = output_stream(cfg.sections[Count(file, j)])
    PROVE  Entry(j, "emits", def) = IF v = "" THEN def ELSE v
<1> DEFINE N == Len(file)
           c == Count(file, j)
           multi == cfg.sections[c].multi
           vals == Get(multi, "emits")
           f == FlattenSeq(vals)
           E == Entries(j, "emits")
           given == {i \in E : file[i].val # <<>>}
<1>1. N \in Nat /\ DOMAIN file = 1..N
    BY LenProperties DEF IsFile
<1>2. c \in DOMAIN cfg.sections
    BY HeadersAre
<1>3. MultiKeys(file, N, c, multi)
    BY <1>2, Sections DEF Holds
<1>4. E = {i \in 1..N : Belongs(file, i, c) /\ file[i].key = "emits"}
    BY EntriesAre
<1>5. v = IF f = <<>> THEN "" ELSE f[1]
    BY DEF output_stream, get_script_emits
<1>6. Entry(j, "emits", def) = IF given = {} THEN def ELSE file[Min(given)].val[1]
    BY DEF Entry
<1>7. is_multi_key("emits")
    BY DEF is_multi_key
<1> HIDE DEF E, c, multi, f
<1>8. CASE "emits" \notin DOMAIN multi
    <2>1. vals = <<>> /\ E = {}
        BY <1>3, <1>4, <1>7, <1>8 DEF Get, MultiKeys
    <2>2. <<>> \in Seq(Seq({})) /\ Len(<<>>) = 0
        OBVIOUS
    <2> HIDE DEF vals
    <2>3. Joined(vals, {}, 0, f)
        <3>1. vals = <<>>
            BY <2>1 DEF vals
        <3> QED
            BY <2>2, <3>1, FlattenJoins DEF f
    <2>4. f = <<>>
        BY <2>3 DEF Joined
    <2> QED
        BY <1>5, <1>6, <2>1, <2>4
<1>9. CASE "emits" \in DOMAIN multi
    <2>1. PICK at : Listing(file, N, c, "emits", multi["emits"], at)
        BY <1>3, <1>9 DEF MultiKeys
    <2>2. PICK n \in Nat : at \in [1..n -> 1..N]
        BY <2>1 DEF Listing
    <2>3. vals = [m \in 1..n |-> file[at[m]].val]
        BY <1>9, <2>1, <2>2 DEF Listing, Get
    <2> HIDE DEF vals
    <2>4. \A m \in 1..n : /\ at[m] \in 1..N /\ file[at[m]].tag = "pair" /\ at[m] \in E
                         /\ vals[m] = file[at[m]].val
        BY <1>4, <2>1, <2>2, <2>3 DEF Listing, Belongs
    <2>5. vals \in Seq(Seq(Words(file))) /\ Len(vals) = n
        <3>1. ASSUME NEW m \in 1..n PROVE vals[m] \in Seq(Words(file))
            <4>1. IsLine(file[at[m]]) /\ file[at[m]].tag = "pair"
                BY <2>4, LineTags DEF N
            <4>2. vals[m] \in Seq(Range(vals[m]))
                BY <2>4, <4>1 DEF IsLine
            <4>3. Range(vals[m]) \subseteq Words(file)
                BY <2>4 DEF Words, N
            <4> QED
                BY <4>2, <4>3, SeqMonotonic
        <3> QED
            BY <2>3, <3>1, IsASeq, LenProperties
    <2>6. Joined(vals, Words(file), n, f)
        BY <2>5, FlattenJoins DEF f
    <2>7. \A i \in E : \E m \in 1..n : at[m] = i
        BY <1>4, <2>1, <2>2 DEF Listing
    <2>8. CASE \A m \in 1..n : vals[m] = <<>>
        <3>1. f = <<>> /\ given = {}
            BY <2>4, <2>6, <2>7, <2>8 DEF Joined
        <3> QED
            BY <1>5, <1>6, <3>1
    <2>9. CASE \E m \in 1..n : vals[m] # <<>>
        <3> DEFINE M == {m \in 1..n : vals[m] # <<>>}
        <3>1. PICK m \in M : \A k \in M : m <= k
            <4>1. M \subseteq Nat /\ M # {}
                BY <2>9
            <4> HIDE DEF M
            <4> QED
                BY <4>1, LeastNumber
        <3>2. m \in 1..n /\ vals[m] # <<>> /\ \A k \in 1..(m - 1) : vals[k] = <<>>
            BY <2>2, <3>1
        <3>3. f # <<>> /\ f[1] = file[at[m]].val[1]
            BY <2>4, <2>6, <3>2 DEF Joined
        <3>4. at[m] \in given
            BY <2>4, <3>2
        <3>5. ASSUME NEW i \in given PROVE at[m] <= i
            <4>1. PICK k \in 1..n : at[k] = i
                BY <2>7
            <4>2. k \in M
                BY <2>4, <4>1
            <4>3. m = k \/ m < k
                BY <3>1, <4>2
            <4> QED
                BY <2>1, <2>2, <2>4, <3>2, <4>1, <4>3 DEF Listing
        <3>6. given \subseteq Nat
            BY <1>1, <1>4
        <3>7. f[1] # ""
            BY <1>1, <2>4, <3>2, <3>3, FirstWord
        <3> HIDE DEF given
        <3>8. Min(given) = at[m]
            BY <3>4, <3>5, <3>6, MinIs
        <3> QED
            BY <1>5, <1>6, <3>3, <3>4, <3>7, <3>8
    <2> QED
        BY <2>8, <2>9
<1> QED
    BY <1>8, <1>9

\* The route table sends a stream where the lines send it.
LEMMA WrittenIs ==
    ASSUME Configured, parse(file).ok, NEW stream, NEW target
    PROVE  Written(stream, target) <=> target \in Range(Targets(stream))
<1> DEFINE cfg == parse(file)
           R == of_type(cfg, "routes")
           N == Len(file)
<1>1. IsFile(file) /\ cfg.ok
    BY FileIs
<1>2. cfg = parse(file)
    OBVIOUS
<1>3. N \in Nat /\ DOMAIN file = 1..N
    BY <1>1, LenProperties DEF IsFile
<1>4. route_table = parse_routes(cfg)
    BY DEF Configured
<1> HIDE DEF cfg
<1>5. \A c \in R : c \in DOMAIN cfg.sections /\ SingleKeys(file, N, c, cfg.sections[c].kv)
    <2>1. \A c \in DOMAIN cfg.sections : Holds(file, N, c, cfg.sections[c])
        BY <1>1, <1>2, Sections
    <2> QED
        BY <2>1 DEF of_type, Holds
<1>6. target \in Range(Targets(stream)) <=>
          \E c \in R : target \in Range(Get(cfg.sections[c].kv, stream))
    <2> DEFINE routes == RoutesOf(cfg, stream)
    <2>1. \A x : x \in Range(routes) <=> \E c \in R : x \in Range(Get(cfg.sections[c].kv, stream))
        BY <1>1, <1>2, RoutesFacts
    <2>2. Range(<<>>) = {}
        BY DEF Range
    <2>3. stream \in DOMAIN route_table => Targets(stream) = routes
        BY <1>4 DEF parse_routes, Targets, Get
    <2>4. ASSUME stream \notin DOMAIN route_table PROVE Targets(stream) = <<>> /\ Range(routes) = {}
        <3>1. Targets(stream) = <<>>
            BY <2>4 DEF Targets, Get
        <3>2. CASE routes = <<>>
            BY <2>2, <3>1, <3>2
        <3>3. CASE stream \notin UNION {DOMAIN cfg.sections[i].kv : i \in R}
            <4>1. \A c \in R : Get(cfg.sections[c].kv, stream) = <<>>
                BY <3>3 DEF Get
            <4> QED
                BY <2>1, <2>2, <3>1, <4>1
        <3> QED
            BY <1>4, <2>4, <3>2, <3>3 DEF parse_routes
    <2> HIDE DEF routes
    <2> QED
        BY <2>1, <2>2, <2>3, <2>4
<1>7. ASSUME Written(stream, target)
      PROVE  \E c \in R : target \in Range(Get(cfg.sections[c].kv, stream))
    <2>1. ~is_multi_key(stream)
        BY <1>7 DEF Written
    <2>2. PICK j \in Headers("routes") : \E i \in Entries(j, stream) : target \in Range(file[i].val)
        BY <1>7 DEF Written
    <2>3. j \in DOMAIN file /\ file[j].tag = "section" /\ file[j].name = "routes"
        BY DEF Headers
    <2>4. Count(file, j) \in R
        BY <1>1, <1>2, <2>3, HeadersAre DEF of_type
    <2>5. PICK i \in 1..N : /\ Belongs(file, i, Count(file, j)) /\ file[i].key = stream
                            /\ target \in Range(file[i].val)
        BY <1>1, <2>2, <2>3, EntriesAre
    <2>6. Get(cfg.sections[Count(file, j)].kv, stream) = file[i].val
        BY <1>5, <2>1, <2>4, <2>5 DEF SingleKeys, Get
    <2> QED
        BY <2>4, <2>5, <2>6
<1>8. ASSUME NEW c \in R, target \in Range(Get(cfg.sections[c].kv, stream))
      PROVE  Written(stream, target)
    <2>1. Range(<<>>) = {}
        BY DEF Range
    <2>2. stream \in DOMAIN cfg.sections[c].kv
        BY <1>8, <2>1 DEF Get
    <2>3. ~is_multi_key(stream)
        BY <1>5, <2>2 DEF SingleKeys
    <2>4. PICK i \in 1..N : Belongs(file, i, c) /\ file[i].key = stream
        BY <1>5, <2>2 DEF SingleKeys
    <2>5. Get(cfg.sections[c].kv, stream) = file[i].val
        BY <1>5, <2>2, <2>3, <2>4 DEF SingleKeys, Get
    <2>6. PICK j \in DOMAIN file : file[j].tag = "section" /\ Count(file, j) = c
        BY <1>1, <1>5, <1>2, HeadersAre
    <2>7. j \in Headers("routes")
        BY <1>1, <1>5, <1>2, <2>6, HeadersAre DEF Headers, of_type
    <2>8. i \in Entries(j, stream)
        BY <1>1, <2>4, <2>6, EntriesAre
    <2> QED
        BY <1>8, <2>3, <2>5, <2>7, <2>8 DEF Written
<1> QED
    BY <1>6, <1>7, <1>8

(* Whatever file the program is started with, parse() refuses it exactly if   *)
(* one of its lines is wrong, the pipeline runs exactly if some [ingestor]    *)
(* names a plugin, and the route table sends a stream where the lines of the  *)
(* [routes] sections send it (ParsedAsWritten).                               *)
THEOREM ParsedIsWritten == Spec => []ParsedAsWritten
<1>1. Base => ParsedAsWritten
    <2> SUFFICES ASSUME Configured PROVE ParsedAsWritten
        BY DEF Base
    <2> DEFINE cfg == parse(file)
    <2>1. IsFile(file)
        BY FileIs
    <2>2. DOMAIN file = 1..Len(file) /\ (cfg.ok <=> ~ \E k \in 1..Len(file) : Wrong(file, k))
        BY <2>1, Sections
    <2>3. Malformed <=> ~cfg.ok
        BY <2>1, <2>2, MalformedIs
    <2>4. status = CASE ~cfg.ok -> "refused"
                     [] cfg.ok /\ Ingestors(cfg) = {} -> "failed"
                     [] OTHER -> "running"
        BY DEF Configured
    <2>5. cfg = parse(file)
        OBVIOUS
    <2> HIDE DEF cfg
    <2>6. Malformed <=> status = "refused"
        BY <2>3, <2>4
    <2>7. ASSUME cfg.ok
          PROVE  (status = "running") = (\E j \in Headers("ingestor") : Entry(j, "plugin", "") # "")
        <3>1. ~is_multi_key("plugin")
            BY DEF is_multi_key
        <3>2. ASSUME NEW j \in DOMAIN file, file[j].tag = "section"
              PROVE  Entry(j, "plugin", "") = Value(cfg.sections[Count(file, j)], "plugin")
            <4> DEFINE v == Value(cfg.sections[Count(file, j)], "plugin")
            <4>1. v = Value(cfg.sections[Count(file, j)], "plugin")
                OBVIOUS
            <4> HIDE DEF v
            <4>2. Entry(j, "plugin", "") = IF v = "" THEN "" ELSE v
                BY <2>1, <2>7, <2>5, <3>1, <3>2, <4>1, EntryIs
            <4> QED
                BY <4>1, <4>2
        <3>3. ASSUME NEW j \in Headers("ingestor"), Entry(j, "plugin", "") # ""
              PROVE  Ingestors(cfg) # {}
            <4>1. j \in DOMAIN file /\ file[j].tag = "section" /\ file[j].name = "ingestor"
                BY DEF Headers
            <4>2. Count(file, j) \in of_type(cfg, "ingestor")
                BY <2>1, <2>7, <2>5, <4>1, HeadersAre DEF of_type
            <4>3. Count(file, j) \in Ingestors(cfg)
                BY <3>2, <3>3, <4>1, <4>2 DEF Ingestors
            <4> QED
                BY <4>3
        <3>4. ASSUME NEW c \in Ingestors(cfg)
              PROVE  \E j \in Headers("ingestor") : Entry(j, "plugin", "") # ""
            <4>1. /\ c \in DOMAIN cfg.sections /\ cfg.sections[c].type = "ingestor"
                  /\ Value(cfg.sections[c], "plugin") # ""
                BY DEF Ingestors, of_type
            <4>2. PICK j \in DOMAIN file : file[j].tag = "section" /\ Count(file, j) = c
                BY <2>1, <2>7, <2>5, <4>1, HeadersAre
            <4>3. file[j].name = "ingestor"
                BY <2>1, <2>7, <2>5, <4>1, <4>2, HeadersAre
            <4> QED
                BY <3>2, <4>1, <4>2, <4>3 DEF Headers
        <3>5. (status = "running") <=> Ingestors(cfg) # {}
            BY <2>4, <2>7
        <3> QED
            BY <3>3, <3>4, <3>5
    <2>8. ASSUME cfg.ok
          PROVE  \A stream, target : Written(stream, target) <=> target \in Range(Targets(stream))
        BY <2>8, <2>5, WrittenIs
    <2> QED
        BY <2>3, <2>6, <2>7, <2>8 DEF ParsedAsWritten
<1> QED
    BY <1>1, BaseHolds, PTL

-----------------------------------------------------------------------------
(* Every event arrives.                                                    *)

\* The stream on which a script's events come out, and that of the events of source
\* s that came through path p.
OutName(id) ==
    LET name == output_stream(Section_of(WorkerOf(id)))
    IN IF name = "" THEN RawName(WorkerOf(id)) ELSE name

StreamAt(s, p) == IF p = <<>> THEN SourceStream(s) ELSE OutName(p[Len(p)])
NextOf(s, p) == Range(Targets(StreamAt(s, p)))

\* The tables lead the events of s along p.
Leads(s, p) ==
    \A k \in DOMAIN p :
        p[k] \in Range(Targets(IF k = 1 THEN SourceStream(s) ELSE OutName(p[k - 1])))

LEMMA LeadsFirst == \A s : Leads(s, <<>>)
BY DEF Leads

LEMMA LeadsAppend ==
    ASSUME NEW s, NEW p \in Paths, NEW x \in DOMAIN handlers
    PROVE  Leads(s, Append(p, x)) <=> Leads(s, p) /\ x \in NextOf(s, p)
<1> DEFINE n == Len(p)
           q == Append(p, x)
<1>1. /\ n \in Nat /\ DOMAIN p = 1..n /\ DOMAIN q = 1..(n + 1)
      /\ q[n + 1] = x /\ \A k \in 1..n : q[k] = p[k]
    BY AppendProperties, LenProperties DEF Paths
<1>2. p = <<>> <=> n = 0
    BY EmptySeq DEF Paths
<1> HIDE DEF q
<1>3. x \in NextOf(s, p) <=>
          q[n + 1] \in Range(Targets(IF n + 1 = 1 THEN SourceStream(s) ELSE OutName(q[n + 1 - 1])))
    <2>1. CASE n = 0
        BY <1>1, <1>2, <2>1 DEF NextOf, StreamAt
    <2>2. CASE n # 0
        <3>1. n + 1 # 1 /\ n + 1 - 1 = n /\ n \in 1..n /\ q[n] = p[n]
            BY <1>1, <2>2
        <3> QED
            BY <1>1, <1>2, <2>2, <3>1 DEF NextOf, StreamAt
    <2> QED
        BY <2>1, <2>2
<1>4. ASSUME NEW k \in 1..n
      PROVE  (IF k = 1 THEN SourceStream(s) ELSE OutName(q[k - 1]))
                = (IF k = 1 THEN SourceStream(s) ELSE OutName(p[k - 1]))
    <2>1. k # 1 => k - 1 \in 1..n
        BY <1>1
    <2> QED
        BY <1>1, <2>1
<1>5. ASSUME Leads(s, q) PROVE Leads(s, p) /\ x \in NextOf(s, p)
    <2>1. x \in NextOf(s, p)
        <3> DEFINE before(k) == IF k = 1 THEN SourceStream(s) ELSE OutName(q[k - 1])
        <3>1. n + 1 \in DOMAIN q
            BY <1>1
        <3>2. \A k \in DOMAIN q : q[k] \in Range(Targets(before(k)))
            BY <1>5 DEF Leads
        <3>3. x \in NextOf(s, p) <=> q[n + 1] \in Range(Targets(before(n + 1)))
            BY <1>3
        <3> HIDE DEF before
        <3> QED
            BY <3>1, <3>2, <3>3
    <2>2. ASSUME NEW k \in 1..n
          PROVE  p[k] \in Range(Targets(IF k = 1 THEN SourceStream(s) ELSE OutName(p[k - 1])))
        <3>1. k \in DOMAIN q
            BY <1>1
        <3> QED
            BY <1>1, <1>4, <1>5, <3>1 DEF Leads
    <2> QED
        BY <1>1, <2>1, <2>2 DEF Leads
<1>6. ASSUME Leads(s, p), x \in NextOf(s, p) PROVE Leads(s, q)
    <2> SUFFICES ASSUME NEW k \in 1..(n + 1)
                 PROVE  q[k] \in Range(Targets(IF k = 1 THEN SourceStream(s) ELSE OutName(q[k - 1])))
        BY <1>1 DEF Leads
    <2>1. CASE k = n + 1
        BY <1>3, <1>6, <2>1
    <2>2. CASE k \in 1..n
        BY <1>1, <1>4, <1>6, <2>2 DEF Leads
    <2> QED
        BY <1>1, <2>1, <2>2
<1> QED
    BY <1>5, <1>6 DEF q

LEMMA StationIs ==
    ASSUME Tables, NEW s \in Sources, NEW p \in Paths
    PROVE  Station(s, p) \in Threads
<1>1. s \in Threads
    BY DEF Threads
<1>2. CASE p # <<>>
    <2>1. Len(p) \in DOMAIN p
        BY <1>2, LenProperties, EmptySeq DEF Paths
    <2>2. p[Len(p)] \in DOMAIN handlers
        BY <2>1, ElementOfSeq, LenProperties DEF Paths
    <2> QED
        BY <1>1, <1>2, <2>2, WorkerExists DEF Station, Threads
<1> QED
    BY <1>1, <1>2 DEF Station

LEMMA HistoryIs ==
    \A h \in Hists : h = History(h.src, h.n, h.path)
BY DEF Hists, History

\* Events are only where the tables lead them, and on no endless way.
MarksRight(W) ==
    \E bound \in Nat : \A s \in Sources, p \in Paths :
        Mark(W, s, p) # 0 => Leads(s, p) /\ Len(p) <= bound

EndpointsRight(r) ==
    \A id \in DOMAIN endpoints : \A h \in HistsOf(r[id]) :
        id \in NextOf(h.src, h.path) /\ id \notin DOMAIN handlers

QueuesRight(q) ==
    \A w \in Workers : \A h \in HistsOf(q[w]) : IdOfWorker(w) \in NextOf(h.src, h.path)

OutsRight(o) ==
    \A w \in Workers :
        /\ \A h \in HistsOf(o[w]) : Leads(h.src, h.path)
        /\ \A i \in DOMAIN o[w] : o[w][i].ev.stream_id = RawName(w)

JobsRight(j) ==
    \A t \in Threads :
        j[t].todo # <<>> => Range(j[t].todo) \subseteq NextOf(j[t].hist.src, j[t].hist.path)

\* The event of history h has target x ahead of it, in a thread with job_t, or behind it.
Ahead(job_t, h, x) == job_t.hist = h /\ x \in Range(job_t.todo)

Behind(W, h, x, r, q, o) ==
    \/ x \notin DOMAIN endpoints \cup DOMAIN handlers
    \/ x \in DOMAIN endpoints \ DOMAIN handlers /\ h \in HistsOf(r[x])
    \/ /\ x \in DOMAIN handlers
       /\ \/ h \in HistsOf(q[WorkerOf(x)])
          \/ History(h.src, h.n, Append(h.path, x)) \in HistsOf(o[WorkerOf(x)])
          \/ h.n <= Mark(W, h.src, Append(h.path, x))

\* Every event has every target ahead of it or behind it.
NoneMissed(W, r, q, o, j) ==
    \A s \in Sources, p \in Paths : \A n \in 1..Mark(W, s, p) : \A x \in NextOf(s, p) :
        \/ Ahead(j[Station(s, p)], History(s, n, p), x)
        \/ Behind(W, History(s, n, p), x, r, q, o)

Routed(W, r, q, o, j) ==
    /\ MarksRight(W) /\ EndpointsRight(r) /\ QueuesRight(q) /\ OutsRight(o) /\ JobsRight(j)
    /\ NoneMissed(W, r, q, o, j)

\* A thread takes its next target, and has that behind it.
LEMMA RoutedNext ==
    ASSUME Base, NEW t \in Threads, ~Idle(t), Next_target(t),
           NEW W, JobsRight(job), NoneMissed(W, received, queue, outs, job), NEW r, NEW q, NEW o,
           \A h, x : Behind(W, h, x, received, queue, outs) => Behind(W, h, x, r, q, o),
           Behind(W, job[t].hist, Target(t), r, q, o)
    PROVE  JobsRight(job') /\ NoneMissed(W, r, q, o, job')
<1> DEFINE old == job[t].todo
           new == job'[t].todo
<1>1. /\ job'[t].hist = job[t].hist /\ new = Tail(old)
      /\ \A u \in Threads : u # t => job'[u] = job[u]
    BY NextTarget
<1>2. Tables /\ old \in Seq(TargetNames) /\ old # <<>> /\ Target(t) = Head(old)
    BY TablesFollow, JobFields DEF Base, Shapes, Idle, Target
<1> HIDE DEF old, new
<1>3. Range(new) \subseteq Range(old)
    BY <1>1, <1>2, OnceTail
<1>4. \A x \in Range(old) : x = Target(t) \/ x \in Range(new)
    <2>1. Range(old) = Range(new) \cup {Head(old)}
        BY <1>1, <1>2, OnceTail
    <2> QED
        BY <1>2, <2>1
<1>5. JobsRight(job')
    BY <1>1, <1>2, <1>3 DEF JobsRight, old, new
<1>6. ASSUME NEW u \in Threads, NEW h, NEW x, Ahead(job[u], h, x)
      PROVE  Ahead(job'[u], h, x) \/ Behind(W, h, x, r, q, o)
    BY <1>1, <1>4, <1>6 DEF Ahead, old, new
<1>7. \A s \in Sources, p \in Paths : Station(s, p) \in Threads
    BY <1>2, StationIs
<1> QED
    BY <1>5, <1>6, <1>7 DEF NoneMissed

LEMMA RoutedUnknown ==
    ASSUME Base, NEW t \in Threads, Unknown(t), NEW W, Routed(W, received, queue, outs, job)
    PROVE  Routed(W, received', queue', outs', job')
<1>1. ~Idle(t) /\ Next_target(t) /\ UNCHANGED <<queue, outs, received>>
    BY DEF Unknown, scriptVars
<1>2. Behind(W, job[t].hist, Target(t), received, queue, outs)
    BY DEF Unknown, Behind
<1>3. JobsRight(job') /\ NoneMissed(W, received, queue, outs, job')
    BY <1>1, <1>2, RoutedNext DEF Routed
<1> QED
    BY <1>1, <1>3 DEF Routed

\* The target of a thread in route() is one that the tables give.
LEMMA TargetIs ==
    ASSUME Base, NEW t \in Threads, ~Idle(t), JobsRight(job)
    PROVE  /\ [ev |-> job[t].ev, hist |-> job[t].hist] \in Mail /\ job[t].hist \in Hists
           /\ Target(t) \in NextOf(job[t].hist.src, job[t].hist.path)
<1> DEFINE m == [ev |-> job[t].ev, hist |-> job[t].hist]
           todo == job[t].todo
<1>1. Shapes /\ todo # <<>>
    BY DEF Base, Idle
<1>2. m \in Mail /\ todo \in Seq(TargetNames) /\ m.hist = job[t].hist
    BY <1>1, JobFields DEF Shapes
<1> HIDE DEF m, todo
<1>3. m.hist \in Hists
    BY <1>2 DEF Mail
<1>4. Head(todo) \in Range(todo)
    BY <1>1, <1>2, OnceTail
<1> QED
    BY <1>1, <1>2, <1>3, <1>4 DEF JobsRight, Target, m, todo

LEMMA RoutedEnqueue ==
    ASSUME Base, NEW t \in Threads, Enqueue(t), NEW W, Routed(W, received, queue, outs, job)
    PROVE  Routed(W, received', queue', outs', job')
<1> DEFINE x == Target(t)
           w == WorkerOf(x)
           m == [ev |-> job[t].ev, hist |-> job[t].hist]
           h == job[t].hist
<1>1. ~Idle(t) /\ x \in DOMAIN handlers /\ Next_target(t)
      /\ queue' = [queue EXCEPT ![w] = Append(@, m)]
      /\ UNCHANGED <<outs, received>>
    BY DEF Enqueue, WorkerOf
<1>2. Shapes /\ Tables
    BY TablesFollow DEF Base
<1>3. w \in Workers /\ IdOfWorker(w) = x
    BY <1>1, <1>2, WorkerExists
<1>4. m \in Mail /\ m.hist = h /\ h \in Hists /\ x \in NextOf(h.src, h.path)
    BY <1>1, TargetIs DEF Routed
<1> HIDE DEF m
<1>5. queue[w] \in Seq(Mail) /\ queue'[w] = Append(queue[w], m)
      /\ \A u \in Workers : u # w => queue'[u] = queue[u]
    BY <1>1, <1>2, <1>3 DEF Shapes
<1> HIDE DEF w, h, x
<1>6. HistsOf(queue'[w]) = HistsOf(queue[w]) \cup {h}
    <2> DEFINE old == queue[w]
               new == queue'[w]
    <2>1. old \in Seq(Mail) /\ new = Append(old, m)
        BY <1>5
    <2> HIDE DEF old, new
    <2>2. OneMore(HistsOf(new), HistsOf(old), m.hist)
        BY <1>4, <2>1, HistsAppend
    <2> QED
        BY <1>4, <2>2 DEF old, new, OneMore
<1>7. QueuesRight(queue')
    BY <1>3, <1>4, <1>5, <1>6 DEF Routed, QueuesRight
<1>8. \A u \in Workers : HistsOf(queue[u]) \subseteq HistsOf(queue'[u])
    BY <1>5, <1>6
<1>9. \A g, y : Behind(W, g, y, received, queue, outs) => Behind(W, g, y, received, queue', outs)
    <2>1. \A y \in DOMAIN handlers : WorkerOf(y) \in Workers
        BY <1>2, WorkerExists
    <2> QED
        BY <1>8, <2>1 DEF Behind
<1>10. Behind(W, h, x, received, queue', outs)
    BY <1>1, <1>6 DEF Behind, w, x
<1>11. JobsRight(job') /\ NoneMissed(W, received, queue', outs, job')
    BY <1>1, <1>9, <1>10, RoutedNext DEF Routed, h, x
<1> QED
    BY <1>1, <1>7, <1>11 DEF Routed

LEMMA RoutedPublishTo ==
    ASSUME Base, NEW t \in Threads, PublishTo(t), NEW W, Routed(W, received, queue, outs, job)
    PROVE  Routed(W, received', queue', outs', job')
<1> DEFINE x == Target(t)
           m == [ev |-> job[t].ev, hist |-> job[t].hist]
           h == job[t].hist
<1>1. /\ ~Idle(t) /\ x \in DOMAIN endpoints \ DOMAIN handlers /\ Next_target(t)
      /\ received' = [received EXCEPT ![x] = Append(@, m)] /\ UNCHANGED <<queue, outs>>
    BY DEF PublishTo, AtEndpoint, scriptVars
<1>2. Shapes
    BY DEF Base
<1>3. m \in Mail /\ m.hist = h /\ h \in Hists /\ x \in NextOf(h.src, h.path)
    BY <1>1, TargetIs DEF Routed
<1> HIDE DEF m
<1>4. received[x] \in Seq(Mail) /\ received'[x] = Append(received[x], m)
      /\ \A y \in DOMAIN endpoints : y # x => received'[y] = received[y]
    BY <1>1, <1>2 DEF Shapes
<1> HIDE DEF h, x
<1>5. HistsOf(received'[x]) = HistsOf(received[x]) \cup {h}
    <2> DEFINE old == received[x]
               new == received'[x]
    <2>1. old \in Seq(Mail) /\ new = Append(old, m)
        BY <1>4
    <2> HIDE DEF old, new
    <2>2. OneMore(HistsOf(new), HistsOf(old), m.hist)
        BY <1>3, <2>1, HistsAppend
    <2> QED
        BY <1>3, <2>2 DEF old, new, OneMore
<1>6. EndpointsRight(received')
    BY <1>1, <1>3, <1>4, <1>5 DEF Routed, EndpointsRight
<1>7. \A y \in DOMAIN endpoints : HistsOf(received[y]) \subseteq HistsOf(received'[y])
    BY <1>4, <1>5
<1>8. \A g, y : Behind(W, g, y, received, queue, outs) => Behind(W, g, y, received', queue, outs)
    BY <1>7 DEF Behind
<1>9. Behind(W, h, x, received', queue, outs)
    BY <1>1, <1>5 DEF Behind
<1>10. JobsRight(job') /\ NoneMissed(W, received', queue, outs, job')
    BY <1>1, <1>8, <1>9, RoutedNext DEF Routed, h, x
<1> QED
    BY <1>1, <1>6, <1>10 DEF Routed

\* An event that is in a queue or an endpoint got there along its path.
LEMMA MarksLead ==
    ASSUME NEW W \in Marks, MarksRight(W), NEW h \in Hists, h.n <= Mark(W, h.src, h.path)
    PROVE  Leads(h.src, h.path)
<1>1. h.src \in Sources /\ h.path \in Paths /\ h.n \in Nat /\ h.n # 0
    BY DEF Hists
<1>2. Mark(W, h.src, h.path) \in Nat
    BY <1>1, MarkType
<1>3. Mark(W, h.src, h.path) # 0
    BY <1>1, <1>2
<1> QED
    BY <1>1, <1>3 DEF MarksRight

LEMMA RoutedInvoke ==
    ASSUME Base, Fits, NEW w \in Workers, Invoke(w),
           NEW W, Ordered(W, received, queue, outs, job, sent),
           Routed(W, received, queue, outs, job)
    PROVE  Routed(W, received', queue', outs', job')
<1> DEFINE first == Head(queue[w])
           rest == Tail(queue[w])
           g0 == first.hist
           id == IdOfWorker(w)
           made == [src |-> g0.src, n |-> g0.n, path |-> Append(g0.path, id)]
<1>1. UNCHANGED <<job, sent, received>> /\ Shapes /\ Tables
    BY TablesFollow DEF Invoke, Base
<1>2. /\ outs[w] = <<>> /\ Answers(w) /\ queue[w] \in Seq(Mail) /\ queue[w] # <<>> /\ first \in Mail
      /\ queue' = [queue EXCEPT ![w] = Tail(@)]
    BY InvokeIs
<1>3. PICK m \in Mail :
         /\ outs' = [outs EXCEPT ![w] = <<m>>]
         /\ m.ev.stream_id = RawName(w) /\ m.hist = Through(w, g0)
    BY InvokeIs
<1>4. g0 \in Hists
    BY <1>2 DEF Mail
<1>5. id \in DOMAIN handlers /\ WorkerOf(id) = w
    BY <1>2, AnswersIs
<1>6. OneMore(HistsOf(queue[w]), HistsOf(rest), g0)
    BY <1>2, HistsTail
<1>7. /\ queue'[w] = rest /\ outs'[w] = <<m>>
      /\ \A u \in Workers : u # w => queue'[u] = queue[u] /\ outs'[u] = outs[u]
    BY <1>1, <1>2, <1>3 DEF Shapes
<1>8. m.hist = made
    BY <1>3, <1>4, ThroughIs DEF IdOfWorker
<1>9. made.src = g0.src /\ made.n = g0.n /\ made.path = Append(g0.path, id)
      /\ made = History(g0.src, g0.n, Append(g0.path, id))
    BY DEF History
<1>10. /\ g0 \in HistsOf(queue[w]) /\ HistsOf(queue[w]) = HistsOf(rest) \cup {g0}
       /\ g0.path \in Paths
    BY <1>4, <1>6 DEF OneMore, Hists
<1> HIDE DEF made, rest, g0, first
<1>11. HistsOf(outs'[w]) = {made} /\ HistsOf(outs[w]) = {}
    BY <1>2, <1>7, <1>8, HistsOfOne
<1>12. Leads(g0.src, g0.path)
    <2>1. W \in Marks /\ g0.n <= Mark(W, g0.src, g0.path)
        BY <1>10 DEF Ordered, MarksFall, QueuesInOrder, QueueInOrder
    <2> QED
        BY <1>4, <2>1, MarksLead DEF Routed, g0
<1>13. id \in NextOf(g0.src, g0.path)
    BY <1>10 DEF Routed, QueuesRight
<1>14. Leads(made.src, made.path)
    <2> DEFINE p == g0.path
               s == g0.src
    <2>1. id \in DOMAIN handlers /\ p \in Paths /\ Leads(s, p) /\ id \in NextOf(s, p)
        BY <1>5, <1>10, <1>12, <1>13
    <2> HIDE DEF p, s, id
    <2>2. Leads(s, Append(p, id))
        BY <2>1, LeadsAppend
    <2> QED
        BY <1>9, <2>2 DEF p, s
<1>15. QueuesRight(queue')
    <2>1. \A h \in HistsOf(queue'[w]) : h \in HistsOf(queue[w])
        BY <1>7, <1>10
    <2> QED
        BY <1>7, <2>1 DEF Routed, QueuesRight
<1>16. OutsRight(outs')
    <2>1. \A i \in DOMAIN outs'[w] : outs'[w][i].ev.stream_id = RawName(w)
        <3>1. DOMAIN <<m>> = 1..1 /\ <<m>>[1] = m
            OBVIOUS
        <3> QED
            BY <1>3, <1>7, <3>1
    <2> QED
        BY <1>7, <1>11, <1>14, <2>1 DEF Routed, OutsRight
<1>17. ASSUME NEW h, h = History(h.src, h.n, h.path), NEW x,
              Behind(W, h, x, received, queue, outs)
       PROVE  Behind(W, h, x, received, queue', outs')
    <2>1. CASE x \in DOMAIN handlers /\ WorkerOf(x) = w
        <3>1. x = id
            BY <1>1, <2>1, WorkersOf
        <3>2. h \in HistsOf(queue[w]) => h \in HistsOf(rest) \/ h = g0
            BY <1>10
        <3>3. h = g0 => History(h.src, h.n, Append(h.path, x)) \in HistsOf(outs'[w])
            BY <1>9, <1>11, <3>1
        <3> QED
            BY <1>7, <1>11, <1>17, <2>1, <3>2, <3>3 DEF Behind
    <2>2. CASE ~(x \in DOMAIN handlers /\ WorkerOf(x) = w)
        <3>1. x \in DOMAIN handlers => WorkerOf(x) \in Workers
            BY <1>1, WorkersOf
        <3> QED
            BY <1>7, <1>17, <2>2, <3>1 DEF Behind
    <2> QED
        BY <2>1, <2>2
<1>18. NoneMissed(W, received, queue', outs', job)
    <2>1. \A s, n, p : LET h == History(s, n, p) IN h = History(h.src, h.n, h.path)
        BY DEF History
    <2> QED
        BY <1>17, <2>1 DEF Routed, NoneMissed
<1> QED
    BY <1>1, <1>15, <1>16, <1>18 DEF Routed

\* Thread t enters route() with h, the event after the last of its chain.
Follows(W, t, e, h, o) ==
    /\ t \in Threads /\ Idle(t) /\ t = Station(h.src, h.path)
    /\ h \in Hists /\ Leads(h.src, h.path) /\ e.stream_id = StreamAt(h.src, h.path)
    /\ h.n = Mark(W, h.src, h.path) + 1
    /\ job' = [job EXCEPT ![t] = [ev |-> e, hist |-> h, todo |-> Targets(e.stream_id)]]
    /\ OutsRight(o) /\ \A u \in Workers : HistsOf(outs[u]) \subseteq HistsOf(o[u]) \cup {h}

LEMMA RoutedEnter ==
    ASSUME Base, NEW W \in Marks, Routed(W, received, queue, outs, job),
           NEW t, NEW e, NEW h, NEW o, Follows(W, t, e, h, o),
           NEW V, Marked(V, W, h.src, h.path, h.n)
    PROVE  Routed(V, received, queue, o, job')
<1> USE DEF Follows
<1>1. Shapes /\ Tables
    BY TablesFollow DEF Base
<1>2. h.src \in Sources /\ h.path \in Paths /\ h.n \in Nat \ {0} /\ h = History(h.src, h.n, h.path)
    BY HistoryIs DEF Hists
<1>3. /\ V \in Marks /\ Mark(V, h.src, h.path) = h.n
      /\ \A s \in Sources, p \in Paths :
            s # h.src \/ p # h.path => Mark(V, s, p) = Mark(W, s, p)
    BY DEF Marked
<1>4. \A s \in Sources, p \in Paths : Mark(W, s, p) \in Nat /\ Mark(V, s, p) \in Nat
    BY <1>3, MarkType
<1>5. \A s \in Sources, p \in Paths : Mark(W, s, p) <= Mark(V, s, p)
    <2> SUFFICES ASSUME NEW s \in Sources, NEW p \in Paths PROVE Mark(W, s, p) <= Mark(V, s, p)
        OBVIOUS
    <2>1. CASE s = h.src /\ p = h.path
        BY <1>2, <1>3, <1>4, <2>1
    <2>2. CASE s # h.src \/ p # h.path
        BY <1>3, <1>4, <2>2
    <2> QED
        BY <2>1, <2>2
<1>6. /\ job'[t].hist = h /\ job'[t].todo = Targets(StreamAt(h.src, h.path))
      /\ \A u \in Threads : u # t => job'[u] = job[u]
    BY <1>1 DEF Shapes
<1>7. MarksRight(V)
    <2>1. PICK bound \in Nat : \A s \in Sources, p \in Paths :
              Mark(W, s, p) # 0 => Leads(s, p) /\ Len(p) <= bound
        BY DEF Routed, MarksRight
    <2>2. \A p \in Paths : Len(p) \in Nat
        BY LenProperties DEF Paths
    <2> DEFINE new == bound + Len(h.path)
    <2>3. new \in Nat
        BY <1>2, <2>2
    <2>4. ASSUME NEW s \in Sources, NEW p \in Paths, Mark(V, s, p) # 0
          PROVE  Leads(s, p) /\ Len(p) <= new
        <3>1. CASE s = h.src /\ p = h.path
            BY <1>2, <2>2, <3>1
        <3>2. CASE s # h.src \/ p # h.path
            BY <1>2, <1>3, <2>1, <2>2, <2>4, <3>2
        <3> QED
            BY <3>1, <3>2
    <2> HIDE DEF new
    <2> QED
        BY <2>3, <2>4 DEF MarksRight
<1>8. JobsRight(job')
    <2>1. Range(job'[t].todo) = NextOf(job'[t].hist.src, job'[t].hist.path)
        BY <1>6 DEF NextOf
    <2> QED
        BY <1>6, <2>1 DEF Routed, JobsRight
<1>9. ASSUME NEW s \in Sources, NEW p \in Paths, NEW n \in Nat, NEW x,
             Behind(W, History(s, n, p), x, received, queue, outs)
      PROVE  Behind(V, History(s, n, p), x, received, queue, o)
    <2> DEFINE g == History(s, n, p)
    <2>1. g.src = s /\ g.n = n /\ g.path = p
        BY DEF History
    <2>2. Behind(W, g, x, received, queue, outs)
        BY <1>9
    <2> HIDE DEF g
    <2>3. ASSUME x \in DOMAIN handlers, History(s, n, Append(p, x)) \in HistsOf(outs[WorkerOf(x)])
          PROVE  \/ History(s, n, Append(p, x)) \in HistsOf(o[WorkerOf(x)])
                 \/ n <= Mark(V, s, Append(p, x))
        <3>1. WorkerOf(x) \in Workers
            BY <1>1, <2>3, WorkerExists
        <3>2. History(s, n, Append(p, x)) = h => s = h.src /\ n = h.n /\ Append(p, x) = h.path
            BY DEF History
        <3>3. n <= n
            OBVIOUS
        <3> QED
            BY <1>3, <2>3, <3>1, <3>2, <3>3
    <2>4. ASSUME x \in DOMAIN handlers, n <= Mark(W, s, Append(p, x))
          PROVE  n <= Mark(V, s, Append(p, x))
        <3>1. Append(p, x) \in Paths
            BY <2>4, PathsAppend
        <3> DEFINE a == Mark(W, s, Append(p, x))
                   b == Mark(V, s, Append(p, x))
        <3>2. n <= a /\ a <= b /\ a \in Nat /\ b \in Nat
            BY <1>4, <1>5, <2>4, <3>1
        <3> HIDE DEF a, b
        <3>3. n <= b
            BY <3>2
        <3> QED
            BY <3>3 DEF b
    <2>5. Behind(V, g, x, received, queue, o)
        BY <2>1, <2>2, <2>3, <2>4 DEF Behind
    <2> QED
        BY <2>5 DEF g
<1>10. \A g, x : ~Ahead(job[t], g, x)
    BY DEF Ahead, Idle, Range
<1>11. NoneMissed(V, received, queue, o, job')
    <2> SUFFICES ASSUME NEW s \in Sources, NEW p \in Paths, NEW n \in 1..Mark(V, s, p), NEW x \in NextOf(s, p)
                 PROVE  \/ Ahead(job'[Station(s, p)], History(s, n, p), x)
                        \/ Behind(V, History(s, n, p), x, received, queue, o)
        BY DEF NoneMissed
    <2>1. n \in Nat /\ n # 0 /\ n <= Mark(V, s, p)
        BY <1>4
    <2>2. Station(s, p) \in Threads
        BY <1>1, StationIs
    <2>3. CASE n <= Mark(W, s, p)
        <3>1. n \in 1..Mark(W, s, p)
            BY <1>4, <2>1, <2>3
        <3>2. \/ Ahead(job[Station(s, p)], History(s, n, p), x)
              \/ Behind(W, History(s, n, p), x, received, queue, outs)
            BY <3>1 DEF Routed, NoneMissed
        <3>3. CASE Behind(W, History(s, n, p), x, received, queue, outs)
            BY <1>9, <2>1, <3>3
        <3>4. CASE Ahead(job[Station(s, p)], History(s, n, p), x)
            BY <1>6, <1>10, <2>2, <3>4
        <3> QED
            BY <3>2, <3>3, <3>4
    <2>4. CASE ~(n <= Mark(W, s, p))
        <3>1. s = h.src /\ p = h.path
            BY <1>3, <2>1, <2>4
        <3>2. n = h.n
            BY <1>2, <1>3, <1>4, <2>1, <2>4, <3>1
        <3>3. x \in Range(job'[t].todo)
            BY <1>6, <3>1 DEF NextOf
        <3> QED
            BY <1>2, <1>6, <3>1, <3>2, <3>3 DEF Ahead
    <2> QED
        BY <2>3, <2>4
<1> QED
    BY <1>7, <1>8, <1>11 DEF Routed

LEMMA RoutedEmit ==
    ASSUME Base, NEW t \in Sources, Emit(t),
           NEW W, Ordered(W, received, queue, outs, job, sent),
           Routed(W, received, queue, outs, job),
           NEW V, Marked(V, W, t, <<>>, sent[t] + 1)
    PROVE  Routed(V, received', queue', outs', job')
<1> DEFINE k == sent[t] + 1
           h == History(t, k, <<>>)
           e == Emission(t, k)
<1>1. Shapes /\ Tables
    BY TablesFollow DEF Base
<1>2. /\ Idle(t) /\ UNCHANGED <<received, queue, outs>>
      /\ job' = [job EXCEPT ![t] = [ev |-> e, hist |-> h, todo |-> Targets(e.stream_id)]]
    BY DEF Emit, Enter, scriptVars
<1>3. k \in Nat \ {0}
    BY <1>1 DEF Shapes
<1>4. e.stream_id = SourceStream(t)
    BY <1>1, <1>3, EmissionIs
<1>5. W \in Marks /\ Mark(W, t, <<>>) + 1 = k
    BY DEF Ordered, MarksFall
<1>6. Marked(V, W, t, <<>>, k)
    OBVIOUS
<1> HIDE DEF k, e
<1>7. h.src = t /\ h.n = k /\ h.path = <<>> /\ h \in Hists
    BY <1>3 DEF History, Hists, Paths
<1> HIDE DEF h
<1>8. t \in Threads /\ t = Station(h.src, h.path) /\ e.stream_id = StreamAt(h.src, h.path)
    BY <1>4, <1>7 DEF Threads, Station, StreamAt
<1>9. Follows(W, t, e, h, outs)
    BY <1>2, <1>5, <1>7, <1>8, LeadsFirst DEF Follows, Routed
<1>10. Routed(V, received, queue, outs, job')
    BY <1>5, <1>6, <1>7, <1>9, RoutedEnter
<1> QED
    BY <1>2, <1>10

LEMMA RoutedReroute ==
    ASSUME Base, NEW w \in Workers, Reroute(w),
           NEW W, Ordered(W, received, queue, outs, job, sent),
           Routed(W, received, queue, outs, job),
           NEW m, m = Head(outs[w]), NEW V, Marked(V, W, m.hist.src, m.hist.path, m.hist.n)
    PROVE  Routed(V, received', queue', outs', job')
<1> DEFINE h == m.hist
           id == IdOfWorker(w)
           s == h.src
           n == h.n
<1>1. Shapes /\ Tables /\ UNCHANGED <<queue, received>>
    BY TablesFollow DEF Base, Reroute
<1>2. /\ Idle(w) /\ outs[w] \in Seq(Mail) /\ outs[w] # <<>> /\ Answers(w)
      /\ m \in Mail /\ outs' = [outs EXCEPT ![w] = Tail(@)]
    BY RerouteIs
<1>3. PICK e : /\ e.stream_id = IF output_stream(Section_of(w)) = "" THEN m.ev.stream_id
                                ELSE output_stream(Section_of(w))
               /\ job' = [job EXCEPT ![w] = [ev |-> e, hist |-> h, todo |-> Targets(e.stream_id)]]
    BY RerouteIs
<1>4. W \in Marks /\ OutsInOrder(W, queue, outs) /\ JobsInOrder(W, received, queue, outs, job)
    BY DEF Ordered, MarksFall
<1>5. HistsOf(outs[w]) = {h} /\ outs'[w] = <<>> /\ 1 \in DOMAIN outs[w] /\ outs[w][1] = m
    <2> DEFINE out == outs[w]
    <2>1. out \in Seq(Mail) /\ out # <<>> /\ Len(out) <= 1 /\ m = Head(out)
        BY <1>2, <1>4 DEF OutsInOrder
    <2>2. outs'[w] = Tail(out)
        BY <1>1, <1>2 DEF Shapes
    <2> HIDE DEF out
    <2>3. Len(out) \in Nat /\ Len(out) # 0 /\ DOMAIN out = 1..Len(out) /\ Head(out) = out[1]
          /\ Tail(out) \in Seq(Mail) /\ Len(Tail(out)) = Len(out) - 1
        BY <2>1, LenProperties, EmptySeq, HeadTailProperties
    <2>4. Len(out) = 1
        BY <2>1, <2>3
    <2>5. DOMAIN out = {1} /\ out[1] = m
        BY <2>1, <2>3, <2>4
    <2>6. Len(Tail(out)) = 0 /\ Tail(out) \in Seq(Mail)
        BY <2>3, <2>4
    <2>7. Tail(out) = <<>>
        BY <2>6, EmptySeq
    <2> QED
        BY <2>2, <2>5, <2>7 DEF HistsOf, out
<1>6. id \in DOMAIN handlers /\ WorkerOf(id) = w
    BY <1>2, AnswersIs
<1>7. \A u \in Workers : u # w => outs'[u] = outs[u]
    BY <1>1, <1>2 DEF Shapes
<1>8. h \in Hists
    BY <1>2 DEF Mail
<1>9. m.ev.stream_id = RawName(w) /\ Leads(h.src, h.path)
    BY <1>5 DEF Routed, OutsRight
<1>10. PICK p \in Paths : MadeOf(W, w, h, p, queue[w])
    BY <1>4, <1>5 DEF OutsInOrder
<1>11. /\ h.path = Append(p, id) /\ Mark(W, s, h.path) < n /\ n <= Mark(W, s, p)
       /\ \A g \in HistsOf(queue[w]) : g.src = s /\ g.path = p => n < g.n
    BY <1>10 DEF MadeOf
<1>12. s \in Sources /\ h.path \in Paths /\ n \in Nat
    BY <1>8 DEF Hists
<1>13. h.path # <<>> /\ h.path[Len(h.path)] = id
    BY <1>6, <1>10, <1>11, PathsAppend
<1>14. e.stream_id = StreamAt(h.src, h.path)
    BY <1>3, <1>6, <1>9, <1>13 DEF StreamAt, OutName
<1>15. w \in Threads /\ w = Station(h.src, h.path)
    BY <1>6, <1>13 DEF Threads, Station
<1> HIDE DEF h, id, s, n
<1>16. id \in NextOf(s, p)
    <2>1. Leads(s, Append(p, id))
        BY <1>9, <1>11 DEF s
    <2> QED
        BY <1>6, <1>10, <2>1, LeadsAppend
<1>17. ASSUME NEW k \in Nat, Mark(W, s, h.path) < k, k < n PROVE FALSE
    <2> DEFINE g == History(s, k, p)
    <2>1. Mark(W, s, p) \in Nat /\ Mark(W, s, h.path) \in Nat
        BY <1>4, <1>10, <1>12, MarkType
    <2>2. k \in 1..Mark(W, s, p)
        BY <1>11, <1>12, <1>17, <2>1
    <2>3. \/ Ahead(job[Station(s, p)], g, id)
          \/ Behind(W, g, id, received, queue, outs)
        BY <1>10, <1>12, <1>16, <2>2 DEF Routed, NoneMissed
    <2>4. g.src = s /\ g.n = k /\ g.path = p
        BY DEF History
    <2> HIDE DEF g
    <2>5. CASE Ahead(job[Station(s, p)], g, id)
        <3>1. Station(s, p) \in Threads
            BY <1>1, <1>10, <1>12, StationIs
        <3>2. job[Station(s, p)].hist = g /\ job[Station(s, p)].todo # <<>>
            BY <2>5 DEF Ahead, Range
        <3>3. k = Mark(W, s, p)
            BY <1>4, <2>4, <3>1, <3>2 DEF JobsInOrder, OnItsWay
        <3> QED
            BY <1>11, <1>12, <1>17, <2>1, <3>3
    <2>6. CASE Behind(W, g, id, received, queue, outs)
        <3>1. \/ g \in HistsOf(queue[w])
              \/ History(s, k, Append(p, id)) \in HistsOf(outs[w])
              \/ k <= Mark(W, s, Append(p, id))
            BY <1>6, <2>4, <2>6 DEF Behind
        <3>2. g \notin HistsOf(queue[w])
            BY <1>11, <1>12, <1>17, <2>4
        <3>3. History(s, k, Append(p, id)) \notin HistsOf(outs[w])
            <4>1. History(s, k, Append(p, id)) = h => k = n
                BY DEF History, n
            <4> QED
                BY <1>5, <1>12, <1>17, <4>1 DEF h
        <3> QED
            BY <1>11, <1>17, <2>1, <3>1, <3>2, <3>3
    <2> QED
        BY <2>3, <2>5, <2>6
<1>18. n = Mark(W, s, h.path) + 1
    <2>1. Mark(W, s, h.path) \in Nat
        BY <1>4, <1>12, MarkType
    <2> DEFINE k == Mark(W, s, h.path) + 1
    <2>2. k \in Nat /\ Mark(W, s, h.path) < k
        BY <2>1
    <2>3. ~(k < n)
        BY <1>17, <2>2
    <2> QED
        BY <1>11, <1>12, <2>1, <2>3
<1>19. OutsRight(outs')
    <2>1. HistsOf(outs'[w]) = {} /\ DOMAIN outs'[w] = {}
        BY <1>5, HistsOfOne
    <2> QED
        BY <1>7, <2>1 DEF Routed, OutsRight
<1>20. Follows(W, w, e, h, outs')
    <2>1. \A u \in Workers : HistsOf(outs[u]) \subseteq HistsOf(outs'[u]) \cup {h}
        BY <1>5, <1>7 DEF h
    <2> QED
        BY <1>2, <1>3, <1>8, <1>9, <1>14, <1>15, <1>18, <1>19, <2>1 DEF Follows, h, s, n
<1>21. Routed(V, received, queue, outs', job')
    BY <1>4, <1>20, RoutedEnter DEF h
<1> QED
    BY <1>1, <1>21

LEMMA RoutedInit ==
    ASSUME Init
    PROVE  \E W : Ordered(W, received, queue, outs, job, sent) /\ Routed(W, received, queue, outs, job)
<1>1. PICK W : Ordered(W, received, queue, outs, job, sent) /\ \A s \in Sources, p \in Paths : Mark(W, s, p) = 0
    BY OrderInit
<1>2. MarksRight(W)
    <2>1. 0 \in Nat
        OBVIOUS
    <2> QED
        BY <1>1, <2>1 DEF MarksRight
<1>3. /\ \A id \in DOMAIN endpoints : received[id] = <<>>
      /\ \A w \in Workers : queue[w] = <<>> /\ outs[w] = <<>>
      /\ \A t \in Threads : job[t].todo = <<>>
    BY DEF Init
<1>4. EndpointsRight(received) /\ QueuesRight(queue)
    BY <1>3, HistsOfOne DEF EndpointsRight, QueuesRight
<1>5. OutsRight(outs)
    <2>1. DOMAIN <<>> = {}
        OBVIOUS
    <2> QED
        BY <1>3, <2>1, HistsOfOne DEF OutsRight
<1>6. JobsRight(job)
    BY <1>3 DEF JobsRight
<1>7. NoneMissed(W, received, queue, outs, job)
    <2>1. 1..0 = {}
        OBVIOUS
    <2> QED
        BY <1>1, <2>1 DEF NoneMissed
<1> QED
    BY <1>1, <1>2, <1>4, <1>5, <1>6, <1>7 DEF Routed

\* The operators of the tables, when the tables stay.
LEMMA StreamsKept ==
    ASSUME UNCHANGED tables
    PROVE  /\ \A s, p : NextOf(s, p)' = NextOf(s, p)
           /\ \A s, p : Leads(s, p)' = Leads(s, p)
           /\ \A w : RawName(w)' = RawName(w)
<1>1. /\ script_data' = script_data /\ plugins' = plugins /\ handlers' = handlers
      /\ route_table' = route_table
    BY DEF tables
<1>2. \A w : RawName(w)' = RawName(w)
    BY <1>1 DEF RawName, Section_of
<1>3. \A id : OutName(id)' = OutName(id)
    BY <1>1 DEF OutName, RawName, Section_of, WorkerOf
<1>4. \A s : SourceStream(s)' = SourceStream(s)
    BY <1>1 DEF SourceStream
<1>5. \A stream : Targets(stream)' = Targets(stream)
    BY <1>1 DEF Targets
<1>6. \A s, p : StreamAt(s, p)' = StreamAt(s, p)
    BY <1>3, <1>4 DEF StreamAt
<1>7. \A s, p : NextOf(s, p)' = NextOf(s, p)
    BY <1>5, <1>6 DEF NextOf, Range
<1>8. \A s, p : Leads(s, p)' = Leads(s, p)
    BY <1>3, <1>4, <1>5 DEF Leads, Range
<1> QED
    BY <1>2, <1>7, <1>8

LEMMA RoutedKept ==
    ASSUME UNCHANGED tables, NEW W
    PROVE  Routed(W, received, queue, outs, job)' = Routed(W, received', queue', outs', job')
<1>1. MarksRight(W)' = MarksRight(W)
    BY TablesKept, StreamsKept DEF MarksRight, Mark
<1>2. EndpointsRight(received)' = EndpointsRight(received')
    <2>1. \A id : HistsOf(received[id])' = HistsOf(received'[id])
        BY DEF HistsOf
    <2> QED
        BY <2>1, NamesKept, StreamsKept DEF EndpointsRight
<1>3. QueuesRight(queue)' = QueuesRight(queue')
    BY TablesKept, NamesKept, StreamsKept DEF QueuesRight, HistsOf
<1>4. OutsRight(outs)' = OutsRight(outs')
    BY TablesKept, StreamsKept DEF OutsRight, HistsOf
<1>5. JobsRight(job)' = JobsRight(job')
    BY TablesKept, StreamsKept DEF JobsRight, Range
<1>6. NoneMissed(W, received, queue, outs, job)' = NoneMissed(W, received', queue', outs', job')
    <2>1. ASSUME NEW h, NEW x
          PROVE  Behind(W, h, x, received, queue, outs)' = Behind(W, h, x, received', queue', outs')
        <3>1. /\ HistsOf(received[x])' = HistsOf(received'[x])
              /\ HistsOf(queue[WorkerOf(x)])' = HistsOf(queue'[WorkerOf(x)])
              /\ HistsOf(outs[WorkerOf(x)])' = HistsOf(outs'[WorkerOf(x)])
            BY NamesKept DEF HistsOf
        <3> QED
            BY <3>1, NamesKept DEF Behind, Mark, History
    <2>2. \A t, h, x : Ahead(job[t], h, x)' = Ahead(job'[t], h, x)
        BY DEF Ahead, Range
    <2>3. \A s, n, p : History(s, n, p)' = History(s, n, p)
        BY DEF History
    <2>4. \A s, p : Mark(W, s, p)' = Mark(W, s, p)
        BY DEF Mark
    <2> QED
        BY <2>1, <2>2, <2>3, <2>4, TablesKept, NamesKept, StreamsKept DEF NoneMissed
<1> QED
    BY <1>1, <1>2, <1>3, <1>4, <1>5, <1>6 DEF Routed

\* Along its way every event of every source is accounted for.
Followed ==
    \E W : Ordered(W, received, queue, outs, job, sent) /\ Routed(W, received, queue, outs, job)

LEMMA FollowStep == Base /\ TargetsOnce /\ Fits /\ Followed /\ [Next]_vars => (TargetsOnce /\ Followed)'
<1> SUFFICES ASSUME Base, TargetsOnce, Fits, Followed, [Next]_vars PROVE (TargetsOnce /\ Followed)'
    OBVIOUS
<1> DEFINE After(V) == /\ Ordered(V, received', queue', outs', job', sent')
                       /\ Routed(V, received', queue', outs', job')
<1>1. PICK W : Ordered(W, received, queue, outs, job, sent) /\ Routed(W, received, queue, outs, job)
    BY DEF Followed
<1>2. UNCHANGED tables
    BY DEF Next, vars, tables, Emit, Route, Enqueue, Lock, PublishTo, Unknown, Invoke, Reroute, Stall, Resume
<1>3. \E V : After(V)
    <2>1. ASSUME NEW t \in Sources, Emit(t) PROVE \E V : After(V)
        <3>1. PICK V : Marked(V, W, t, <<>>, sent[t] + 1)
            BY <1>1, <2>1, OrderEmit
        <3>2. Ordered(V, received', queue', outs', job', sent')
            BY <1>1, <2>1, <3>1, OrderEmit
        <3>3. Routed(V, received', queue', outs', job')
            BY <1>1, <2>1, <3>1, RoutedEmit
        <3> QED
            BY <3>2, <3>3
    <2>2. ASSUME NEW t \in Threads, Enqueue(t) PROVE After(W)
        BY <1>1, <2>2, OrderEnqueue, RoutedEnqueue
    <2>3. ASSUME NEW t \in Threads, PublishTo(t) PROVE After(W)
        BY <1>1, <2>3, OrderPublishTo, RoutedPublishTo
    <2>4. ASSUME NEW t \in Threads, Unknown(t) PROVE After(W)
        BY <1>1, <2>4, OrderUnknown, RoutedUnknown
    <2>5. ASSUME NEW w \in Workers, Invoke(w) PROVE After(W)
        BY <1>1, <2>5, OrderInvoke, RoutedInvoke
    <2>6. ASSUME NEW w \in Workers, Reroute(w) PROVE \E V : After(V)
        <3> DEFINE m == Head(outs[w])
                   h == m.hist
        <3>1. m = Head(outs[w]) /\ h = m.hist /\ h = Head(outs[w]).hist
            OBVIOUS
        <3> HIDE DEF m, h
        <3>2. PICK V : Marked(V, W, h.src, h.path, h.n)
            BY <1>1, <2>6, <3>1, OrderReroute
        <3>3. Ordered(V, received', queue', outs', job', sent')
            BY <1>1, <2>6, <3>1, <3>2, OrderReroute
        <3>4. Marked(V, W, m.hist.src, m.hist.path, m.hist.n)
            BY <3>1, <3>2
        <3>5. Routed(V, received', queue', outs', job')
            BY <1>1, <2>6, <3>1, <3>4, RoutedReroute
        <3> QED
            BY <3>3, <3>5
    <2>7. CASE UNCHANGED <<queue, outs, job, sent, received>>
        BY <1>1, <2>7
    <2>8. \A t \in Threads : Lock(t) => UNCHANGED <<queue, outs, job, sent, received>>
        BY DEF Lock, scriptVars
    <2>9. \A id \in DOMAIN endpoints :
             Stall(id) \/ Resume(id) => UNCHANGED <<queue, outs, job, sent, received>>
        BY DEF Stall, Resume, scriptVars
    <2>10. UNCHANGED vars => UNCHANGED <<queue, outs, job, sent, received>>
        BY DEF vars
    <2> HIDE DEF After
    <2> QED
        BY <2>1, <2>2, <2>3, <2>4, <2>5, <2>6, <2>7, <2>8, <2>9, <2>10 DEF Next, Route
<1>4. Followed'
    <2>1. \A V : Ordered(V, received, queue, outs, job, sent)' =
                 Ordered(V, received', queue', outs', job', sent')
        BY <1>2, OrderedKept
    <2>2. \A V : Routed(V, received, queue, outs, job)' = Routed(V, received', queue', outs', job')
        BY <1>2, RoutedKept
    <2> QED
        BY <1>3, <2>1, <2>2 DEF Followed
<1> QED
    BY <1>2, <1>4, NamesKept

\* A path is empty, or a path and the script after it.
LEMMA PathFront ==
    ASSUME NEW p \in Paths, p # <<>>
    PROVE  \E q \in Paths, x \in DOMAIN handlers : p = Append(q, x) /\ Len(p) = Len(q) + 1
<1> DEFINE n == Len(p)
           q == [i \in 1..(n - 1) |-> p[i]]
           x == p[n]
<1>1. n \in Nat \ {0} /\ DOMAIN p = 1..n
    BY LenProperties, EmptySeq DEF Paths
<1>2. \A i \in 1..n : p[i] \in DOMAIN handlers
    BY <1>1, ElementOfSeq DEF Paths
<1>3. q \in Paths /\ Len(q) = n - 1 /\ x \in DOMAIN handlers
    <2>1. n - 1 \in Nat /\ \A i \in 1..(n - 1) : p[i] \in DOMAIN handlers
        BY <1>1, <1>2
    <2> QED
        BY <1>1, <1>2, <2>1, IsASeq, LenProperties DEF Paths
<1>4. \A i \in 1..(n - 1) : q[i] = p[i]
    OBVIOUS
<1>5. x = p[n]
    OBVIOUS
<1> HIDE DEF q, x
<1> DEFINE r == Append(q, x)
<1>6. r \in Paths /\ Len(r) = n /\ r[n] = x /\ \A i \in 1..(n - 1) : r[i] = q[i]
    <2>1. /\ r \in Paths /\ Len(r) = Len(q) + 1 /\ r[Len(q) + 1] = x
          /\ \A i \in 1..Len(q) : r[i] = q[i]
        BY <1>3, AppendProperties DEF Paths
    <2>2. Len(q) + 1 = n
        BY <1>1, <1>3
    <2> QED
        BY <1>3, <2>1, <2>2
<1> HIDE DEF r
<1>7. p = r
    <2>1. \A i \in 1..n : p[i] = r[i]
        BY <1>1, <1>4, <1>5, <1>6
    <2> QED
        BY <1>6, <2>1, SeqEqual DEF Paths
<1> QED
    BY <1>1, <1>3, <1>7 DEF r

-----------------------------------------------------------------------------
(* When nothing is under way.                                              *)

\* Every event that got through a path has gone on to every target.
LEMMA QuietBehind ==
    ASSUME Base, Quiet, NEW W, NoneMissed(W, received, queue, outs, job),
           NEW s \in Sources, NEW p \in Paths, NEW n \in 1..Mark(W, s, p), NEW x \in NextOf(s, p)
    PROVE  \/ x \notin DOMAIN endpoints \cup DOMAIN handlers
           \/ x \in DOMAIN endpoints \ DOMAIN handlers /\ History(s, n, p) \in HistsOf(received[x])
           \/ x \in DOMAIN handlers /\ n <= Mark(W, s, Append(p, x))
<1> DEFINE h == History(s, n, p)
<1>1. Tables
    BY TablesFollow DEF Base
<1>2. Ahead(job[Station(s, p)], h, x) \/ Behind(W, h, x, received, queue, outs)
    BY DEF NoneMissed
<1>3. ~Ahead(job[Station(s, p)], h, x)
    <2>1. Station(s, p) \in Threads
        BY <1>1, StationIs
    <2> QED
        BY <2>1 DEF Quiet, Idle, Ahead, Range
<1>4. h.src = s /\ h.n = n /\ h.path = p
    BY DEF History
<1> HIDE DEF h
<1>5. ASSUME x \in DOMAIN handlers
      PROVE  HistsOf(queue[WorkerOf(x)]) = {} /\ HistsOf(outs[WorkerOf(x)]) = {}
    <2>1. s \in Threads
        BY DEF Threads
    <2>2. WorkerOf(x) \in Workers
        BY <1>1, <1>5, <2>1, WorkerExists
    <2> QED
        BY <2>2, HistsOfOne DEF Quiet
<1> QED
    BY <1>2, <1>3, <1>4, <1>5 DEF Behind, h

\* Every event of a source has got through every path on which the tables lead it.
LEMMA QuietMarks ==
    ASSUME Base, Quiet, NEW W, Ordered(W, received, queue, outs, job, sent),
           Routed(W, received, queue, outs, job), NEW s \in Sources
    PROVE  \A p \in Paths : Leads(s, p) => Mark(W, s, p) = sent[s]
<1> DEFINE Bad == {n \in Nat : \E p \in Paths : Len(p) = n /\ Leads(s, p) /\ Mark(W, s, p) # sent[s]}
<1>1. /\ W \in Marks /\ Mark(W, s, <<>>) = sent[s]
      /\ \A p \in Paths, x \in DOMAIN handlers : Mark(W, s, Append(p, x)) <= Mark(W, s, p)
    BY DEF Ordered, MarksFall
<1>2. \A p \in Paths : Len(p) \in Nat
    BY LenProperties DEF Paths
<1>3. ASSUME Bad # {} PROVE FALSE
    <2>1. PICK n \in Bad : \A k \in Bad : n <= k
        <3>1. Bad \subseteq Nat
            OBVIOUS
        <3> HIDE DEF Bad
        <3> QED
            BY <1>3, <3>1, LeastNumber
    <2>2. PICK p \in Paths : Len(p) = n /\ Leads(s, p) /\ Mark(W, s, p) # sent[s]
        BY <2>1
    <2>3. p # <<>>
        BY <1>1, <2>2
    <2>4. PICK q \in Paths, x \in DOMAIN handlers : p = Append(q, x) /\ Len(p) = Len(q) + 1
        BY <2>3, PathFront
    <2>5. Leads(s, q) /\ x \in NextOf(s, q)
        BY <2>2, <2>4, LeadsAppend
    <2>6. Mark(W, s, q) = sent[s]
        <3>1. Len(q) < n
            BY <1>2, <2>2, <2>4
        <3>2. Len(q) \notin Bad
            BY <1>2, <2>1, <3>1
        <3> QED
            BY <1>2, <2>5, <3>2
    <2>7. Mark(W, s, q) \in Nat /\ Mark(W, s, p) \in Nat /\ Mark(W, s, p) <= Mark(W, s, q)
        BY <1>1, <2>4, MarkType
    <2>8. CASE sent[s] = 0
        BY <2>2, <2>6, <2>7, <2>8
    <2>9. CASE sent[s] # 0
        <3> DEFINE k == Mark(W, s, q)
        <3>1. k \in 1..Mark(W, s, q)
            BY <2>6, <2>7, <2>9
        <3> HIDE DEF k
        <3>2. k <= Mark(W, s, Append(q, x))
            BY <2>5, <3>1, QuietBehind DEF Routed
        <3> QED
            BY <2>2, <2>4, <2>6, <2>7, <3>2 DEF k
    <2> QED
        BY <2>8, <2>9
<1> QED
    BY <1>2, <1>3

\* What an endpoint has received.
LEMMA QuietHas ==
    ASSUME Base, Quiet, NEW W, Ordered(W, received, queue, outs, job, sent),
           Routed(W, received, queue, outs, job), NEW id \in DOMAIN endpoints, NEW h
    PROVE  h \in HistsOf(received[id]) <=>
              /\ id \notin DOMAIN handlers
              /\ \E s \in Sources, p \in Paths : \E n \in 1..sent[s] :
                    h = History(s, n, p) /\ Leads(s, p) /\ id \in NextOf(s, p)
<1>1. W \in Marks /\ Shapes
    BY DEF Ordered, MarksFall, Base
<1>2. ASSUME h \in HistsOf(received[id])
      PROVE  /\ id \notin DOMAIN handlers
             /\ \E s \in Sources, p \in Paths : \E n \in 1..sent[s] :
                   h = History(s, n, p) /\ Leads(s, p) /\ id \in NextOf(s, p)
    <2>1. received[id] \in Seq(Mail)
        BY <1>1 DEF Shapes
    <2>2. h \in Hists
        BY <1>2, <2>1, HistsMail
    <2>3. h.src \in Sources /\ h.path \in Paths /\ h.n \in Nat \ {0} /\ h = History(h.src, h.n, h.path)
        BY <2>2, HistoryIs DEF Hists
    <2>4. h.n <= Mark(W, h.src, h.path)
        BY <1>2 DEF Ordered, EndpointsInOrder
    <2>5. Leads(h.src, h.path)
        BY <1>1, <2>2, <2>4, MarksLead DEF Routed
    <2>6. Mark(W, h.src, h.path) = sent[h.src]
        BY <2>3, <2>5, QuietMarks
    <2>7. h.n \in 1..sent[h.src]
        <3>1. sent[h.src] \in Nat
            BY <1>1, <2>3 DEF Shapes
        <3> QED
            BY <2>3, <2>4, <2>6, <3>1
    <2>8. id \in NextOf(h.src, h.path) /\ id \notin DOMAIN handlers
        BY <1>2 DEF Routed, EndpointsRight
    <2> QED
        BY <2>3, <2>5, <2>7, <2>8
<1>3. ASSUME id \notin DOMAIN handlers, NEW s \in Sources, NEW p \in Paths, NEW n \in 1..sent[s],
             Leads(s, p), id \in NextOf(s, p)
      PROVE  History(s, n, p) \in HistsOf(received[id])
    <2>1. n \in 1..Mark(W, s, p)
        BY <1>3, QuietMarks
    <2> QED
        BY <1>3, <2>1, QuietBehind DEF Routed
<1> QED
    BY <1>2, <1>3

\* A path that comes through a script twice can come through it once more.
LEMMA PathRepeats ==
    ASSUME NEW s, NEW p \in Paths, Leads(s, p), NEW i \in 1..Len(p), NEW j \in 1..Len(p),
           i < j, p[i] = p[j]
    PROVE  \E q \in Paths : Leads(s, q) /\ Len(p) < Len(q)
<1> DEFINE n == Len(p)
           d == j - i
           At(k) == IF k <= j THEN k ELSE k - d
           q == [k \in 1..(n + d) |-> p[At(k)]]
           before(k) == IF k = 1 THEN SourceStream(s) ELSE OutName(p[k - 1])
<1>1. n \in Nat /\ DOMAIN p = 1..n /\ \A k \in 1..n : p[k] \in DOMAIN handlers
    BY LenProperties, ElementOfSeq DEF Paths
<1>2. d \in Nat /\ d > 0 /\ n + d \in Nat /\ n < n + d
    BY <1>1
<1>3. \A k \in 1..(n + d) : At(k) \in 1..n
    BY <1>1, <1>2
<1>4. \A k \in 1..n : p[k] \in Range(Targets(before(k)))
    BY <1>1 DEF Leads
<1>5. At(1) = 1
    BY <1>1
<1>6. ASSUME NEW k \in 1..(n + d), k # 1
      PROVE  At(k) # 1 /\ At(k) - 1 \in 1..n /\ p[At(k) - 1] = p[At(k - 1)]
    <2>1. CASE k <= j
        BY <1>1, <1>2, <1>6, <2>1
    <2>2. CASE k = j + 1
        <3>1. At(k) = i + 1 /\ At(k - 1) = j
            BY <1>1, <1>2, <2>2
        <3> QED
            BY <1>1, <3>1
    <2>3. CASE k > j + 1
        <3>1. At(k) = k - d /\ At(k - 1) = k - 1 - d
            BY <1>1, <1>2, <2>3
        <3>2. k - d > i + 1 /\ k - d <= n
            BY <1>1, <1>2, <2>3
        <3> QED
            BY <1>1, <3>1, <3>2
    <2> QED
        BY <1>1, <2>1, <2>2, <2>3
<1>7. \A k \in 1..(n + d) : k # 1 => k - 1 \in 1..(n + d)
    BY <1>2
<1> HIDE DEF At
<1>8. q \in Paths /\ Len(q) = n + d /\ DOMAIN q = 1..(n + d)
    BY <1>1, <1>2, <1>3, IsASeq, LenProperties DEF Paths
<1>9. \A k \in 1..(n + d) : q[k] = p[At(k)]
    OBVIOUS
<1> HIDE DEF q
<1>10. ASSUME NEW k \in 1..(n + d)
       PROVE  q[k] \in Range(Targets(IF k = 1 THEN SourceStream(s) ELSE OutName(q[k - 1])))
    <2>1. q[k] \in Range(Targets(before(At(k))))
        BY <1>3, <1>4, <1>9
    <2>2. CASE k = 1
        BY <1>5, <2>1, <2>2
    <2>3. CASE k # 1
        <3>1. q[k - 1] = p[At(k) - 1] /\ At(k) # 1
            BY <1>6, <1>7, <1>9, <2>3
        <3> QED
            BY <2>1, <2>3, <3>1
    <2> QED
        BY <2>2, <2>3
<1>11. Leads(s, q)
    BY <1>8, <1>10 DEF Leads
<1> QED
    BY <1>2, <1>8, <1>11

\* A path longer than there are scripts comes through one of them twice.
LEMMA LongRepeats ==
    ASSUME NEW p \in Paths, NEW J, IsFiniteSet(J), NEW f \in [J -> DOMAIN handlers],
           \A x \in DOMAIN handlers : \E j \in J : f[j] = x, Cardinality(J) < Len(p)
    PROVE  \E i, j \in 1..Len(p) : i < j /\ p[i] = p[j]
<1> DEFINE n == Len(p)
           g == [k \in 1..n |-> CHOOSE j \in J : f[j] = p[k]]
<1>1. n \in Nat /\ DOMAIN p = 1..n /\ \A k \in 1..n : p[k] \in DOMAIN handlers
    BY LenProperties, ElementOfSeq DEF Paths
<1>2. \A k \in 1..n : g[k] \in J /\ f[g[k]] = p[k]
    BY <1>1
<1>3. g \in [1..n -> J]
    BY <1>2
<1>4. IsFiniteSet(1..n) /\ Cardinality(1..n) = n
    BY <1>1, FS_Interval
<1> HIDE DEF g
<1>5. PICK i, j \in 1..n : i # j /\ g[i] = g[j]
    <2> DEFINE S == 1..n
    <2>1. IsFiniteSet(S) /\ Cardinality(J) < Cardinality(S) /\ g \in [S -> J]
        BY <1>3, <1>4
    <2> HIDE DEF S
    <2>2. \E x, y \in S : x # y /\ g[x] = g[y]
        BY <2>1, FS_PigeonHole
    <2> QED
        BY <2>2 DEF S
<1>6. p[i] = p[j]
    BY <1>2, <1>5
<1> QED
    BY <1>1, <1>5, <1>6

\* No way on which the events of a source got is longer.
LEMMA QuietShort ==
    ASSUME Base, Quiet, NEW W, Ordered(W, received, queue, outs, job, sent),
           Routed(W, received, queue, outs, job), NEW s \in Sources, sent[s] # 0,
           NEW J, IsFiniteSet(J), NEW f \in [J -> DOMAIN handlers],
           \A x \in DOMAIN handlers : \E j \in J : f[j] = x, NEW p \in Paths, Leads(s, p)
    PROVE  Len(p) <= Cardinality(J)
<1> DEFINE T == {Len(q) : q \in {r \in Paths : Leads(s, r)}}
<1>1. \A q \in Paths : Len(q) \in Nat
    BY LenProperties DEF Paths
<1>2. PICK bound \in Nat : \A q \in Paths : Mark(W, s, q) # 0 => Len(q) <= bound
    BY DEF Routed, MarksRight
<1>3. \A q \in Paths : Leads(s, q) => Len(q) \in 0..bound
    BY <1>1, <1>2, QuietMarks
<1>4. T \subseteq 0..bound /\ T # {} /\ Len(p) \in T
    BY <1>3
<1>5. Max(T) \in T /\ \A k \in T : k <= Max(T)
    <2> HIDE DEF T
    <2> QED
        BY <1>4, Greatest
<1>6. PICK q \in Paths : Leads(s, q) /\ Len(q) = Max(T)
    BY <1>5
<1>7. \A r \in Paths : Leads(s, r) => Len(r) <= Len(q)
    BY <1>5, <1>6
<1>8. ~(Cardinality(J) < Len(q))
    <2> SUFFICES ASSUME Cardinality(J) < Len(q) PROVE FALSE
        OBVIOUS
    <2>1. PICK i, j \in 1..Len(q) : i < j /\ q[i] = q[j]
        BY LongRepeats
    <2>2. PICK r \in Paths : Leads(s, r) /\ Len(q) < Len(r)
        BY <1>6, <2>1, PathRepeats
    <2>3. Len(r) <= Len(q)
        BY <1>7, <2>2
    <2> QED
        BY <1>1, <2>2, <2>3
<1>9. Cardinality(J) \in Nat
    BY FS_CardinalityType
<1>10. Len(p) <= Len(q)
    BY <1>7
<1> QED
    BY <1>1, <1>8, <1>9, <1>10

-----------------------------------------------------------------------------
(* The scripts and the streams, as the file says.                          *)

LEMMA ValueIs ==
    ASSUME IsFile(file), NEW cfg, cfg = parse(file), cfg.ok,
           NEW j \in DOMAIN file, file[j].tag = "section", NEW key, ~is_multi_key(key)
    PROVE  Entry(j, key, "") = Value(cfg.sections[Count(file, j)], key)
<1> DEFINE v == Value(cfg.sections[Count(file, j)], key)
<1>1. v = Value(cfg.sections[Count(file, j)], key)
    OBVIOUS
<1> HIDE DEF v
<1>2. Entry(j, key, "") = IF v = "" THEN "" ELSE v
    BY <1>1, EntryIs
<1> QED
    BY <1>1, <1>2

\* A complete [script] is one that start_pipeline() takes.
LEMMA CompleteIs ==
    ASSUME IsFile(file), NEW cfg, cfg = parse(file), cfg.ok,
           NEW j \in DOMAIN file, file[j].tag = "section", NEW c, c = Count(file, j)
    PROVE  /\ j \in Complete <=> c \in Scripts(cfg)
           /\ IdOf(j) = Value(cfg.sections[c], "id")
           /\ Entry(j, "runtime", "") = Value(cfg.sections[c], "runtime")
<1>1. \A key \in {"id", "runtime", "path", "trigger"} : ~is_multi_key(key)
    BY DEF is_multi_key
<1>2. \A key \in {"id", "runtime", "path", "trigger"} : Entry(j, key, "") = Value(cfg.sections[c], key)
    BY <1>1, ValueIs
<1>3. c \in DOMAIN cfg.sections /\ cfg.sections[c].type = file[j].name
    BY HeadersAre
<1>4. j \in Headers("script") <=> c \in of_type(cfg, "script")
    BY <1>3 DEF Headers, of_type
<1> QED
    BY <1>2, <1>4 DEF Complete, Scripts, IdOf

\* The [script]s that run are those that route() finds.
LEMMA RunningAre ==
    ASSUME Configured, status = "running"
    PROVE  /\ IsFiniteSet(Running)
           /\ \A j \in Running : IdOf(j) \in DOMAIN handlers /\ OutOf(j) = OutName(IdOf(j))
           /\ \A id \in DOMAIN handlers : \E j \in Running : IdOf(j) = id
           /\ \A j, k \in Running : IdOf(j) = IdOf(k) => j = k
<1> DEFINE cfg == parse(file)
           N == Len(file)
<1>1. IsFile(file) /\ cfg = parse(file)
    BY FileIs
<1>2. N \in Nat /\ DOMAIN file = 1..N
    BY <1>1, LenProperties DEF IsFile
<1>3. /\ cfg.ok /\ handlers = Handlers(cfg)
      /\ script_data = [i \in Scripts(cfg) |-> cfg.sections[i]]
    BY DEF Configured
<1>4. Running \subseteq Complete /\ Complete \subseteq 1..N
    BY <1>2 DEF Running, Complete, Headers
<1>5. ASSUME NEW j \in Complete
      PROVE  j \in DOMAIN file /\ file[j].tag = "section" /\ j \in Nat \ {0}
    <2>1. j \in DOMAIN file /\ file[j].tag = "section"
        BY DEF Complete, Headers
    <2> QED
        BY <1>2, <2>1
<1> HIDE DEF cfg, N
<1>6. IsFiniteSet(Running)
    <2>1. Running \in SUBSET (1..N)
        BY <1>4
    <2>2. IsFiniteSet(1..N)
        BY <1>2, FS_Interval
    <2> QED
        BY <2>1, <2>2, FS_Subset
<1>7. \A j \in Complete : /\ Count(file, j) \in Scripts(cfg)
                          /\ IdOf(j) = Value(cfg.sections[Count(file, j)], "id")
                          /\ Entry(j, "runtime", "") = Value(cfg.sections[Count(file, j)], "runtime")
    BY <1>1, <1>3, <1>5, CompleteIs
<1>8. \A j \in Complete : IdOf(j) \in Ids(cfg, Scripts(cfg))
    BY <1>7 DEF Ids
<1>9. DOMAIN handlers = Ids(cfg, Scripts(cfg))
    BY <1>3 DEF Handlers
<1>10. \A id \in DOMAIN handlers :
          /\ handlers[id] \in Scripts(cfg) /\ Value(cfg.sections[handlers[id]], "id") = id
          /\ \A i \in Scripts(cfg) : Value(cfg.sections[i], "id") = id => i <= handlers[id]
    <2>1. Scripts(cfg) \subseteq DOMAIN cfg.sections
        BY DEF Scripts, of_type
    <2>2. \A id \in DOMAIN handlers : handlers[id] = LastOf(cfg, Scripts(cfg), id)
        BY <1>3 DEF Handlers
    <2> QED
        BY <1>1, <1>9, <2>1, <2>2, LastOfIs
<1>11. ASSUME NEW id \in DOMAIN handlers
       PROVE  \E j \in Complete : Count(file, j) = handlers[id] /\ IdOf(j) = id
    <2>1. handlers[id] \in DOMAIN cfg.sections
        BY <1>10 DEF Scripts, of_type
    <2>2. PICK j \in DOMAIN file : file[j].tag = "section" /\ Count(file, j) = handlers[id]
        BY <1>1, <1>3, <2>1, HeadersAre
    <2>3. j \in Complete
        BY <1>1, <1>3, <1>10, <2>2, CompleteIs
    <2> QED
        BY <1>7, <1>10, <2>2, <2>3
<1>12. ASSUME NEW j \in Complete, NEW k \in Complete
       PROVE  /\ j <= k => Count(file, j) <= Count(file, k)
              /\ Count(file, j) <= Count(file, k) => j <= k
              /\ Count(file, j) \in Nat
    <2>1. /\ j \in Nat \ {0} /\ k \in Nat \ {0}
          /\ file[j].tag = "section" /\ file[k].tag = "section"
        BY <1>5
    <2>2. Count(file, j) \in Nat /\ Count(file, k) \in Nat
        BY <2>1, CountType
    <2>3. j <= k => Count(file, j) <= Count(file, k)
        BY <2>1, CountOrder
    <2>4. k < j => Count(file, k) <= Count(file, j) /\ Count(file, k) # Count(file, j)
        BY <2>1, CountOrder, HeaderNumbers
    <2> QED
        BY <2>1, <2>2, <2>3, <2>4
<1>13. ASSUME NEW j \in Running
       PROVE  IdOf(j) \in DOMAIN handlers /\ handlers[IdOf(j)] = Count(file, j)
    <2>1. j \in Complete /\ IdOf(j) \in DOMAIN handlers
        BY <1>4, <1>8, <1>9
    <2>2. PICK k \in Complete : Count(file, k) = handlers[IdOf(j)] /\ IdOf(k) = IdOf(j)
        BY <1>11, <2>1
    <2>3. k <= j
        BY <2>2 DEF Running
    <2>4. Count(file, j) <= handlers[IdOf(j)]
        BY <1>7, <1>10, <2>1
    <2>5. Count(file, k) <= Count(file, j) /\ Count(file, k) \in Nat /\ Count(file, j) \in Nat
        BY <1>12, <2>1, <2>3
    <2> QED
        BY <2>1, <2>2, <2>4, <2>5
<1>14. ASSUME NEW j \in Running PROVE OutOf(j) = OutName(IdOf(j))
    <2> DEFINE c == Count(file, j)
               v == output_stream(cfg.sections[c])
    <2>1. j \in DOMAIN file /\ file[j].tag = "section" /\ c \in Scripts(cfg)
        BY <1>4, <1>5, <1>7
    <2>2. script_data[handlers[IdOf(j)]] = cfg.sections[c]
        BY <1>3, <1>13, <2>1
    <2>3. Section_of(WorkerOf(IdOf(j))) = cfg.sections[c]
        BY <2>2 DEF Section_of, WorkerOf
    <2>4. Entry(j, "runtime", "") = Value(cfg.sections[c], "runtime")
        BY <1>4, <1>7
    <2>5. v = output_stream(cfg.sections[Count(file, j)])
        OBVIOUS
    <2> HIDE DEF v
    <2>6. \A def : Entry(j, "emits", def) = IF v = "" THEN def ELSE v
        BY <1>1, <1>3, <2>1, <2>5, EmitsIs
    <2> QED
        BY <2>3, <2>4, <2>6 DEF OutOf, OutName, RawName, v
<1>15. ASSUME NEW id \in DOMAIN handlers PROVE \E j \in Running : IdOf(j) = id
    <2>1. PICK j \in Complete : Count(file, j) = handlers[id] /\ IdOf(j) = id
        BY <1>11
    <2>2. ASSUME NEW k \in Complete, IdOf(k) = IdOf(j) PROVE k <= j
        <3>1. Count(file, k) <= Count(file, j)
            BY <1>7, <1>10, <2>1, <2>2
        <3> QED
            BY <1>12, <3>1
    <2> QED
        BY <2>1, <2>2 DEF Running
<1>16. ASSUME NEW j \in Running, NEW k \in Running, IdOf(j) = IdOf(k) PROVE j = k
    <2>1. j <= k /\ k <= j /\ j \in Nat /\ k \in Nat
        BY <1>4, <1>5, <1>16 DEF Running
    <2> QED
        BY <2>1
<1> QED
    BY <1>6, <1>13, <1>14, <1>15, <1>16

\* The stream of a source's events.
LEMMA StreamIs ==
    ASSUME Configured, NEW t \in Sources
    PROVE  StreamOf(t) = SourceStream(t)
<1> DEFINE cfg == parse(file)
<1>1. IsFile(file) /\ cfg = parse(file)
    BY FileIs
<1>2. status = "running"
    BY DEF Sources
<1>3. cfg.ok /\ plugins = [i \in Ingestors(cfg) |-> cfg.sections[i]]
    BY <1>2 DEF Configured
<1> HIDE DEF cfg
<1>4. CASE t = TelemetryThread
    BY <1>4 DEF StreamOf, SourceStream
<1>5. CASE t # TelemetryThread
    <2> DEFINE i == t[2]
               j == HeaderOf(i)
               v == Value(plugins[i], "as")
    <2>1. i \in Ingestors(cfg) /\ plugins[i] = cfg.sections[i]
        BY <1>2, <1>3, <1>5 DEF Sources
    <2>2. i \in DOMAIN cfg.sections
        BY <2>1 DEF Ingestors, of_type
    <2>3. \E k \in DOMAIN file : file[k].tag = "section" /\ Count(file, k) = i
        BY <1>1, <1>3, <2>2, HeadersAre
    <2>4. j = CHOOSE k \in DOMAIN file : file[k].tag = "section" /\ Count(file, k) = i
        BY DEF HeaderOf, Count, Opened
    <2> HIDE DEF j
    <2>5. j \in DOMAIN file /\ file[j].tag = "section"
        BY <2>3, <2>4
    <2>6. Count(file, j) = i
        BY <2>3, <2>4
    <2> HIDE DEF v
    <2>7. v = Value(cfg.sections[Count(file, j)], "as")
        BY <2>1, <2>6 DEF v
    <2>8. ~is_multi_key("as")
        BY DEF is_multi_key
    <2>9. \A def : Entry(j, "as", def) = IF v = "" THEN def ELSE v
        BY <1>1, <1>3, <2>5, <2>7, <2>8, EntryIs
    <2> QED
        BY <1>5, <2>9 DEF StreamOf, SourceStream, j, v
<1> QED
    BY <1>4, <1>5

-----------------------------------------------------------------------------
(* The chains that the file gives, and the paths in the tables.            *)

LEMMA RunsOk ==
    ASSUME Configured, NEW s \in Sources
    PROVE  status = "running" /\ parse(file).ok
BY DEF Configured, Sources

\* c is a chain of [script]s, and p their ids.
ChainOf(c, k, p) == k \in Nat /\ c \in [1..k -> Running] /\ p = [i \in 1..k |-> IdOf(c[i])]

LEMMA ChainIs ==
    ASSUME Configured, NEW s \in Sources, NEW c, NEW k, NEW p, ChainOf(c, k, p)
    PROVE  /\ p \in Paths /\ Len(p) = k /\ Len(c) = k /\ DOMAIN c = 1..k /\ DOMAIN p = 1..k
           /\ c = <<>> <=> k = 0
           /\ p = <<>> <=> k = 0
           /\ \A i \in 1..k : p[i] = IdOf(c[i]) /\ OutOf(c[i]) = OutName(p[i])
<1>1. status = "running"
    BY RunsOk
<1>2. k \in Nat /\ c \in [1..k -> Running] /\ p = [i \in 1..k |-> IdOf(c[i])]
    BY DEF ChainOf
<1>3. \A i \in 1..k : c[i] \in Running
    BY <1>2
<1>4. \A i \in 1..k : p[i] = IdOf(c[i])
    BY <1>2
<1>5. \A i \in 1..k : p[i] \in DOMAIN handlers /\ OutOf(c[i]) = OutName(p[i])
    BY <1>1, <1>3, <1>4, RunningAre
<1>6. p \in Paths /\ Len(p) = k /\ DOMAIN p = 1..k
    <2>1. \A i \in 1..k : IdOf(c[i]) \in DOMAIN handlers
        BY <1>4, <1>5
    <2> QED
        BY <1>2, <2>1, IsASeq, LenProperties DEF Paths
<1>7. c \in Seq(Running) /\ Len(c) = k /\ DOMAIN c = 1..k
    <2>1. c = [i \in 1..k |-> c[i]]
        BY <1>2
    <2>2. DOMAIN c = 1..k /\ c \in Seq(Running)
        BY <1>2, <1>3, <2>1, IsASeq
    <2> QED
        BY <1>2, <2>2, LenProperties
<1>8. c = <<>> <=> k = 0
    BY <1>7, EmptySeq
<1>9. p = <<>> <=> k = 0
    BY <1>6, EmptySeq DEF Paths
<1> QED
    BY <1>4, <1>5, <1>6, <1>7, <1>8, <1>9

\* The lines lead along a chain exactly if the tables lead along its path.
LEMMA ChainLeads ==
    ASSUME Configured, NEW s \in Sources, NEW c, NEW k, NEW p, ChainOf(c, k, p), NEW id
    PROVE  /\ Leads(s, p) <=>
                 \A i \in DOMAIN c :
                     Written(IF i = 1 THEN StreamOf(s) ELSE OutOf(c[i - 1]), IdOf(c[i]))
           /\ id \in NextOf(s, p) <=>
                 Written(IF c = <<>> THEN StreamOf(s) ELSE OutOf(c[Len(c)]), id)
<1>1. parse(file).ok /\ StreamOf(s) = SourceStream(s)
    BY RunsOk, StreamIs
<1>2. \A stream, target : Written(stream, target) <=> target \in Range(Targets(stream))
    BY <1>1, WrittenIs
<1>3. k \in Nat
    BY DEF ChainOf
<1>4. /\ Len(p) = k /\ Len(c) = k /\ DOMAIN c = 1..k /\ DOMAIN p = 1..k
      /\ c = <<>> <=> k = 0
      /\ p = <<>> <=> k = 0
      /\ \A i \in 1..k : p[i] = IdOf(c[i]) /\ OutOf(c[i]) = OutName(p[i])
    BY ChainIs
<1> DEFINE before(i) == IF i = 1 THEN SourceStream(s) ELSE OutName(p[i - 1])
           Before_(i) == IF i = 1 THEN StreamOf(s) ELSE OutOf(c[i - 1])
<1>5. ASSUME NEW i \in 1..k PROVE Before_(i) = before(i)
    <2>1. i # 1 => i - 1 \in 1..k
        BY <1>3
    <2> QED
        BY <1>1, <1>4, <2>1
<1>6. Leads(s, p) <=> \A i \in 1..k : p[i] \in Range(Targets(before(i)))
    BY <1>4 DEF Leads
<1> HIDE DEF before, Before_
<1>7. Leads(s, p) <=> \A i \in DOMAIN c : Written(Before_(i), IdOf(c[i]))
    BY <1>2, <1>4, <1>5, <1>6
<1>8. StreamAt(s, p) = IF c = <<>> THEN StreamOf(s) ELSE OutOf(c[Len(c)])
    <2>1. CASE k = 0
        BY <1>1, <1>4, <2>1 DEF StreamAt
    <2>2. CASE k # 0
        <3>1. k \in 1..k
            BY <1>3, <2>2
        <3> QED
            BY <1>4, <2>2, <3>1 DEF StreamAt
    <2> QED
        BY <2>1, <2>2
<1>9. id \in NextOf(s, p) <=>
          Written(IF c = <<>> THEN StreamOf(s) ELSE OutOf(c[Len(c)]), id)
    BY <1>2, <1>8 DEF NextOf
<1> QED
    BY <1>7, <1>9 DEF Before_

\* Whatever path the tables lead along is that of a chain.
LEMMA ChainExists ==
    ASSUME Configured, NEW s \in Sources, NEW p \in Paths
    PROVE  \E c : ChainOf(c, Len(p), p)
<1> DEFINE n == Len(p)
           c == [i \in 1..n |-> CHOOSE j \in Running : IdOf(j) = p[i]]
<1>1. status = "running"
    BY RunsOk
<1>2. n \in Nat /\ DOMAIN p = 1..n /\ \A i \in 1..n : p[i] \in DOMAIN handlers
    BY LenProperties, ElementOfSeq DEF Paths
<1>3. \A i \in 1..n : \E j \in Running : IdOf(j) = p[i]
    BY <1>1, <1>2, RunningAre
<1>4. \A i \in 1..n : c[i] \in Running /\ IdOf(c[i]) = p[i]
    BY <1>3
<1>5. c \in [1..n -> Running]
    BY <1>4
<1> HIDE DEF c
<1>6. p = [i \in 1..n |-> IdOf(c[i])]
    <2>1. p = [i \in 1..n |-> p[i]]
        BY <1>2, LenProperties DEF Paths
    <2> QED
        BY <1>4, <2>1
<1> QED
    BY <1>2, <1>5, <1>6 DEF ChainOf

\* The histories that the file asks for are those that there are.
LEMMA HistoriesAre ==
    ASSUME Base, Quiet, NEW W, Ordered(W, received, queue, outs, job, sent),
           Routed(W, received, queue, outs, job), NEW id \in DOMAIN endpoints
    PROVE  Histories(id) = HistsOf(received[id])
<1>1. Configured /\ Shapes
    BY DEF Base
<1>2. ASSUME NEW h \in Histories(id) PROVE h \in HistsOf(received[id])
    <2>1. PICK s \in Sources : \E n \in 1..sent[s], c \in Chains(StreamOf(s), id) :
              h = History(s, n, [k \in DOMAIN c |-> IdOf(c[k])])
        BY <1>2 DEF Histories
    <2>2. PICK n \in 1..sent[s], c \in Chains(StreamOf(s), id) :
              h = History(s, n, [k \in DOMAIN c |-> IdOf(c[k])])
        BY <2>1
    <2>3. /\ c \in UNION {[1..k -> Running] : k \in 0..Cardinality(Running)}
          /\ \A k \in DOMAIN c : Written(IF k = 1 THEN StreamOf(s) ELSE OutOf(c[k - 1]), IdOf(c[k]))
          /\ Written(IF c = <<>> THEN StreamOf(s) ELSE OutOf(c[Len(c)]), id)
          /\ \A j \in Running : IdOf(j) # id
        BY <2>2 DEF Chains
    <2>4. PICK k \in 0..Cardinality(Running) : c \in [1..k -> Running]
        BY <2>3
    <2> DEFINE p == [i \in DOMAIN c |-> IdOf(c[i])]
    <2>5. ChainOf(c, k, p)
        BY <2>4 DEF ChainOf
    <2>6. h = History(s, n, p)
        BY <2>2
    <2> HIDE DEF p
    <2>7. p \in Paths /\ Leads(s, p) /\ id \in NextOf(s, p)
        BY <1>1, <2>3, <2>5, ChainIs, ChainLeads
    <2>8. id \notin DOMAIN handlers
        BY <1>1, <2>3, RunsOk, RunningAre
    <2> QED
        BY <2>6, <2>7, <2>8, QuietHas
<1>3. ASSUME NEW h \in HistsOf(received[id]) PROVE h \in Histories(id)
    <2>1. PICK s \in Sources, p \in Paths : \E n \in 1..sent[s] :
              h = History(s, n, p) /\ Leads(s, p) /\ id \in NextOf(s, p)
        BY <1>3, QuietHas
    <2>2. PICK n \in 1..sent[s] : h = History(s, n, p) /\ Leads(s, p) /\ id \in NextOf(s, p)
        BY <2>1
    <2>3. id \notin DOMAIN handlers
        BY <1>3, QuietHas
    <2>4. status = "running"
        BY <1>1, RunsOk
    <2>5. PICK c : ChainOf(c, Len(p), p)
        BY <1>1, ChainExists
    <2>6. Len(p) \in 0..Cardinality(Running)
        <3> DEFINE J == Running
                   f == [j \in J |-> IdOf(j)]
        <3>1. IsFiniteSet(J) /\ f \in [J -> DOMAIN handlers]
            BY <1>1, <2>4, RunningAre
        <3>2. \A x \in DOMAIN handlers : \E j \in J : f[j] = x
            BY <1>1, <2>4, RunningAre
        <3>3. sent[s] # 0
            BY <2>2
        <3> HIDE DEF J, f
        <3>4. Len(p) <= Cardinality(J) /\ Cardinality(J) \in Nat
            BY <2>2, <3>1, <3>2, <3>3, QuietShort, FS_CardinalityType
        <3>5. Len(p) \in Nat
            BY LenProperties DEF Paths
        <3> QED
            BY <3>4, <3>5 DEF J
    <2>7. c \in [1..Len(p) -> Running] /\ p = [i \in 1..Len(p) |-> IdOf(c[i])]
        BY <2>5 DEF ChainOf
    <2>8. DOMAIN c = 1..Len(p)
        BY <2>7
    <2>9. p = [i \in DOMAIN c |-> IdOf(c[i])]
        BY <2>7, <2>8
    <2>10. c \in Chains(StreamOf(s), id)
        <3>1. c \in UNION {[1..k -> Running] : k \in 0..Cardinality(Running)}
            BY <2>6, <2>7
        <3>2. \A k \in DOMAIN c : Written(IF k = 1 THEN StreamOf(s) ELSE OutOf(c[k - 1]), IdOf(c[k]))
            BY <1>1, <2>2, <2>5, ChainLeads
        <3>3. Written(IF c = <<>> THEN StreamOf(s) ELSE OutOf(c[Len(c)]), id)
            BY <1>1, <2>2, <2>5, ChainLeads
        <3>4. \A j \in Running : IdOf(j) # id
            BY <1>1, <2>3, <2>4, RunningAre
        <3> QED
            BY <3>1, <3>2, <3>3, <3>4 DEF Chains
    <2>11. h = History(s, n, [k \in DOMAIN c |-> IdOf(c[k])])
        BY <2>2, <2>9
    <2> DEFINE Told(v, m, d) == History(v, m, [k \in DOMAIN d |-> IdOf(d[k])])
    <2>12. Histories(id) = UNION {{Told(v, m, d) : m \in 1..sent[v], d \in Chains(StreamOf(v), id)} :
                                     v \in Sources}
        BY DEF Histories
    <2>13. h = Told(s, n, c)
        BY <2>11
    <2> HIDE DEF Told
    <2> QED
        BY <2>10, <2>12, <2>13
<1> QED
    BY <1>2, <1>3

\* What is sorted holds nothing twice.
LEMMA SortedCounts ==
    ASSUME NEW s \in Seq(Mail), Sorted(s), NEW got, got = [i \in DOMAIN s |-> s[i].hist]
    PROVE  Range(got) = HistsOf(s) /\ Len(got) = Cardinality(HistsOf(s))
<1> DEFINE n == Len(s)
           S == 1..n
           T == HistsOf(s)
<1>1. n \in Nat /\ DOMAIN s = S
    BY LenProperties
<1>2. \A i \in S : s[i].hist \in Hists
    <2>1. \A i \in S : s[i] \in Mail
        BY <1>1, ElementOfSeq
    <2> QED
        BY <2>1 DEF Mail
<1>3. \A i \in S : s[i].hist.n \in Nat
    BY <1>2 DEF Hists
<1>4. DOMAIN got = S /\ \A i \in S : got[i] = s[i].hist
    BY <1>1
<1>5. got \in [S -> T] /\ \A h \in T : \E i \in S : got[i] = h
    BY <1>1, <1>4 DEF HistsOf
<1>6. Range(got) = T
    BY <1>4, <1>5 DEF Range
<1>7. Len(got) = n
    <2>1. got = [i \in 1..n |-> s[i].hist]
        BY <1>1
    <2>2. got \in Seq(Hists)
        BY <1>1, <1>2, <2>1, IsASeq
    <2> QED
        BY <1>1, <1>4, <2>2, LenProperties
<1>8. ASSUME NEW i \in S, NEW j \in S, got[i] = got[j] PROVE i = j
    <2>1. s[i].hist = s[j].hist
        BY <1>4, <1>8
    <2>2. ~(s[i].hist.n < s[j].hist.n) /\ ~(s[j].hist.n < s[i].hist.n)
        BY <1>3, <2>1
    <2>3. ~(i < j) /\ ~(j < i)
        BY <1>1, <2>1, <2>2 DEF Sorted, SameChain
    <2> QED
        BY <1>1, <2>3
<1>9. IsFiniteSet(S) /\ Cardinality(S) = n
    <2>1. IsFiniteSet(1..n) /\ Cardinality(1..n) = IF 1 > n THEN 0 ELSE n - 1 + 1
        BY <1>1, FS_Interval
    <2> QED
        BY <1>1, <2>1
<1> HIDE DEF S, T
<1>10. got \in Surjection(S, T)
    BY <1>5 DEF Surjection
<1>11. got \in Injection(S, T)
    BY <1>4, <1>5, <1>8 DEF Injection, IsInjective
<1>12. Cardinality(T) = Cardinality(S)
    BY <1>9, <1>10, <1>11, FS_Surjection
<1> QED
    BY <1>6, <1>7, <1>9, <1>12 DEF T

(* When nothing is under way, each event has reached each endpoint once for   *)
(* every chain of scripts that the file leads it through, and no other event  *)
(* has (EveryChainOnce): if no target stands twice in the list of a stream,   *)
(* and what a WASM script is given and emits fits its memory.                 *)
THEOREM EveryEventArrives == Spec /\ TargetsOnce /\ Fits => []EveryChainOnce
<1>1. Init => Followed
    BY RoutedInit DEF Followed
<1>2. Base /\ Followed => EveryChainOnce
    <2> SUFFICES ASSUME Base, Followed, Quiet, NEW id \in DOMAIN endpoints
                 PROVE  LET got == [i \in DOMAIN received[id] |-> received[id][i].hist]
                        IN /\ Range(got) = Histories(id)
                           /\ Len(got) = Cardinality(Histories(id))
        BY DEF EveryChainOnce
    <2> DEFINE s == received[id]
               got == [i \in DOMAIN s |-> s[i].hist]
    <2>1. PICK W : Ordered(W, received, queue, outs, job, sent) /\ Routed(W, received, queue, outs, job)
        BY DEF Followed
    <2>2. Histories(id) = HistsOf(s)
        BY <2>1, HistoriesAre
    <2>3. s \in Seq(Mail) /\ Sorted(s)
        BY <2>1 DEF Base, Shapes, Ordered, EndpointsInOrder
    <2>4. got = [i \in DOMAIN s |-> s[i].hist]
        OBVIOUS
    <2> HIDE DEF got
    <2>5. Range(got) = HistsOf(s) /\ Len(got) = Cardinality(HistsOf(s))
        BY <2>3, <2>4, SortedCounts
    <2> QED
        BY <2>2, <2>5 DEF got
<1>3. Base /\ (TargetsOnce /\ Followed) /\ Fits /\ [Next]_vars => (TargetsOnce /\ Followed)'
    BY FollowStep
<1>4. Spec => []Base
    BY BaseHolds
<1>5. Fits => []Fits
    <2>1. Fits => Fits'
        BY DEF Fits
    <2> QED
        BY <2>1, PTL
<1> QED
    BY <1>1, <1>2, <1>3, <1>4, <1>5, PTL DEF Spec
=============================================================================
