-------------------------- MODULE BlockStoreProofs --------------------------
(***************************************************************************)
(* With one goroutine that puts, and any number that get and iterate:      *)
(* a Get never meets an insertion, a loop that no insertion disturbs       *)
(* yields every block and no error, only a loop that is disturbed may end  *)
(* the process, and what was put is iterated from then on.                 *)
(***************************************************************************)
EXTENDS BlockStore, TLAPS

\* At most one goroutine puts.
SinglePutter == \A t, u \in Putters : t = u

----------------------------------------------------------------------------
(* Lists of keys.                                                          *)

\* What the first k cells hold.
Firsts(s, k) == {s[i] : i \in 1..k}

\* The first n cells of an array hold the blocks S, each of them once.
Lists(s, n, S) ==
    /\ n \in 0..Len(s) /\ S = Firsts(s, n)
    /\ \A i, j \in 1..n : s[i] = s[j] => i = j

LEMMA FirstsNext ==
    ASSUME NEW s, NEW k \in Nat \ {0}
    PROVE  Firsts(s, k) = Firsts(s, k - 1) \cup {s[k]}
<1>1. 1..k = 1..k - 1 \cup {k}
    OBVIOUS
<1> QED BY <1>1 DEF Firsts

\* One cell more, with a block that is not there yet.
LEMMA ListsNext ==
    ASSUME NEW s, NEW n \in 1..Len(s), Len(s) \in Nat, NEW S, NEW b, b \notin S,
           Lists(s, n - 1, S), s[n] = b
    PROVE  Lists(s, n, S \cup {b})
<1>1. Firsts(s, n) = S \cup {b}
    BY FirstsNext DEF Lists
<1>2. \A i \in 1..n - 1 : s[i] \in S
    BY DEF Lists, Firsts
<1>3. ASSUME NEW i \in 1..n, NEW j \in 1..n, s[i] = s[j] PROVE i = j
    <2>1. (i = n \/ i \in 1..n - 1) /\ (j = n \/ j \in 1..n - 1)
        OBVIOUS
    <2> QED BY <1>2, <1>3, <2>1 DEF Lists
<1> QED BY <1>1, <1>3 DEF Lists

\* The same cells in another array, or with others behind them.
LEMMA ListsCopy ==
    ASSUME NEW s, NEW r, NEW n \in Nat, NEW S, Lists(s, n, S), Len(r) \in Nat, n <= Len(r),
           \A i \in 1..n : r[i] = s[i]
    PROVE  Lists(r, n, S)
<1>1. Firsts(r, n) = Firsts(s, n)
    BY DEF Firsts
<1> QED BY <1>1 DEF Lists

----------------------------------------------------------------------------
(* The inductive invariant.                                                *)

\* A goroutine in Put holds the lock to read; from its insertion into the map to the
\* last store of its append the keys and the map need not agree.
InPut == {"put", "inserting", "append", "store", "unlock"}

Types ==
    /\ arrays \in Seq(Seq(Block \cup {None}))
    /\ keys \in [Word -> Nat] /\ keys.array \in 1..Len(arrays)
    /\ blks \subseteq Block /\ put \subseteq Block
    /\ readers \subseteq Thread /\ writer \in Thread \cup {None}
    /\ pc \in [Thread -> {"idle", "put", "inserting", "append", "store", "unlock", "get", "range"}]
    /\ arg \in [Thread -> Block]
    /\ word \in [Thread -> [Word -> Nat \cup {None}]]
    /\ stores \in [Thread -> SUBSET {"array", "length", "element"}]
    /\ at \in [Thread -> Nat] /\ yielded \in [Thread -> SUBSET (Block \cup {None})]
    /\ raced \subseteq Thread /\ fatal \in Thread \cup {None}

\* Who is where holds what, and a Get holds it alone.
Locks ==
    /\ \A t \in Thread : /\ pc[t] \in InPut => t \in readers /\ t \in Putters
                         /\ pc[t] = "get" => writer = t
    /\ writer # None => readers = {}

\* What a thread has read of the header is what it is now.
Current(t) == \A w \in Word : word[t][w] \in {None, keys[w]}

\* The keys of the store are those of the blocks S.
KeysAre(S) == Lists(arrays[keys.array], keys.length, S)

\* What an append has computed, and what of it is stored.
Appending(t) ==
    LET a == word[t].array
        n == word[t].length
    IN  /\ a \in 1..Len(arrays) /\ n \in 1..Len(arrays[a])
        /\ Lists(arrays[a], n - 1, blks \ {arg[t]})
        /\ "element" \in stores[t] \/ arrays[a][n] = arg[t]
        /\ \A w \in Word : w \in stores[t] \/ keys[w] = word[t][w]

\* The map and the keys agree, but for the block that is between the two.
Content ==
    /\ put \subseteq blks
    /\ (\A t \in Thread : pc[t] \notin {"append", "store"}) => KeysAre(blks)
    /\ \A t \in Thread :
          /\ pc[t] = "inserting" => arg[t] \notin blks
          /\ pc[t] \in {"append", "store", "unlock"} => arg[t] \in blks
          /\ pc[t] = "append" => KeysAre(blks \ {arg[t]}) /\ Current(t)
          /\ pc[t] = "store" => Appending(t)

\* A loop that no insertion has disturbed has yielded the blocks it has come to.
Undisturbed(t) ==
    /\ Inserting = {}
    /\ Current(t)
    /\ at[t] \in 1..keys.length + 1
    /\ yielded[t] = Firsts(arrays[keys.array], at[t] - 1)

Loops ==
    \A t \in Thread :
        /\ yielded[t] \subseteq blks \cup {None}
        /\ pc[t] # "range" => at[t] = 1 /\ yielded[t] = {}
        /\ pc[t] \notin {"append", "store", "unlock", "range"} => word[t] = Unread
        /\ pc[t] = "range" /\ t \notin raced => Undisturbed(t)

IInv == Types /\ Locks /\ Content /\ Loops /\ FatalOnlyInIteration

\* Two goroutines are never in Put.
LEMMA OneInPut ==
    ASSUME SinglePutter, Locks, NEW t \in Thread, NEW u \in Thread,
           pc[t] \in InPut, pc[u] \in InPut
    PROVE  t = u
BY DEF SinglePutter, Locks

\* Who holds the lock to write, or could, is alone.
LEMMA Alone ==
    ASSUME Locks, NEW t \in Thread, pc[t] = "get" \/ readers = {}
    PROVE  (\A u \in Thread : pc[u] \notin InPut) /\ Inserting = {}
<1>1. \A u \in Thread : pc[u] \notin InPut
    BY StoreAssumption DEF Locks
<1> QED BY <1>1 DEF Inserting, InPut

\* Between two insertions the keys are those of the map, each once.
LEMMA KeysOfMap ==
    ASSUME Types, KeysAre(blks)
    PROVE  /\ Keys = blks
           /\ \A i, j \in 1..keys.length : Cell(keys.array, i) = Cell(keys.array, j) => i = j
<1> DEFINE s == arrays[keys.array]
<1>1. s \in Seq(Block \cup {None}) /\ keys.length \in Nat /\ keys.length <= Len(s)
    BY DEF Types, KeysAre, Lists, Word
<1>2. \A i \in 1..keys.length : Cell(keys.array, i) = s[i]
    BY <1>1 DEF Cell
<1>3. blks = {s[i] : i \in 1..keys.length} /\ \A i, j \in 1..keys.length : s[i] = s[j] => i = j
    BY DEF KeysAre, Lists, Firsts
<1> HIDE DEF s
<1>4. Keys = {s[i] : i \in 1..keys.length}
    BY <1>2 DEF Keys
<1> QED BY <1>2, <1>3, <1>4

\* The invariant gives the types.
LEMMA InvType == IInv => TypeOK
<1> SUFFICES ASSUME IInv PROVE TypeOK
    OBVIOUS
<1>1. ASSUME Inserting = {}
      PROVE  /\ Keys = blks
             /\ \A i, j \in 1..keys.length : Cell(keys.array, i) = Cell(keys.array, j) => i = j
    <2>1. \A t \in Thread : pc[t] \notin {"append", "store"}
        BY <1>1 DEF Inserting
    <2>2. KeysAre(blks)
        BY <2>1 DEF IInv, Content
    <2> QED BY <2>2, KeysOfMap DEF IInv
<1>2. keys.array \in DOMAIN arrays /\ keys.length \in Nat
    BY DEF IInv, Types, Word
<1> QED BY <1>1, <1>2 DEF IInv, Types, TypeOK

\* The invariant holds initially.
LEMMA InitIInv == Init => IInv
<1> SUFFICES ASSUME Init PROVE IInv
    OBVIOUS
<1>1. arrays \in Seq(Seq(Block \cup {None})) /\ Len(arrays) = 1 /\ Len(arrays[1]) = 0
    <2>1. <<>> \in Seq(Block \cup {None})
        OBVIOUS
    <2> QED BY <2>1 DEF Init
<1>2. keys \in [Word -> Nat] /\ keys.array = 1 /\ keys.length = 0
    BY DEF Init, Word
<1>3. Types
    <2>1. (CHOOSE b \in Block : TRUE) \in Block
        BY StoreAssumption
    <2>2. Unread \in [Word -> Nat \cup {None}]
        BY DEF Unread
    <2>3. keys.array \in 1..Len(arrays)
        BY <1>1, <1>2
    <2> QED BY <1>1, <1>2, <2>1, <2>2, <2>3 DEF Init, Types
<1>4. Locks
    BY StoreAssumption DEF Init, Locks, InPut
<1>5. KeysAre(blks)
    BY <1>1, <1>2 DEF KeysAre, Lists, Firsts, Init
<1>6. Content
    BY <1>5 DEF Init, Content
<1>7. Loops
    BY DEF Init, Loops
<1> QED BY <1>3, <1>4, <1>6, <1>7 DEF IInv, Init, FatalOnlyInIteration

\* A thread outside of an insertion changes nothing of the store.
LEMMA Leaves ==
    ASSUME Content, UNCHANGED <<slice, blks, stores>>, put' \subseteq blks, NEW t \in Thread,
           \A u \in Thread \ {t} : /\ pc'[u] = pc[u] /\ arg'[u] = arg[u]
                                   /\ word'[u] = word[u],
           pc[t] \notin {"append", "store"}, pc'[t] \notin {"append", "store"},
           pc'[t] = "inserting" => arg'[t] \notin blks,
           pc'[t] = "unlock" => arg'[t] \in blks
    PROVE  Content'
<1>1. /\ \A S : KeysAre(S)' <=> KeysAre(S)
      /\ \A u \in Thread \ {t} : (Current(u)' <=> Current(u)) /\ (Appending(u)' <=> Appending(u))
    BY DEF KeysAre, Current, Appending, slice
<1> QED BY <1>1 DEF Content

\* No loop is disturbed by a thread that begins no insertion.
LEMMA Undisturbing ==
    ASSUME Loops, UNCHANGED <<slice, blks>>, NEW t \in Thread, raced \ {t} \subseteq raced',
           \A u \in Thread \ {t} : /\ pc'[u] = pc[u] /\ word'[u] = word[u] /\ at'[u] = at[u]
                                   /\ yielded'[u] = yielded[u],
           Inserting' \subseteq Inserting
    PROVE  \A u \in Thread \ {t} :
              /\ yielded'[u] \subseteq blks' \cup {None}
              /\ pc'[u] # "range" => at'[u] = 1 /\ yielded'[u] = {}
              /\ pc'[u] \notin {"append", "store", "unlock", "range"} => word'[u] = Unread
              /\ pc'[u] = "range" /\ u \notin raced' => Undisturbed(u)'
<1>1. \A u \in Thread \ {t} : Undisturbed(u) => Undisturbed(u)'
    BY DEF Undisturbed, Current, slice
<1> QED BY <1>1 DEF Loops, slice

\* Every step keeps the invariant; an insertion is alone with the store for want of
\* another one, and the lock keeps a Get and the call of Iterator out of it.
LEMMA StepIInv ==
    ASSUME SinglePutter, IInv, [Next]_vars
    PROVE  IInv'
<1> USE DEF IInv
<1>1. ASSUME NEW t \in Thread, PutLock(t) PROVE IInv'
    <2>0. \A u \in Thread \ {t} : pc'[u] = pc[u] /\ arg'[u] = arg[u] /\ word'[u] = word[u]
                                  /\ at'[u] = at[u] /\ yielded'[u] = yielded[u]
        BY <1>1 DEF PutLock, At, Goto, Call, loop, Types
    <2>1. Types'
        BY <1>1 DEF PutLock, At, Goto, Call, slice, lock, loop, Types, Unread
    <2>2. Locks'
        BY <1>1, StoreAssumption DEF PutLock, At, Goto, Call, lock, Types, Locks, InPut
    <2>3. Content'
        <3>1. put' \subseteq blks /\ UNCHANGED <<slice, blks, stores>>
            BY <1>1 DEF PutLock, At, Goto, Call, Content
        <3>2. pc[t] \notin {"append", "store"} /\ pc'[t] \notin {"append", "store", "inserting", "unlock"}
            BY <1>1 DEF PutLock, At, Goto, Call, Types
        <3> QED BY <2>0, <3>1, <3>2, Leaves
    <2>4. Loops'
        <3>1. Inserting' = Inserting /\ UNCHANGED <<slice, blks, raced>>
            BY <1>1 DEF PutLock, At, Goto, Call, Types, Inserting
        <3>2. /\ yielded'[t] = {} /\ at'[t] = 1 /\ word'[t] = Unread
              /\ pc'[t] # "range"
            BY <1>1 DEF PutLock, At, Goto, Call, loop, Types, Loops
        <3> QED BY <2>0, <3>1, <3>2, Undisturbing DEF Loops
    <2>5. FatalOnlyInIteration'
        BY <1>1 DEF PutLock, At, FatalOnlyInIteration
    <2> QED BY <2>1, <2>2, <2>3, <2>4, <2>5 DEF IInv
<1>2. ASSUME NEW t \in Thread, PutReturn(t) PROVE IInv'
    <2>0. \A u \in Thread \ {t} : pc'[u] = pc[u] /\ arg'[u] = arg[u] /\ word'[u] = word[u]
                                  /\ at'[u] = at[u] /\ yielded'[u] = yielded[u]
        BY <1>2 DEF PutReturn, At, Goto, loop, Types
    <2>1. Types'
        BY <1>2 DEF PutReturn, At, Goto, slice, lock, loop, Types, Unread
    <2>2. Locks'
        BY <1>2, StoreAssumption DEF PutReturn, At, Goto, lock, Types, Locks, InPut
    <2>3. Content'
        <3>1. put' \subseteq blks /\ UNCHANGED <<slice, blks, stores>>
            BY <1>2 DEF PutReturn, At, Goto, Content
        <3>2. pc[t] \notin {"append", "store"} /\ pc'[t] \notin {"append", "store", "inserting", "unlock"}
            BY <1>2 DEF PutReturn, At, Goto, Types
        <3> QED BY <2>0, <3>1, <3>2, Leaves
    <2>4. Loops'
        <3>1. Inserting' = Inserting /\ UNCHANGED <<slice, blks, raced>>
            BY <1>2 DEF PutReturn, At, Goto, Types, Inserting
        <3>2. /\ yielded'[t] = {} /\ at'[t] = 1 /\ word'[t] = Unread
              /\ pc'[t] # "range"
            BY <1>2 DEF PutReturn, At, Goto, loop, Types, Loops
        <3> QED BY <2>0, <3>1, <3>2, Undisturbing DEF Loops
    <2>5. FatalOnlyInIteration'
        BY <1>2 DEF PutReturn, At, FatalOnlyInIteration
    <2> QED BY <2>1, <2>2, <2>3, <2>4, <2>5 DEF IInv
<1>3. ASSUME NEW t \in Thread, GetLock(t) PROVE IInv'
    <2>0. \A u \in Thread \ {t} : pc'[u] = pc[u] /\ arg'[u] = arg[u] /\ word'[u] = word[u]
                                  /\ at'[u] = at[u] /\ yielded'[u] = yielded[u]
        BY <1>3 DEF GetLock, At, Goto, Call, loop, Types
    <2>1. Types'
        BY <1>3 DEF GetLock, At, Goto, Call, slice, lock, loop, Types, Unread
    <2>2. Locks'
        BY <1>3, StoreAssumption DEF GetLock, At, Goto, Call, lock, Types, Locks, InPut
    <2>3. Content'
        <3>1. put' \subseteq blks /\ UNCHANGED <<slice, blks, stores>>
            BY <1>3 DEF GetLock, At, Goto, Call, Content
        <3>2. pc[t] \notin {"append", "store"} /\ pc'[t] \notin {"append", "store", "inserting", "unlock"}
            BY <1>3 DEF GetLock, At, Goto, Call, Types
        <3> QED BY <2>0, <3>1, <3>2, Leaves
    <2>4. Loops'
        <3>1. Inserting' = Inserting /\ UNCHANGED <<slice, blks, raced>>
            BY <1>3 DEF GetLock, At, Goto, Call, Types, Inserting
        <3>2. /\ yielded'[t] = {} /\ at'[t] = 1 /\ word'[t] = Unread
              /\ pc'[t] # "range"
            BY <1>3 DEF GetLock, At, Goto, Call, loop, Types, Loops
        <3> QED BY <2>0, <3>1, <3>2, Undisturbing DEF Loops
    <2>5. FatalOnlyInIteration'
        BY <1>3 DEF GetLock, At, FatalOnlyInIteration
    <2> QED BY <2>1, <2>2, <2>3, <2>4, <2>5 DEF IInv
<1>4. ASSUME NEW t \in Thread, GetLookup(t) PROVE IInv'
    <2>0. \A u \in Thread \ {t} : pc'[u] = pc[u] /\ arg'[u] = arg[u] /\ word'[u] = word[u]
                                  /\ at'[u] = at[u] /\ yielded'[u] = yielded[u]
        BY <1>4 DEF GetLookup, At, Goto, loop, Types
    <2>1. Types'
        BY <1>4 DEF GetLookup, At, Goto, slice, lock, loop, Types, Unread
    <2>2. Locks'
        BY <1>4, StoreAssumption DEF GetLookup, At, Goto, lock, Types, Locks, InPut
    <2>3. Content'
        <3>1. put' \subseteq blks /\ UNCHANGED <<slice, blks, stores>>
            BY <1>4 DEF GetLookup, At, Goto, Content
        <3>2. pc[t] \notin {"append", "store"} /\ pc'[t] \notin {"append", "store", "inserting", "unlock"}
            BY <1>4 DEF GetLookup, At, Goto, Types
        <3> QED BY <2>0, <3>1, <3>2, Leaves
    <2>4. Loops'
        <3>1. Inserting' = Inserting /\ UNCHANGED <<slice, blks, raced>>
            BY <1>4 DEF GetLookup, At, Goto, Types, Inserting
        <3>2. /\ yielded'[t] = {} /\ at'[t] = 1 /\ word'[t] = Unread
              /\ pc'[t] # "range"
            BY <1>4 DEF GetLookup, At, Goto, loop, Types, Loops
        <3> QED BY <2>0, <3>1, <3>2, Undisturbing DEF Loops
    <2>5. FatalOnlyInIteration'
        BY <1>4 DEF GetLookup, At, FatalOnlyInIteration
    <2> QED BY <2>1, <2>2, <2>3, <2>4, <2>5 DEF IInv
<1>5. ASSUME NEW t \in Thread, EndLoop(t) PROVE IInv'
    <2>0. \A u \in Thread \ {t} : pc'[u] = pc[u] /\ arg'[u] = arg[u] /\ word'[u] = word[u]
                                  /\ at'[u] = at[u] /\ yielded'[u] = yielded[u]
        BY <1>5 DEF EndLoop, At, Goto, Leave, loop, Types
    <2>1. Types'
        BY <1>5 DEF EndLoop, At, Goto, Leave, slice, lock, loop, Types, Unread
    <2>2. Locks'
        BY <1>5, StoreAssumption DEF EndLoop, At, Goto, Leave, lock, Types, Locks, InPut
    <2>3. Content'
        <3>1. put' \subseteq blks /\ UNCHANGED <<slice, blks, stores>>
            BY <1>5 DEF EndLoop, At, Goto, Leave, Content
        <3>2. pc[t] \notin {"append", "store"} /\ pc'[t] \notin {"append", "store", "inserting", "unlock"}
            BY <1>5 DEF EndLoop, At, Goto, Leave, Types
        <3> QED BY <2>0, <3>1, <3>2, Leaves
    <2>4. Loops'
        <3>1. Inserting' = Inserting /\ UNCHANGED <<slice, blks, raced>>
            BY <1>5 DEF EndLoop, At, Goto, Leave, Types, Inserting
        <3>2. /\ yielded'[t] = {} /\ at'[t] = 1 /\ word'[t] = Unread
              /\ pc'[t] # "range"
            BY <1>5 DEF EndLoop, At, Goto, Leave, loop, Types, Loops
        <3> QED BY <2>0, <3>1, <3>2, Undisturbing DEF Loops
    <2>5. FatalOnlyInIteration'
        BY <1>5 DEF EndLoop, At, FatalOnlyInIteration
    <2> QED BY <2>1, <2>2, <2>3, <2>4, <2>5 DEF IInv
<1>6. ASSUME NEW t \in Thread, Stop(t) PROVE IInv'
    <2>0. \A u \in Thread \ {t} : pc'[u] = pc[u] /\ arg'[u] = arg[u] /\ word'[u] = word[u]
                                  /\ at'[u] = at[u] /\ yielded'[u] = yielded[u]
        BY <1>6 DEF Stop, At, Goto, Leave, loop, Types
    <2>1. Types'
        BY <1>6 DEF Stop, At, Goto, Leave, slice, lock, loop, Types, Unread
    <2>2. Locks'
        BY <1>6, StoreAssumption DEF Stop, At, Goto, Leave, lock, Types, Locks, InPut
    <2>3. Content'
        <3>1. put' \subseteq blks /\ UNCHANGED <<slice, blks, stores>>
            BY <1>6 DEF Stop, At, Goto, Leave, Content
        <3>2. pc[t] \notin {"append", "store"} /\ pc'[t] \notin {"append", "store", "inserting", "unlock"}
            BY <1>6 DEF Stop, At, Goto, Leave, Types
        <3> QED BY <2>0, <3>1, <3>2, Leaves
    <2>4. Loops'
        <3>1. Inserting' = Inserting /\ UNCHANGED <<slice, blks, raced>>
            BY <1>6 DEF Stop, At, Goto, Leave, Types, Inserting
        <3>2. /\ yielded'[t] = {} /\ at'[t] = 1 /\ word'[t] = Unread
              /\ pc'[t] # "range"
            BY <1>6 DEF Stop, At, Goto, Leave, loop, Types, Loops
        <3> QED BY <2>0, <3>1, <3>2, Undisturbing DEF Loops
    <2>5. FatalOnlyInIteration'
        BY <1>6 DEF Stop, At, FatalOnlyInIteration
    <2> QED BY <2>1, <2>2, <2>3, <2>4, <2>5 DEF IInv
<1>7. ASSUME NEW t \in Thread, Iterator(t) PROVE IInv'
    <2>0. \A u \in Thread \ {t} : pc'[u] = pc[u] /\ arg'[u] = arg[u] /\ word'[u] = word[u]
                                  /\ at'[u] = at[u] /\ yielded'[u] = yielded[u]
        BY <1>7 DEF Iterator, Goto, loop, Types
    <2>1. Types'
        BY <1>7 DEF Iterator, At, Goto, slice, lock, loop, Types
    <2>2. Locks'
        BY <1>7, StoreAssumption DEF Iterator, At, Goto, lock, Types, Locks, InPut
    <2>3. Content'
        <3>1. put' \subseteq blks /\ UNCHANGED <<slice, blks, stores>>
            BY <1>7 DEF Iterator, Content
        <3>2. pc[t] \notin {"append", "store"} /\ pc'[t] = "range"
            BY <1>7 DEF Iterator, At, Goto, Types
        <3> QED BY <2>0, <3>1, <3>2, Leaves
    <2>4. Loops'
        <3>1. Inserting = {} /\ Inserting' = Inserting /\ raced' = raced \ {t}
              /\ UNCHANGED <<slice, blks>>
            BY <1>7, Alone DEF Iterator, At, Goto, Types, Inserting
        <3>2. /\ yielded'[t] = {} /\ at'[t] = 1 /\ word'[t] = Unread /\ pc'[t] = "range"
            BY <1>7 DEF Iterator, At, Goto, loop, Types, Loops
        <3>3. Undisturbed(t)'
            <4>1. keys.length \in Nat /\ keys' = keys
                BY <3>1 DEF Types, Word, slice
            <4>2. 1 \in 1..keys.length + 1 /\ Firsts(arrays[keys.array], 0) = {}
                BY <4>1 DEF Firsts
            <4>3. Current(t)'
                BY <3>2 DEF Current, Unread
            <4> QED BY <3>1, <3>2, <4>1, <4>2, <4>3 DEF Undisturbed, slice
        <3> QED BY <2>0, <3>1, <3>2, <3>3, Undisturbing DEF Loops
    <2>5. FatalOnlyInIteration'
        BY <1>7 DEF Iterator, At, FatalOnlyInIteration
    <2> QED BY <2>1, <2>2, <2>3, <2>4, <2>5 DEF IInv
<1>8. ASSUME NEW t \in Thread, Yield(t) PROVE IInv'
    <2>0. \A u \in Thread \ {t} : pc'[u] = pc[u] /\ arg'[u] = arg[u] /\ word'[u] = word[u]
                                  /\ at'[u] = at[u] /\ yielded'[u] = yielded[u]
        BY <1>8 DEF Yield, Types
    <2>6. PICK y \in Yields(t) : yielded' = [yielded EXCEPT ![t] = @ \cup {y}]
        BY <1>8 DEF Yield
    <2>7. y \in blks \cup {None}
        BY <2>6 DEF Yields
    <2>8. at'[t] = at[t] + 1 /\ yielded'[t] = yielded[t] \cup {y} /\ word'[t] = word[t]
          /\ pc[t] = "range" /\ pc'[t] = "range" /\ at[t] \in Nat
        BY <1>8, <2>6 DEF Yield, Looping, Types
    <2>1. Types'
        BY <1>8, <2>6, <2>7 DEF Yield, slice, lock, Types
    <2>2. Locks'
        BY <1>8 DEF Yield, lock, Locks
    <2>3. Content'
        <3>1. put' \subseteq blks /\ UNCHANGED <<slice, blks, stores>>
            BY <1>8 DEF Yield, Content
        <3> QED BY <2>0, <2>8, <3>1, Leaves
    <2>4. Loops'
        <3>1. Inserting' = Inserting /\ UNCHANGED <<slice, blks, raced>>
            BY <1>8 DEF Yield, Inserting
        <3>2. ASSUME t \notin raced PROVE Undisturbed(t)'
            <4> DEFINE s == arrays[keys.array]
            <4>1. Undisturbed(t)
                BY <2>8, <3>2 DEF Loops
            <4>2. KeysAre(blks) /\ keys.length \in Nat
                BY <4>1 DEF Undisturbed, Inserting, Content, Types, Word
            <4>3. word[t].array = keys.array /\ word[t].length = keys.length
                BY <1>8, <4>1 DEF Yield, Looping, Read, Undisturbed, Current, Word
            <4>4. at[t] \in 1..keys.length
                BY <1>8, <4>1, <4>2, <4>3 DEF Yield, Looping, Undisturbed
            <4>5. s \in Seq(Block \cup {None}) /\ keys.length <= Len(s)
                BY <4>2 DEF Types, KeysAre, Lists
            <4>6. at[t] \in DOMAIN s
                BY <4>2, <4>4, <4>5
            <4>7. s[at[t]] \in blks
                BY <4>2, <4>4 DEF KeysAre, Lists, Firsts
            <4>8. y = s[at[t]]
                BY <2>6, <3>2, <4>3, <4>6, <4>7 DEF Yields, Cell
            <4>9. Firsts(s, at[t]) = Firsts(s, at[t] - 1) \cup {y}
                BY <4>4, <4>8, FirstsNext
            <4>10. yielded'[t] = Firsts(s, at'[t] - 1) /\ at'[t] \in 1..keys.length + 1
                BY <2>8, <4>1, <4>2, <4>4, <4>9 DEF Undisturbed
            <4> QED BY <2>8, <3>1, <4>1, <4>10 DEF Undisturbed, Current, slice
        <3> QED BY <2>0, <2>7, <2>8, <3>1, <3>2, Undisturbing DEF Loops
    <2>5. FatalOnlyInIteration'
        BY <1>8 DEF Yield, FatalOnlyInIteration
    <2> QED BY <2>1, <2>2, <2>3, <2>4, <2>5 DEF IInv
<1>9. ASSUME NEW t \in Thread, Load(t) PROVE IInv'
    <2>6. PICK w \in Word : word[t][w] = None /\ word' = [word EXCEPT ![t][w] = keys[w]]
        BY <1>9 DEF Load
    <2>7. keys[w] \in Nat
        BY DEF Types
    <2>0. \A u \in Thread \ {t} : pc'[u] = pc[u] /\ arg'[u] = arg[u] /\ word'[u] = word[u]
                                  /\ at'[u] = at[u] /\ yielded'[u] = yielded[u]
        BY <1>9, <2>6 DEF Load, loop, Types
    <2>8. UNCHANGED <<slice, blks, lock, pc, arg, stores, loop, raced, put, got, fatal>>
          /\ pc[t] \in {"append", "range"}
        BY <1>9 DEF Load
    <2>9. Current(t) => Current(t)'
        BY <2>6, <2>8 DEF Current, slice, Types
    <2>1. Types'
        BY <2>6, <2>7, <2>8 DEF slice, lock, loop, Types
    <2>2. Locks'
        BY <2>8 DEF lock, Locks
    <2>3. Content'
        <3>1. /\ \A S : KeysAre(S)' <=> KeysAre(S)
              /\ \A u \in Thread \ {t} : (Current(u)' <=> Current(u)) /\ (Appending(u)' <=> Appending(u))
            BY <2>0, <2>8 DEF KeysAre, Current, Appending, slice
        <3> QED BY <2>8, <2>9, <3>1 DEF Content
    <2>4. Loops'
        <3>1. Inserting' = Inserting
            BY <2>8 DEF Inserting
        <3>2. \A u \in Thread : Undisturbed(u) => Undisturbed(u)'
            BY <2>0, <2>8, <2>9, <3>1 DEF Undisturbed, Current, slice, loop
        <3> QED BY <2>0, <2>8, <3>2 DEF Loops, loop
    <2>5. FatalOnlyInIteration'
        BY <2>8 DEF FatalOnlyInIteration
    <2> QED BY <2>1, <2>2, <2>3, <2>4, <2>5 DEF IInv
<1>10. ASSUME NEW t \in Thread, PutLookup(t) PROVE IInv'
    <2>0. /\ \A u \in Thread \ {t} : pc'[u] = pc[u] /\ pc[u] \notin InPut
          /\ pc[t] = "put" /\ UNCHANGED <<slice, blks, lock, arg, word, stores, loop, put, got, fatal>>
        BY <1>10, OneInPut DEF PutLookup, At, Goto, Types, InPut
    <2>1. Types'
        BY <1>10 DEF PutLookup, At, Goto, slice, lock, loop, Types
    <2>2. Locks'
        BY <1>10, StoreAssumption DEF PutLookup, At, Goto, lock, Types, Locks, InPut
    <2>3. Content'
        <3>1. \/ arg[t] \in blks /\ pc'[t] = "unlock"
              \/ arg[t] \notin blks /\ pc'[t] = "inserting"
            BY <1>10 DEF PutLookup, Goto, Types
        <3>2. put \subseteq blks
            BY DEF Content
        <3> QED BY <2>0, <3>1, <3>2, Leaves
    <2>4. Loops'
        <3>1. CASE arg[t] \in blks
            <4>1. pc'[t] = "unlock" /\ raced' = raced
                BY <1>10, <3>1 DEF PutLookup, Goto, Types
            <4>2. Inserting' \subseteq Inserting
                BY <2>0, <4>1 DEF Inserting
            <4> QED BY <2>0, <4>1, <4>2, Undisturbing DEF Loops, loop
        <3>2. CASE arg[t] \notin blks
            <4>1. pc'[t] = "inserting" /\ raced' = Thread
                BY <1>10, <3>2 DEF PutLookup, Goto, Types
            <4> QED BY <2>0, <4>1 DEF Loops, loop
        <3> QED BY <3>1, <3>2
    <2>5. FatalOnlyInIteration'
        BY <1>10 DEF PutLookup, At, FatalOnlyInIteration
    <2> QED BY <2>1, <2>2, <2>3, <2>4, <2>5 DEF IInv
<1>11. ASSUME NEW t \in Thread, PutInsert(t) PROVE IInv'
    <2>0. /\ \A u \in Thread \ {t} : pc'[u] = pc[u] /\ pc[u] \notin InPut
          /\ pc[t] = "inserting" /\ pc'[t] = "append" /\ blks' = blks \cup {arg[t]}
          /\ UNCHANGED <<slice, lock, arg, word, stores, loop, raced, put, got, fatal>>
        BY <1>11, OneInPut DEF PutInsert, At, Goto, Types, InPut
    <2>1. Types'
        BY <1>11 DEF PutInsert, At, Goto, slice, lock, loop, Types
    <2>2. Locks'
        BY <1>11, StoreAssumption DEF PutInsert, At, Goto, lock, Types, Locks, InPut
    <2>3. Content'
        <3>1. KeysAre(blks) /\ arg[t] \notin blks /\ word[t] = Unread
            BY <2>0 DEF Content, Loops, InPut
        <3>2. blks' \ {arg'[t]} = blks
            BY <2>0, <3>1
        <3>3. KeysAre(blks \ {arg[t]})'
            BY <2>0, <3>1, <3>2 DEF KeysAre, slice
        <3>4. Current(t)'
            BY <2>0, <3>1 DEF Current, Unread
        <3>5. put' \subseteq blks'
            BY <2>0 DEF Content
        <3> QED BY <2>0, <3>3, <3>4, <3>5 DEF Content, InPut
    <2>4. Loops'
        <3>1. \A u \in Thread : pc[u] = "range" => u \in raced
            BY <2>0 DEF Loops, Undisturbed, Inserting
        <3> QED BY <2>0, <3>1 DEF Loops, loop
    <2>5. FatalOnlyInIteration'
        BY <1>11 DEF PutInsert, At, FatalOnlyInIteration
    <2> QED BY <2>1, <2>2, <2>3, <2>4, <2>5 DEF IInv
<1>12. ASSUME NEW t \in Thread, PutAppend(t) PROVE IInv'
    <2> DEFINE a == word[t].array
               n == word[t].length + 1
    <2>0. /\ \A u \in Thread \ {t} : pc'[u] = pc[u] /\ pc[u] \notin InPut
          /\ pc[t] = "append" /\ pc'[t] = "store"
          /\ UNCHANGED <<keys, blks, lock, arg, loop, raced, put, got, fatal>>
        BY <1>12, OneInPut DEF PutAppend, At, Goto, Types, InPut
    <2>6. a = keys.array /\ n = keys.length + 1 /\ keys.length \in Nat /\ a \in 1..Len(arrays)
        BY <1>12, <2>0 DEF PutAppend, Read, Content, Current, Word, Types
    <2>7. arrays[a] \in Seq(Block \cup {None}) /\ arg[t] \in blks
          /\ Lists(arrays[a], n - 1, blks \ {arg[t]})
        <3>1. n - 1 = keys.length
            BY <2>6
        <3>2. KeysAre(blks \ {arg[t]}) /\ arg[t] \in blks
            BY <2>0 DEF Content
        <3> QED BY <2>6, <3>1, <3>2 DEF Types, KeysAre
    <2>8. /\ arrays' \in Seq(Seq(Block \cup {None})) /\ Len(arrays) <= Len(arrays')
          /\ \A u \in Thread \ {t} : word'[u] = word[u]
          /\ word' \in [Thread -> [Word -> Nat \cup {None}]]
          /\ stores' \in [Thread -> SUBSET {"array", "length", "element"}]
          /\ Appending(t)'
        <3>1. CASE AppendInPlace(t, a, n)
            <4>1. /\ n <= Len(arrays[a]) /\ UNCHANGED arrays
                  /\ word' = [word EXCEPT ![t].length = n]
                  /\ stores' = [stores EXCEPT ![t] = {"length", "element"}]
                BY <3>1 DEF AppendInPlace
            <4>2. /\ word'[t].length = n /\ word'[t].array = a
                  /\ stores'[t] = {"length", "element"}
                  /\ \A u \in Thread \ {t} : word'[u] = word[u]
                  /\ word' \in [Thread -> [Word -> Nat \cup {None}]]
                  /\ stores' \in [Thread -> SUBSET {"array", "length", "element"}]
                BY <2>6, <4>1 DEF Types, Word
            <4>3. n \in 1..Len(arrays[a])
                BY <2>6, <2>7, <4>1
            <4>4. Appending(t)'
                BY <2>0, <2>6, <2>7, <4>1, <4>2, <4>3 DEF Appending, Word
            <4>5. arrays' \in Seq(Seq(Block \cup {None})) /\ Len(arrays) <= Len(arrays')
                BY <4>1 DEF Types
            <4> QED BY <4>2, <4>4, <4>5
        <3>2. CASE AppendGrowing(t, a, n)
            <4>1. PICK c \in Capacities :
                     /\ c >= n
                     /\ arrays' = Append(arrays, [i \in 1..c |-> IF i < n THEN Cell(a, i) ELSE None])
                BY <3>2 DEF AppendGrowing
            <4> DEFINE s == [i \in 1..c |-> IF i < n THEN Cell(a, i) ELSE None]
                       l == Len(arrays) + 1
            <4>2. c \in Nat /\ c >= n
                BY <4>1, StoreAssumption
            <4>3. \A i \in 1..c : Cell(a, i) \in Block \cup {None}
                BY <2>7 DEF Cell
            <4>4. s \in Seq(Block \cup {None}) /\ Len(s) = c
                BY <4>2, <4>3
            <4>5. \A i \in 1..n - 1 : s[i] = arrays[a][i]
                <5>1. n - 1 <= Len(arrays[a])
                    BY <2>7 DEF Lists
                <5>2. DOMAIN arrays[a] = 1..Len(arrays[a]) /\ Len(arrays[a]) \in Nat /\ n \in Nat
                    BY <2>6, <2>7
                <5>3. ASSUME NEW i \in 1..n - 1 PROVE i \in DOMAIN arrays[a] /\ i \in 1..c /\ i < n
                    BY <4>2, <5>1, <5>2
                <5> QED BY <5>3 DEF Cell
            <4> HIDE DEF s
            <4>6. /\ arrays' \in Seq(Seq(Block \cup {None})) /\ Len(arrays') = l /\ arrays'[l] = s
                BY <4>1, <4>4 DEF Types, s
            <4>7. /\ word' = [word EXCEPT ![t] = [array |-> l, length |-> n]]
                  /\ stores' = [stores EXCEPT ![t] = {"array", "length", "element"}]
                BY <3>2 DEF AppendGrowing
            <4>8. l \in Nat /\ n \in Nat /\ Len(arrays) \in Nat
                BY <2>6 DEF Types
            <4>9. /\ word'[t].array = l /\ word'[t].length = n
                  /\ stores'[t] = {"array", "length", "element"}
                  /\ \A u \in Thread \ {t} : word'[u] = word[u]
                  /\ word' \in [Thread -> [Word -> Nat \cup {None}]]
                  /\ stores' \in [Thread -> SUBSET {"array", "length", "element"}]
                BY <4>7, <4>8 DEF Types, Word
            <4>10. Lists(s, n - 1, blks \ {arg[t]})
                <5>1. n - 1 \in Nat /\ Len(s) \in Nat /\ n - 1 <= Len(s)
                    BY <2>6, <4>2, <4>4
                <5> QED BY <2>7, <4>5, <5>1, ListsCopy
            <4>11. n \in 1..Len(s) /\ l \in 1..Len(arrays')
                BY <2>6, <4>2, <4>4, <4>6, <4>8
            <4>12. Appending(t)'
                BY <2>0, <4>6, <4>9, <4>10, <4>11 DEF Appending, Word
            <4> QED BY <4>6, <4>8, <4>9, <4>12
        <3> QED BY <1>12, <3>1, <3>2 DEF PutAppend
    <2>1. Types'
        <3>1. keys.array \in 1..Len(arrays')
            BY <2>6, <2>8
        <3> QED BY <1>12, <2>0, <2>8, <3>1 DEF PutAppend, At, Goto, lock, loop, Types
    <2>2. Locks'
        BY <1>12, StoreAssumption DEF PutAppend, At, Goto, lock, Types, Locks, InPut
    <2>3. Content'
        BY <2>0, <2>7, <2>8 DEF Content, InPut
    <2>4. Loops'
        <3>1. \A u \in Thread : pc[u] = "range" => u \in raced
            BY <2>0 DEF Loops, Undisturbed, Inserting
        <3> QED BY <2>0, <2>8, <3>1 DEF Loops, loop
    <2>5. FatalOnlyInIteration'
        BY <1>12 DEF PutAppend, At, FatalOnlyInIteration
    <2> QED BY <2>1, <2>2, <2>3, <2>4, <2>5 DEF IInv
<1>13. ASSUME NEW t \in Thread, PutStore(t) PROVE IInv'
    <2> DEFINE a == word[t].array
               n == word[t].length
    <2>0. /\ \A u \in Thread \ {t} : pc'[u] = pc[u] /\ pc[u] \notin InPut
          /\ pc[t] = "store" /\ UNCHANGED <<blks, lock, arg, word, loop, raced, put, got, fatal>>
        BY <1>13, OneInPut DEF PutStore, At, Goto, Types, InPut
    <2>6. PICK s \in stores[t] :
             /\ \/ s = "element" /\ StoreElement(t)
                \/ s \in Word /\ StoreWord(t, s)
             /\ stores' = [stores EXCEPT ![t] = @ \ {s}]
             /\ Goto(t, IF stores[t] = {s} THEN "unlock" ELSE "store")
        BY <1>13 DEF PutStore
    <2>7. /\ Appending(t) /\ arg[t] \in blks /\ arg[t] \in Block
          /\ stores'[t] = stores[t] \ {s}
          /\ pc'[t] = IF stores[t] = {s} THEN "unlock" ELSE "store"
        BY <2>0, <2>6 DEF Content, Goto, Types
    <2>8. a \in 1..Len(arrays) /\ n \in 1..Len(arrays[a]) /\ arrays[a] \in Seq(Block \cup {None})
        BY <2>7 DEF Appending, Types
    <2>9. /\ arrays' \in Seq(Seq(Block \cup {None})) /\ Len(arrays') = Len(arrays)
          /\ keys' \in [Word -> Nat] /\ keys'.array \in 1..Len(arrays)
          /\ Appending(t)'
        <3>1. CASE s = "element" /\ StoreElement(t)
            <4>1. /\ arrays' = [arrays EXCEPT ![a] = [@ EXCEPT ![n] = arg[t]]]
                  /\ UNCHANGED keys
                BY <3>1 DEF StoreElement
            <4>2. /\ arrays' \in Seq(Seq(Block \cup {None})) /\ Len(arrays') = Len(arrays)
                  /\ arrays'[a] = [arrays[a] EXCEPT ![n] = arg[t]]
                <5> DEFINE r == [arrays[a] EXCEPT ![n] = arg[t]]
                <5>1. r \in Seq(Block \cup {None})
                    BY <2>7, <2>8
                <5>2. arrays' = [arrays EXCEPT ![a] = r]
                    BY <4>1
                <5> HIDE DEF r
                <5>3. arrays \in Seq(Seq(Block \cup {None}))
                    BY DEF Types
                <5>4. arrays' \in Seq(Seq(Block \cup {None})) /\ Len(arrays') = Len(arrays)
                      /\ arrays'[a] = r
                    BY <2>8, <5>1, <5>2, <5>3
                <5> QED BY <5>4 DEF r
            <4>3. /\ Len(arrays'[a]) = Len(arrays[a]) /\ arrays'[a][n] = arg[t]
                  /\ \A i \in 1..n - 1 : arrays'[a][i] = arrays[a][i]
                BY <2>8, <4>2
            <4>4. Lists(arrays'[a], n - 1, blks \ {arg[t]})
                <5>1. n - 1 \in Nat /\ Len(arrays'[a]) \in Nat /\ n - 1 <= Len(arrays'[a])
                    BY <2>8, <4>3
                <5>2. Lists(arrays[a], n - 1, blks \ {arg[t]})
                    BY <2>7 DEF Appending
                <5> QED BY <4>3, <5>1, <5>2, ListsCopy
            <4>5. Appending(t)'
                <5>1. \A w \in Word : w \in stores'[t] \/ keys'[w] = word'[t][w]
                    BY <2>0, <2>7, <3>1, <4>1 DEF Appending, Word
                <5> QED BY <2>0, <2>8, <4>2, <4>3, <4>4, <5>1 DEF Appending
            <4> QED BY <4>1, <4>2, <4>5 DEF Types
        <3>2. CASE s \in Word /\ StoreWord(t, s)
            <4>1. keys' = [keys EXCEPT ![s] = word[t][s]] /\ UNCHANGED arrays
                BY <3>2 DEF StoreWord
            <4>2. word[t].array \in Nat /\ word[t].length \in Nat
                BY <2>8
            <4>3. word[t][s] \in Nat
                BY <3>2, <4>2 DEF Word
            <4>4. keys' \in [Word -> Nat]
                BY <4>1, <4>3 DEF Types
            <4>5. keys'.array \in 1..Len(arrays)
                BY <2>8, <3>2, <4>1 DEF Types, Word
            <4>6. \A w \in Word : w \in stores'[t] \/ keys'[w] = word'[t][w]
                BY <2>0, <2>7, <3>2, <4>1 DEF Appending, Types
            <4>7. "element" \in stores'[t] \/ arrays[a][n] = arg[t]
                BY <2>7, <3>2 DEF Appending, Word
            <4>8. Appending(t)'
                BY <2>0, <2>7, <4>1, <4>6, <4>7 DEF Appending
            <4> QED BY <4>1, <4>4, <4>5, <4>8 DEF Types
        <3> QED BY <2>6, <3>1, <3>2
    <2>1. Types'
        BY <1>13, <2>6, <2>9 DEF PutStore, At, Goto, lock, loop, Types
    <2>2. Locks'
        <3>1. pc'[t] \in InPut /\ pc'[t] # "get"
            BY <2>7 DEF InPut
        <3> QED BY <2>0, <3>1 DEF lock, Locks, InPut
    <2>3. Content'
        <3>1. CASE stores[t] # {s}
            <4>1. pc'[t] = "store"
                BY <2>7, <3>1
            <4> QED BY <2>0, <2>7, <2>9, <4>1 DEF Content, InPut
        <3>2. CASE stores[t] = {s}
            <4>1. pc'[t] = "unlock" /\ stores'[t] = {}
                BY <2>7, <3>2
            <4>2. arrays'[a][n] = arg[t] /\ keys'.array = a /\ keys'.length = n
                  /\ a \in 1..Len(arrays') /\ n \in 1..Len(arrays'[a])
                  /\ Lists(arrays'[a], n - 1, blks \ {arg[t]})
                BY <2>0, <2>9, <4>1 DEF Appending, Word
            <4>3. Len(arrays'[a]) \in Nat
                BY <2>9, <4>2
            <4>4. Lists(arrays'[a], n, (blks \ {arg[t]}) \cup {arg[t]})
                BY <4>2, <4>3, ListsNext
            <4>5. (blks \ {arg[t]}) \cup {arg[t]} = blks
                BY <2>7
            <4>6. KeysAre(blks)'
                BY <2>0, <4>2, <4>4, <4>5 DEF KeysAre
            <4> QED BY <2>0, <2>7, <4>1, <4>6 DEF Content, InPut
        <3> QED BY <3>1, <3>2
    <2>4. Loops'
        <3>1. \A u \in Thread : pc[u] = "range" => u \in raced
            BY <2>0 DEF Loops, Undisturbed, Inserting
        <3>2. pc'[t] \in {"store", "unlock"}
            BY <2>7
        <3> QED BY <2>0, <3>1, <3>2 DEF Loops, loop
    <2>5. FatalOnlyInIteration'
        BY <1>13 DEF PutStore, At, FatalOnlyInIteration
    <2> QED BY <2>1, <2>2, <2>3, <2>4, <2>5 DEF IInv
<1>14. ASSUME NEW t \in Thread, Fatal(t) PROVE IInv'
    <2>0. UNCHANGED <<slice, blks, lock, pc, arg, word, stores, loop, raced, put, got>>
          /\ fatal' = t
        BY <1>14 DEF Fatal
    <2>1. Types'
        BY <2>0 DEF slice, lock, loop, Types
    <2>2. Locks'
        BY <2>0 DEF lock, Locks
    <2>3. Content'
        BY <2>0 DEF slice, Content, KeysAre, Current, Appending
    <2>4. Loops'
        BY <2>0 DEF slice, loop, Loops, Undisturbed, Inserting, Current
    <2>5. pc[t] = "range" /\ t \in raced
        <3>1. CASE Looping(t) /\ t \in raced
            BY <3>1 DEF Looping
        <3>2. CASE AccessesMap(t) /\ MapBusy(t)
            <4>1. PICK u \in Thread \ {t} : pc[u] = "inserting"
                BY <3>2 DEF MapBusy
            <4>2. pc[t] \notin {"put", "inserting", "get"}
                BY <4>1, OneInPut, Alone DEF InPut
            <4>3. pc[t] = "range" /\ Inserting # {}
                BY <3>2, <4>1, <4>2 DEF AccessesMap, Looping, Inserting
            <4> QED BY <4>3 DEF Loops, Undisturbed
        <3> QED BY <1>14, <3>1, <3>2 DEF Fatal
    <2> QED BY <2>0, <2>1, <2>2, <2>3, <2>4, <2>5 DEF IInv, FatalOnlyInIteration
<1>15. CASE UNCHANGED vars
    BY <1>15 DEF vars, slice, lock, loop, Types, Locks, Content, KeysAre, Current, Appending,
       Loops, Undisturbed, Inserting, FatalOnlyInIteration
<1> QED
    BY <1>1, <1>2, <1>3, <1>4, <1>5, <1>6, <1>7, <1>8, <1>9, <1>10, <1>11, <1>12, <1>13, <1>14,
       <1>15 DEF Next, Step

----------------------------------------------------------------------------
(* The refinement.                                                         *)

\* A loop that no insertion has disturbed ends when it has yielded every block.
LEMMA LoopEnds ==
    ASSUME IInv, NEW t \in Thread, EndLoop(t)
    PROVE  Set!List(t)
<1>1. yielded[t] \in SUBSET (blks \cup {None})
    BY DEF IInv, Loops
<1>2. ASSUME t \notin raced PROVE yielded[t] = blks
    <2>1. Undisturbed(t) /\ keys.length \in Nat
        BY <1>2 DEF IInv, Loops, EndLoop, At, Types, Word
    <2>2. word[t].length = keys.length
        BY <2>1 DEF EndLoop, Read, Undisturbed, Current, Word
    <2>3. at[t] - 1 = keys.length
        BY <2>1, <2>2 DEF EndLoop, At, Looping, Undisturbed
    <2>4. KeysAre(blks)
        BY <2>1 DEF IInv, Content, Undisturbed, Inserting
    <2> QED BY <2>1, <2>3, <2>4 DEF Undisturbed, KeysAre, Lists
<1>3. Inserting' = Inserting
    BY DEF EndLoop, At, Leave, Goto, Inserting, IInv, Types
<1> QED BY <1>1, <1>2, <1>3 DEF EndLoop, Set!List, Set!Listed

\* A step is a step of the set where a block, a result or a loop's luck changes.
LEMMA StepRefines ==
    ASSUME IInv, IInv', [Next]_vars
    PROVE  [Set!Next]_(Set!vars)
<1> USE DEF IInv, Set!vars
<1>1. ASSUME NEW t \in Thread, PutLookup(t) PROVE UNCHANGED Set!vars \/ Set!Begin(t)
    <2>1. CASE arg[t] \in blks
        <3>1. pc[t] = "put" /\ pc' = [pc EXCEPT ![t] = "unlock"] /\ UNCHANGED <<blks, put, raced, got>>
            BY <1>1, <2>1 DEF PutLookup, At, Goto
        <3>2. Inserting' = Inserting
            BY <3>1 DEF Inserting, Types
        <3> QED BY <3>1, <3>2
    <2>2. CASE arg[t] \notin blks
        <3>1. /\ pc[t] = "put" /\ pc' = [pc EXCEPT ![t] = "inserting"] /\ raced' = Thread
              /\ UNCHANGED <<blks, put, got>>
            BY <1>1, <2>2 DEF PutLookup, At, Goto
        <3>2. Inserting' = Inserting \cup {t}
            BY <3>1 DEF Inserting, Types
        <3> QED BY <3>1, <3>2 DEF Set!Begin
    <2> QED BY <2>1, <2>2
<1>2. ASSUME NEW t \in Thread, PutInsert(t) PROVE Set!Put(arg[t])
    <2>1. Inserting' = Inserting /\ t \in Inserting
        BY <1>2 DEF PutInsert, At, Goto, Types, Inserting
    <2> QED BY <1>2, <2>1 DEF PutInsert, Set!Put
<1>3. ASSUME NEW t \in Thread, PutStore(t) PROVE UNCHANGED Set!vars \/ Set!End(t)
    <2>1. Inserting' = Inserting \/ Inserting' = Inserting \ {t}
        BY <1>3 DEF PutStore, At, Goto, Types, Inserting
    <2> QED BY <1>3, <2>1 DEF PutStore, Set!End
<1>4. ASSUME NEW t \in Thread, PutReturn(t) PROVE Set!Return(arg[t])
    <2>1. Inserting' = Inserting /\ arg[t] \in blks
        BY <1>4 DEF PutReturn, At, Goto, Types, Inserting, Content
    <2> QED BY <1>4, <2>1 DEF PutReturn, Set!Return
<1>5. ASSUME NEW t \in Thread, GetLookup(t) PROVE Set!Get(t, arg[t])
    <2>1. Inserting = {} /\ Inserting' = Inserting
        BY <1>5, Alone DEF GetLookup, At, Goto, Types, Inserting
    <2> QED BY <1>5, <2>1 DEF GetLookup, Set!Get, Set!Found
<1>6. ASSUME NEW t \in Thread, Iterator(t) PROVE Set!Open(t)
    <2>1. Inserting = {} /\ Inserting' = Inserting
        BY <1>6, Alone DEF Iterator, At, Goto, Types, Inserting
    <2>2. Thread \ raced' = (Thread \ raced) \cup {t}
        BY <1>6 DEF Iterator
    <2> QED BY <1>6, <2>1, <2>2 DEF Iterator, Set!Open
<1>7. ASSUME NEW t \in Thread,
             PutLock(t) \/ PutAppend(t) \/ GetLock(t) \/ Load(t) \/ Yield(t) \/ Stop(t) \/ Fatal(t)
      PROVE  UNCHANGED Set!vars
    <2>1. Inserting' = Inserting
        BY <1>7 DEF PutLock, PutAppend, GetLock, Load, Yield, Stop, Fatal, At, Goto, Call, Leave,
           Types, Inserting
    <2> QED BY <1>7, <2>1 DEF PutLock, PutAppend, GetLock, Load, Yield, Stop, Fatal
<1>8. \A t \in Thread : arg[t] \in Block
    BY DEF Types
<1>9. CASE UNCHANGED vars
    BY <1>9 DEF vars, Inserting
<1> QED
    BY <1>1, <1>2, <1>3, <1>4, <1>5, <1>6, <1>7, <1>8, <1>9, LoopEnds DEF Next, Step, Set!Next

\* The initial state maps to the initial state.
LEMMA InitRefines == ASSUME Init PROVE Set!Init
BY DEF Init, Inserting, Set!Init, Set!Nothing

----------------------------------------------------------------------------
(* The theorems, for one goroutine that puts.                              *)

\* The invariant holds in every state.
LEMMA Invariant == ASSUME SinglePutter PROVE Spec => []IInv
<1>1. Init => IInv
    BY InitIInv
<1>2. IInv /\ [Next]_vars => IInv'
    BY StepIInv
<1> QED BY <1>1, <1>2, PTL DEF Spec

\* Between two insertions every block has its key, once (blockstore.go 55-68).
THEOREM TypeCorrect == ASSUME SinglePutter PROVE Spec => []TypeOK
BY Invariant, InvType, PTL

\* Although Put holds the lock in the mode that lets others in, only a loop that began
\* before the last insertion can end the process (blockstore.go 55-91).
THEOREM OnlyIterationsAreUnsafe == ASSUME SinglePutter PROVE Spec => []FatalOnlyInIteration
<1>1. IInv => FatalOnlyInIteration
    BY DEF IInv
<1> QED BY <1>1, Invariant, PTL

\* What one goroutine puts is iterated from then on, however the stores of its appends
\* are ordered and its arrays grow (blockstore.go 55-68).
THEOREM PutIsIterated == ASSUME SinglePutter PROVE Spec => []AttachedIsIterated
<1>1. ASSUME IInv, readers = {} PROVE put \subseteq Keys
    <2>1. \A t \in Thread : pc[t] \notin {"append", "store"}
        BY <1>1 DEF IInv, Locks, InPut
    <2>2. KeysAre(blks) /\ put \subseteq blks
        BY <1>1, <2>1 DEF IInv, Content
    <2> QED BY <1>1, <2>2, KeysOfMap DEF IInv
<1>2. IInv => AttachedIsIterated
    BY <1>1 DEF AttachedIsIterated
<1> QED BY <1>2, Invariant, PTL

\* The store is a set that grows.  A Get sees all of it, and so does a loop unless
\* a new block is put between the call of Iterator and its end, when it may see part
\* of it and errors (blockstore.go 55-91).
THEOREM StoreIsSet == ASSUME SinglePutter PROVE Spec => ImplementsBlockSet
<1>1. Init => Set!Init
    BY InitRefines
<1>2. IInv /\ IInv' /\ [Next]_vars => [Set!Next]_(Set!vars)
    BY StepRefines
<1> QED BY <1>1, <1>2, Invariant, PTL DEF Spec, ImplementsBlockSet, Set!Spec
=============================================================================
