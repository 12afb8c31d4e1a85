----------------------------- MODULE BlockStore -----------------------------
(***************************************************************************)
(* The block store (core/dag/blockstore/blockstore.go): a map of blocks    *)
(* and the order of their keys, behind a readers-writer lock.  Put takes   *)
(* the lock to read, Get and Iterator take it to write, and what Iterator  *)
(* returns reads the store without it.                                     *)
(*                                                                         *)
(* The keys are a Go slice: words of a header, and an array of cells.  A   *)
(* word or a cell is read and stored in a step of its own, in any order    *)
(* the compiler and the processor may choose.  The capacity goes with the  *)
(* array, and a cell is stored whole; a loop that reads one half stored    *)
(* may end the process, as the runtime may when it sees a map accessed     *)
(* that another goroutine writes to.                                       *)
(*                                                                         *)
(* A thread makes one call at a time, and loops once over an iterator it   *)
(* made.                                                                   *)
(***************************************************************************)
EXTENDS Naturals, SequencesExt

CONSTANTS Thread, Block,
          Putters, Getters, Iterators,  \* the threads that call each method
          Capacities,                   \* those the runtime gives an array it allocates
          None                          \* no thread, no key, a word not read

VARIABLES keys,     \* the header of the slice of keys: the array and the length
          arrays,   \* the arrays allocated for keys
          blks,     \* the blocks in the map
          readers,  \* the threads that hold the lock to read
          writer,   \* the thread that holds it to write
          pc,       \* of each thread
          arg,      \* the block a thread puts or gets
          word,     \* the words of keys that a thread has read, or computed
          stores,   \* what an append has still to store
          at,       \* the position of a loop over the keys
          yielded,  \* what a loop has yielded, None for "missing block for key"
          raced,    \* the threads with no iterator, or with one made before some insertion
          put,      \* the blocks whose Put has returned
          got,      \* what each thread read last
          fatal     \* the thread whose access ended the process

lock  == <<readers, writer>>
slice == <<keys, arrays>>
loop  == <<at, yielded>>
vars  == <<slice, blks, lock, pc, arg, word, stores, loop, raced, put, got, fatal>>

ASSUME StoreAssumption ==
    /\ Putters \subseteq Thread /\ Getters \subseteq Thread /\ Iterators \subseteq Thread
    /\ Capacities \subseteq Nat
    /\ None \notin Thread /\ None \notin Block /\ None \notin Nat /\ Block # {}

At(t, label)    == fatal = None /\ pc[t] = label
Goto(t, label)  == pc' = [pc EXCEPT ![t] = label]
Call(t, b, to)  == Goto(t, to) /\ arg' = [arg EXCEPT ![t] = b]

Word    == {"array", "length"}
Unread  == [w \in Word |-> None]
Read(t) == \A w \in Word : word[t][w] # None

\* The key in a cell: None if nothing is stored there, or behind the array.
Cell(a, i) == IF i \in DOMAIN arrays[a] THEN arrays[a][i] ELSE None

\* The keys a loop ranges over that begins now and is left alone.
Keys == {Cell(keys.array, i) : i \in 1..keys.length}

\* The loop has a key to read.
Looping(t) == pc[t] = "range" /\ Read(t) /\ at[t] <= word[t].length

AccessesMap(t) == pc[t] \in {"put", "inserting", "get"} \/ Looping(t)

\* Another thread is writing to the map.
MapBusy(t) == \E u \in Thread \ {t} : pc[u] = "inserting"

----------------------------------------------------------------------------
(* Put.                                                                    *)

\* RLock.
PutLock(t) ==
    /\ At(t, "idle") /\ t \in Putters
    /\ writer = None
    /\ readers' = readers \cup {t}
    /\ \E b \in Block : Call(t, b, "put")
    /\ UNCHANGED <<slice, blks, writer, word, stores, loop, raced, put, got, fatal>>

\* Mutant: a block that is there is put again.
PutLookupNever(t) ==
    /\ At(t, "put")
    /\ Goto(t, "inserting") /\ raced' = Thread
    /\ UNCHANGED <<slice, blks, lock, arg, word, stores, loop, put, got, fatal>>

\* Is the block there?  If not, the insertion into the map begins.
PutLookup(t) ==
    /\ At(t, "put")
    /\ \/ arg[t] \in blks /\ Goto(t, "unlock") /\ UNCHANGED raced
       \/ arg[t] \notin blks /\ Goto(t, "inserting") /\ raced' = Thread
    /\ UNCHANGED <<slice, blks, lock, arg, word, stores, loop, put, got, fatal>>

\* The insertion ends.
PutInsert(t) ==
    /\ At(t, "inserting")
    /\ blks' = blks \cup {arg[t]}
    /\ Goto(t, "append")
    /\ UNCHANGED <<slice, lock, arg, word, stores, loop, raced, put, got, fatal>>

\* An append, or the beginning of a loop, reads a word of the header.
Load(t) ==
    /\ fatal = None /\ pc[t] \in {"append", "range"}
    /\ \E w \in Word : word[t][w] = None /\ word' = [word EXCEPT ![t][w] = keys[w]]
    /\ UNCHANGED <<slice, blks, lock, pc, arg, stores, loop, raced, put, got, fatal>>

\* The array has room for the key.
AppendInPlace(t, a, n) ==
    /\ n <= Len(arrays[a])
    /\ word' = [word EXCEPT ![t].length = n]
    /\ stores' = [stores EXCEPT ![t] = {"length", "element"}]
    /\ UNCHANGED arrays

\* The keys are copied to an array with room.
AppendGrowing(t, a, n) ==
    /\ n > Len(arrays[a])
    /\ \E c \in Capacities :
          /\ c >= n
          /\ arrays' = Append(arrays, [i \in 1..c |-> IF i < n THEN Cell(a, i) ELSE None])
    /\ word' = [word EXCEPT ![t] = [array |-> Len(arrays) + 1, length |-> n]]
    /\ stores' = [stores EXCEPT ![t] = {"array", "length", "element"}]

\* The append decides what to store.
PutAppend(t) ==
    /\ At(t, "append") /\ Read(t)
    /\ LET n == word[t].length + 1
       IN  AppendInPlace(t, word[t].array, n) \/ AppendGrowing(t, word[t].array, n)
    /\ Goto(t, "store")
    /\ UNCHANGED <<keys, blks, lock, arg, loop, raced, put, got, fatal>>

StoreElement(t) ==
    /\ arrays' = [arrays EXCEPT ![word[t].array][word[t].length] = arg[t]]
    /\ UNCHANGED keys

StoreWord(t, w) ==
    /\ keys' = [keys EXCEPT ![w] = word[t][w]]
    /\ UNCHANGED arrays

\* The append stores the key, or a word of the header.
PutStore(t) ==
    /\ At(t, "store")
    /\ \E s \in stores[t] :
          /\ \/ s = "element" /\ StoreElement(t)
             \/ s \in Word /\ StoreWord(t, s)
          /\ stores' = [stores EXCEPT ![t] = @ \ {s}]
          /\ Goto(t, IF stores[t] = {s} THEN "unlock" ELSE "store")
    /\ UNCHANGED <<blks, lock, arg, word, loop, raced, put, got, fatal>>

\* RUnlock.
PutReturn(t) ==
    /\ At(t, "unlock")
    /\ readers' = readers \ {t}
    /\ put' = put \cup {arg[t]}
    /\ word' = [word EXCEPT ![t] = Unread]
    /\ Goto(t, "idle")
    /\ UNCHANGED <<slice, blks, writer, arg, stores, loop, raced, got, fatal>>

----------------------------------------------------------------------------
(* Get.                                                                    *)

\* Mutant: Get takes the lock to read as well.
GetLockShared(t) ==
    /\ At(t, "idle") /\ t \in Getters
    /\ writer = None
    /\ \E b \in Block : Call(t, b, "get")
    /\ UNCHANGED <<slice, blks, lock, word, stores, loop, raced, put, got, fatal>>

\* Lock.
GetLock(t) ==
    /\ At(t, "idle") /\ t \in Getters
    /\ writer = None /\ readers = {}
    /\ writer' = t
    /\ \E b \in Block : Call(t, b, "get")
    /\ UNCHANGED <<slice, blks, readers, word, stores, loop, raced, put, got, fatal>>

\* Look the block up, Unlock.
GetLookup(t) ==
    /\ At(t, "get")
    /\ got' = [got EXCEPT ![t] = [is |-> "block", block |-> arg[t], ok |-> arg[t] \in blks]]
    /\ writer' = None
    /\ Goto(t, "idle")
    /\ UNCHANGED <<slice, blks, readers, arg, word, stores, loop, raced, put, fatal>>

----------------------------------------------------------------------------
(* Iterator.                                                               *)

\* Mutant: Iterator does not take the lock.
IteratorUnlocked(t) ==
    /\ At(t, "idle") /\ t \in Iterators
    /\ raced' = raced \ {t}
    /\ Goto(t, "range")
    /\ UNCHANGED <<slice, blks, lock, arg, word, stores, loop, put, got, fatal>>

\* Lock and Unlock, with the construction of the iterator in between.  What is stored
\* before is visible to the loop.
Iterator(t) ==
    /\ At(t, "idle") /\ t \in Iterators
    /\ writer = None /\ readers = {}
    /\ raced' = raced \ {t}
    /\ Goto(t, "range")
    /\ UNCHANGED <<slice, blks, lock, arg, word, stores, loop, put, got, fatal>>

\* What the loop may yield next.  Behind the array is any string; in a cell, the key
\* stored there.  A lookup that races with an insertion may miss what is in the map,
\* and a read of the cell what is stored in it.
Yields(t) ==
    LET a == word[t].array
        k == Cell(a, at[t])
    IN  IF at[t] \notin DOMAIN arrays[a] THEN blks \cup {None}
        ELSE ({k} \cap blks) \cup (IF t \in raced \/ k \notin blks THEN {None} ELSE {})

\* One key: its block, or an error, is yielded.
Yield(t) ==
    /\ fatal = None /\ Looping(t)
    /\ \E y \in Yields(t) : yielded' = [yielded EXCEPT ![t] = @ \cup {y}]
    /\ at' = [at EXCEPT ![t] = @ + 1]
    /\ UNCHANGED <<slice, blks, lock, pc, arg, word, stores, raced, put, got, fatal>>

Leave(t) ==
    /\ word' = [word EXCEPT ![t] = Unread]
    /\ at' = [at EXCEPT ![t] = 1] /\ yielded' = [yielded EXCEPT ![t] = {}]
    /\ Goto(t, "idle")

\* After the last key.
EndLoop(t) ==
    /\ At(t, "range") /\ Read(t) /\ ~Looping(t)
    /\ got' = [got EXCEPT ![t] = [is |-> "list", blocks |-> yielded[t]]]
    /\ Leave(t)
    /\ UNCHANGED <<slice, blks, lock, arg, stores, raced, put, fatal>>

\* The body of the loop breaks it off.
Stop(t) ==
    /\ At(t, "range") /\ at[t] > 1
    /\ Leave(t)
    /\ UNCHANGED <<slice, blks, lock, arg, stores, raced, put, got, fatal>>

----------------------------------------------------------------------------
\* The runtime detects, or does not detect, a map that is written to meanwhile; a loop
\* reads a key or a block that is stored in part, or behind the array.
Fatal(t) ==
    /\ fatal = None
    /\ \/ AccessesMap(t) /\ MapBusy(t)
       \/ Looping(t) /\ t \in raced
    /\ fatal' = t
    /\ UNCHANGED <<slice, blks, lock, pc, arg, word, stores, loop, raced, put, got>>

Init ==
    /\ keys = [array |-> 1, length |-> 0] /\ arrays = << <<>> >>
    /\ blks = {} /\ put = {}
    /\ readers = {} /\ writer = None
    /\ pc = [t \in Thread |-> "idle"]
    /\ arg = [t \in Thread |-> CHOOSE b \in Block : TRUE]
    /\ word = [t \in Thread |-> Unread]
    /\ stores = [t \in Thread |-> {}]
    /\ at = [t \in Thread |-> 1] /\ yielded = [t \in Thread |-> {}]
    /\ raced = Thread
    /\ got = [t \in Thread |-> [is |-> "nothing"]]
    /\ fatal = None

Step(t) ==
    \/ PutLock(t) \/ PutLookup(t) \/ PutInsert(t) \/ PutAppend(t) \/ PutStore(t) \/ PutReturn(t)
    \/ GetLock(t) \/ GetLookup(t)
    \/ Iterator(t) \/ Yield(t) \/ EndLoop(t) \/ Stop(t)
    \/ Load(t) \/ Fatal(t)

Next == \E t \in Thread : Step(t)

Spec == Init /\ [][Next]_vars
----------------------------------------------------------------------------
(* Properties.                                                             *)

\* A thread between the beginning of its insertion and the last store of its append.
Inserting == {t \in Thread : pc[t] \in {"inserting", "append", "store"}}

\* The types of the state; between two insertions every block has its key, once
\* (blockstore.go 55-68).
TypeOK ==
    /\ arrays \in Seq(Seq(Block \cup {None}))
    /\ keys.array \in DOMAIN arrays /\ keys.length \in Nat
    /\ blks \subseteq Block /\ put \subseteq Block
    /\ readers \subseteq Thread /\ writer \in Thread \cup {None}
    /\ pc \in [Thread -> {"idle", "put", "inserting", "append", "store", "unlock", "get", "range"}]
    /\ arg \in [Thread -> Block]
    /\ word \in [Thread -> [Word -> Nat \cup {None}]]
    /\ stores \in [Thread -> SUBSET {"array", "length", "element"}]
    /\ at \in [Thread -> Nat] /\ yielded \in [Thread -> SUBSET (Block \cup {None})]
    /\ raced \subseteq Thread /\ fatal \in Thread \cup {None}
    /\ Inserting = {} =>
          /\ Keys = blks
          /\ \A i, j \in 1..keys.length : Cell(keys.array, i) = Cell(keys.array, j) => i = j

Set == INSTANCE BlockSet WITH stored <- blks, putting <- Inserting, alone <- Thread \ raced

\* With one goroutine that puts, and any number of others that get and iterate,
\* although Put holds the lock only to read and loops do not hold it at all: a Get
\* never meets a Put that has yet to store something, and a loop yields every block
\* and no error, unless a new block is put between the call of Iterator and its end
\* (blockstore.go 55-91).
ImplementsBlockSet == Set!Spec

\* A Get excludes every Put, so with one goroutine that puts only a loop, and one that
\* began before the last insertion, can end the process (blockstore.go 55-91).
FatalOnlyInIteration == fatal # None => pc[fatal] = "range" /\ fatal \in raced

\* "Attach a block to the delegation DAG so it will be included in the block
\* iterator" (core/delegation/delegation.go 57-58), by a Put into a block store: once
\* no Put is under way every block is among the keys that are iterated.
AttachedIsIterated == readers = {} => put \subseteq Keys
=============================================================================
