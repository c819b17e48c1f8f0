--------------------------- MODULE CircularBuffer ---------------------------
(***************************************************************************)
(* CLctCircularBuffer: a ring of m_size places of which m_count, from      *)
(* m_vfirst on, are in use; m_vlast is the next free one.  With overlap a  *)
(* full buffer drops its oldest element to take another.  kind says which  *)
(* of the two templates it is: the one of bytes, or the generic one, whose *)
(* push makes the object in its place before it looks whether there is     *)
(* one, and whose popN and reallocate cannot be compiled.                  *)
(*                                                                         *)
(* Some calls leave the ring with more elements than places, or with the   *)
(* elements in the wrong places; torn says so, and the model stops there.  *)
(***************************************************************************)
EXTENDS Integers, Sequences

CONSTANTS
  Kinds,   \* templates that are used: a subset of {"bytes", "objects"}
  Values,  \* what is put in
  Sizes,   \* sizes a buffer is made with or reallocated to
  MaxN     \* bound on the n of pushN

ASSUME BufferAssumption == Sizes \subseteq Nat /\ MaxN \in Nat

VARIABLES
  kind,    \* which template
  store,   \* m_begin .. m_end
  size,    \* m_size
  vfirst,  \* m_vfirst - m_begin
  vlast,   \* m_vlast - m_begin
  count,   \* m_count
  overlap, \* m_overlap
  todo,    \* what pushN has still to append
  out,     \* what the last call gave out
  items,   \* ghost: what a bounded queue would hold
  due,     \* ghost: what it would have given out
  torn     \* the elements are no longer where pop looks for them

ringVars == <<store, size, vfirst, vlast, count>>
bufferVars == <<kind, ringVars, overlap, todo, out, items, due, torn>>

Zero == "zero"    \* what the storage is filled with
AtLeastOne(sz) == IF sz < 1 THEN 1 ELSE sz

\* increment, once and by n.
Next1(p) == IF p + 1 = size THEN 0 ELSE p + 1
NextN(p, n) == IF p + n = size THEN 0 ELSE p + n

\* The place of the i-th element, where repeated increments get to.
Place(i) == IF vfirst + i - 1 >= size THEN vfirst + i - 1 - size
                                      ELSE vfirst + i - 1

\* The constructors.  Those that are given data copy it, but leave m_count 0.
BufferInit ==
  /\ kind \in Kinds
  /\ \E sz \in Sizes : size = AtLeastOne(sz)
  /\ \E v \in {Zero} \cup (IF kind = "bytes" THEN Values ELSE {}) :
       store = [p \in 0 .. size - 1 |-> v]
  /\ vfirst = 0
  /\ vlast = 0
  /\ count = 0
  /\ overlap = FALSE
  /\ todo = <<>>
  /\ out = <<>>
  /\ items = <<>>
  /\ due = <<>>
  /\ torn = FALSE

Resting == todo = <<>> /\ ~torn
Full == ~overlap /\ count = size

\* Mutant: whatever is free, also when it goes round the end.
SpaceLeft == size - count

Space ==
  IF overlap \/ vlast > vfirst \/ (count = 0 /\ vlast = vfirst)
  THEN size - vlast ELSE vfirst - vlast

\* append takes v.
Append1(v) ==
  /\ ~Full
  /\ store' = [store EXCEPT ![vlast] = v]
  /\ vlast' = Next1(vlast)
  /\ IF count < size
     THEN count' = count + 1 /\ vfirst' = vfirst /\ items' = Append(items, v)
     ELSE count' = count /\ vfirst' = Next1(vfirst)
          /\ items' = Append(Tail(items), v)
  /\ UNCHANGED <<size, torn>>

\* append refuses v; the generic push has made it over the oldest by then.
Refuse1(v) ==
  /\ Full
  /\ store' = IF kind = "objects" THEN [store EXCEPT ![vlast] = v] ELSE store
  /\ torn' = (kind = "objects")
  /\ UNCHANGED <<size, vfirst, vlast, count, items>>

Push(v) ==
  /\ Resting
  /\ Append1(v) \/ Refuse1(v)
  /\ UNCHANGED <<kind, overlap, todo, out, due>>

\* pushN of bytes copies them at once if they fit behind m_vlast.  With
\* overlap space does not look at what is in use: count may exceed size.
PushBlock(s) ==
  /\ Resting
  /\ kind = "bytes"
  /\ Len(s) <= Space
  /\ store' = [p \in 0 .. size - 1 |->
                 IF p >= vlast /\ p < vlast + Len(s) THEN s[p - vlast + 1]
                                                     ELSE store[p]]
  /\ vlast' = NextN(vlast, Len(s))
  /\ count' = count + Len(s)
  /\ torn' = (count + Len(s) > size)
  /\ items' = items \o s
  /\ UNCHANGED <<kind, size, vfirst, overlap, todo, out, due>>

\* Otherwise, and for objects, it appends them one by one until one is refused.
PushLoop(s) ==
  /\ Resting
  /\ kind = "bytes" => Len(s) > Space
  /\ todo' = s
  /\ UNCHANGED <<kind, ringVars, overlap, out, items, due, torn>>

PushNext ==
  /\ todo # <<>> /\ ~torn
  /\ \/ Append1(Head(todo)) /\ todo' = Tail(todo)
     \/ Refuse1(Head(todo)) /\ todo' = <<>>
  /\ UNCHANGED <<kind, overlap, out, due>>

\* peek, and iterate, which walks from m_vfirst until it is at m_vlast.
Peek ==
  /\ Resting
  /\ count > 0
  /\ out' = <<store[vfirst]>>
  /\ due' = SubSeq(items, 1, 1)
  /\ UNCHANGED <<kind, ringVars, overlap, todo, items, torn>>

Iterate ==
  /\ Resting
  /\ count > 0
  /\ out' = [i \in 1 .. (IF vlast > vfirst THEN vlast - vfirst
                                           ELSE vlast - vfirst + size)
               |-> store[Place(i)]]
  /\ due' = items
  /\ UNCHANGED <<kind, ringVars, overlap, todo, items, torn>>

\* pop, for n = 1, and popN: the block at m_vfirst, or one by one.
PopN(n) ==
  /\ Resting
  /\ n <= count
  /\ kind = "objects" => n = 1
  /\ out' = [i \in 1 .. n |-> store[IF vlast > vfirst THEN vfirst + i - 1
                                                      ELSE Place(i)]]
  /\ vfirst' = IF vlast > vfirst THEN NextN(vfirst, n) ELSE Place(n + 1)
  /\ count' = count - n
  /\ due' = SubSeq(items, 1, n)
  /\ items' = SubSeq(items, n + 1, Len(items))
  /\ UNCHANGED <<kind, store, size, vlast, overlap, todo, torn>>

SetOverlap(b) ==
  /\ Resting
  /\ overlap' = b
  /\ UNCHANGED <<kind, ringVars, todo, out, items, due, torn>>

\* reallocate leaves every element at its old place, also those that had gone
\* round the end of the old storage.
Reallocate(sz) ==
  /\ Resting
  /\ kind = "bytes"
  /\ sz > size
  /\ size' = sz
  /\ store' = [p \in 0 .. sz - 1 |-> IF p < size THEN store[p] ELSE Zero]
  /\ torn' = (count > 0 /\ vlast <= vfirst)
  /\ UNCHANGED <<kind, vfirst, vlast, count, overlap, todo, out, items, due>>

Inputs == UNION {[1 .. n -> Values] : n \in 0 .. MaxN}

BufferNext ==
  \/ \E v \in Values : Push(v)
  \/ \E s \in Inputs : PushBlock(s) \/ PushLoop(s)
  \/ PushNext \/ Peek \/ Iterate
  \/ \E n \in 0 .. count : PopN(n)
  \/ \E b \in BOOLEAN : SetOverlap(b)
  \/ \E sz \in Sizes : Reallocate(sz)

BufferSpec == BufferInit /\ [][BufferNext]_bufferVars

-----------------------------------------------------------------------------
\* Until one of the calls that tear it, the buffer is a bounded queue: its
\* elements are the ones put in and not yet taken or dropped, in order, where
\* pop looks for them, and the calls that give elements out give the oldest.
BufferIsQueue ==
  ~torn =>
    /\ count = Len(items) /\ count <= size
    /\ vlast = Place(count + 1)
    /\ \A i \in 1 .. count : store[Place(i)] = items[i]
    /\ out = due
=============================================================================
