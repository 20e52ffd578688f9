--------------------------- MODULE BoundedChannel ---------------------------
(***************************************************************************)
(* What a bounded queue promises to the threads that share it: puts and    *)
(* gets take effect one at a time, items come out in the order they went   *)
(* in, each once, and there are never more than Size of them in between.   *)
(* The user-level queue (UQueue) and the channels in shared memory         *)
(* (MemChannel, SemChannel) are shown to implement it.                     *)
(***************************************************************************)
EXTENDS Integers, Sequences

CONSTANTS
  Users,   \* the threads or processes that put and get
  Items,   \* what they exchange
  NoItem,  \* the content of a variable that has received nothing yet
  Size     \* the capacity

VARIABLES
  chan,    \* the items put and not yet got
  val      \* the item each user got last

ChannelInit ==
  /\ chan = <<>>
  /\ val = [u \in Users |-> NoItem]

Put(x) ==
  /\ Len(chan) < Size
  /\ chan' = Append(chan, x)
  /\ UNCHANGED val

Get(u) ==
  /\ chan # <<>>
  /\ val' = [val EXCEPT ![u] = Head(chan)]
  /\ chan' = Tail(chan)

ChannelNext ==
  \/ \E x \in Items : Put(x)
  \/ \E u \in Users : Get(u)

ChannelSpec == ChannelInit /\ [][ChannelNext]_<<chan, val>>
=============================================================================
