----------------------------- MODULE MemoryPool -----------------------------
(***************************************************************************)
(* What memoryd promises its clients: a pool of private blocks.            *)
(*                                                                         *)
(* A block is created full of zeros, is read and written only by the       *)
(* session that asked for it, keeps what was last stored in each of its    *)
(* cells, and disappears when it is released or when its session ends.     *)
(* Pages, free lists, sockets and buffers do not exist at this level: the  *)
(* module Memoryd implements it (RefinesMemoryPool there).                 *)
(***************************************************************************)
EXTENDS Integers, Sequences

CONSTANTS
  Sessions,   \* identities a session can have
  Handles,    \* names a block can have
  Sizes,      \* sizes and offsets a request can carry
  Statuses,   \* the codes an answer can carry
  Values,     \* what a client can store in a cell
  Zero        \* the contents of a cell nobody has written

VARIABLES
  blocks,     \* handle -> [owner, data], for the blocks that exist
  issued,     \* the handles given out so far, released ones included
  reply       \* the last answer sent to a client

poolVars == <<blocks, issued, reply>>

NoReply == [to |-> 0, op |-> "NONE", handle |-> 0, size |-> 0,
            status |-> "NONE", data |-> <<>>]

PoolInit ==
  /\ blocks = <<>>
  /\ issued = {}
  /\ reply = NoReply

Owns(s, h) == h \in DOMAIN blocks /\ blocks[h].owner = s

Within(h, offset, size) ==
  offset .. offset + size - 1 \subseteq DOMAIN blocks[h].data

(***************************************************************************)
(* Operations that change no block are told by their answer, which names   *)
(* the operation, the handle and the size it answers.                      *)
(***************************************************************************)
\* A refusal is truthful about the handle.
Refuse(s) ==
  /\ reply'.to = s
  /\ reply'.status \in Statuses \ {"OK"}
  /\ reply'.status = "INVALID_HANDLE" => reply'.handle \notin DOMAIN blocks
  /\ reply'.status = "PERMISSION_DENIED" =>
       reply'.handle \in DOMAIN blocks /\ ~Owns(s, reply'.handle)
  /\ reply'.data = <<>>

\* PING, and requests for nothing, succeed.
Acknowledge(s) ==
  /\ reply'.to = s
  /\ reply'.status = "OK"
  /\ \/ reply'.op = "PING"
     \/ reply'.op \in {"ALLOC", "WRITE", "READ"} /\ reply'.size = 0
  /\ reply'.data = <<>>

Fetch(s) ==
  /\ reply'.to = s
  /\ reply'.op = "READ"
  /\ reply'.status = "OK"
  /\ Owns(s, reply'.handle)
  /\ \E offset \in Sizes :
       /\ Within(reply'.handle, offset, reply'.size)
       /\ reply'.data = [i \in 1 .. reply'.size |->
                           blocks[reply'.handle].data[offset + i - 1]]

(***************************************************************************)
(* Operations that change a block.  The answer reaches the client, or is   *)
(* dropped because the connection is already being closed.                 *)
(***************************************************************************)
Answer(s, op, h, size) ==
  reply' \in {reply, [to |-> s, op |-> op, handle |-> h, size |-> size,
                      status |-> "OK", data |-> <<>>]}

Grant(s, h, size) ==
  /\ Answer(s, "ALLOC", h, size)
  /\ size > 0
  /\ h \notin issued
  /\ issued' = issued \cup {h}
  /\ blocks' = [k \in DOMAIN blocks \cup {h} |->
                  IF k = h
                    THEN [owner |-> s, data |-> [c \in 0 .. size - 1 |-> Zero]]
                    ELSE blocks[k]]

Store(s, h, offset, size, v) ==
  /\ Answer(s, "WRITE", h, size)
  /\ Owns(s, h)
  /\ Within(h, offset, size)
  /\ blocks' = [blocks EXCEPT ![h].data =
                  [c \in DOMAIN @ |->
                     IF c \in offset .. offset + size - 1 THEN v ELSE @[c]]]
  /\ UNCHANGED issued

Without(H) == [k \in DOMAIN blocks \ H |-> blocks[k]]

Release(s, h) ==
  /\ Answer(s, "FREE", h, 0)
  /\ Owns(s, h)
  /\ blocks' = Without({h})
  /\ UNCHANGED issued

EndSession(s) ==
  /\ reply' = reply
  /\ blocks' = Without({h \in DOMAIN blocks : blocks[h].owner = s})
  /\ UNCHANGED issued

PoolNext ==
  \E s \in Sessions :
    \/ (Refuse(s) \/ Acknowledge(s) \/ Fetch(s)) /\ UNCHANGED <<blocks, issued>>
    \/ \E h \in Handles :
         \/ Release(s, h)
         \/ \E size \in Sizes : Grant(s, h, size)
         \/ \E offset, size \in Sizes, v \in Values : Store(s, h, offset, size, v)
    \/ EndSession(s)

PoolSpec == PoolInit /\ [][PoolNext]_poolVars
=============================================================================
