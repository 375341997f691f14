---------------------------- MODULE TreeBuilder -----------------------------
(***************************************************************************)
(* What a tree writer promises (include/tlv/writer/tree.h), without         *)
(* buffers, cursors or limits: a stack of open parents, each with the       *)
(* encoding of what it already holds.  A call either does its step and says *)
(* OK, or says something else and changes nothing.                          *)
(***************************************************************************)
EXTENDS Integers, Sequences

CONSTANTS
  Calls,          \* the calls [kind, tag, value] a caller may make
  Formats,
  Encoded(_, _)   \* [rc, bytes] of an element [tag, value] in a format

VARIABLES
  format,   \* the writer's format
  roots,    \* the encoding of the closed roots
  scopes,   \* open parents, innermost last: [tag, content]
  call,     \* the last call
  result    \* what it returned

vars == <<format, roots, scopes, call, result>>

Init == /\ format \in Formats
        /\ roots = <<>> /\ scopes = <<>>
        /\ call \in Calls /\ result = "OK"

\* An encoding is appended to the innermost of the parents s, or to the roots.
Put(s, bytes) ==
  /\ roots' = IF s = <<>> THEN roots \o bytes ELSE roots
  /\ scopes' = IF s = <<>> THEN s ELSE [s EXCEPT ![Len(s)].content = @ \o bytes]

Open(c) == /\ c.kind = "BEGIN"
           /\ scopes' = Append(scopes, [tag |-> c.tag, content |-> <<>>])
           /\ UNCHANGED roots

Add(c) == LET b == Encoded(format, [tag |-> c.tag, value |-> c.value])
          IN  c.kind = "ELEMENT" /\ b.rc = "OK" /\ Put(scopes, b.bytes)

Close(c) == LET top == scopes[Len(scopes)]
                b   == Encoded(format, [tag |-> top.tag, value |-> top.content])
            IN  /\ c.kind = "END" /\ scopes # <<>> /\ b.rc = "OK"
                /\ Put(SubSeq(scopes, 1, Len(scopes) - 1), b.bytes)

Configure(c) == c.kind = "STORAGE" /\ scopes = <<>> /\ UNCHANGED <<roots, scopes>>

Next == \E c \in Calls :
          /\ call' = c /\ UNCHANGED format
          /\ \/ result' = "OK" /\ (Open(c) \/ Add(c) \/ Close(c) \/ Configure(c))
             \/ result' # "OK" /\ UNCHANGED <<roots, scopes>>

Spec == Init /\ [][Next]_vars
=============================================================================
