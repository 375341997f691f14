---------------------------- MODULE MCTreeWriter ----------------------------
(***************************************************************************)
(* Tree writers over BER, and over a user's format that also has empty and  *)
(* absent constructed tags, with storage that the calls exhaust.            *)
(***************************************************************************)
EXTENDS TreeWriter, Staging, Compose

Tag(bytes) == [bytes |-> bytes, data |-> TRUE]


\* Two formats.  "ber": a parent, a primitive, and a reserved tag that BER refuses to write.
\* "user": tag size, tag, value size, value; empty tags and tags from 7 on hold elements.
MCFormatNames == {"ber", "user"}
MCTags(f) == IF f # "user" THEN {Tag(<<48>>), Tag(<<1>>), Tag(<<0>>)}
             ELSE {Tag(<<>>), [bytes |-> <<>>, data |-> FALSE], Tag(<<7, 8>>), Tag(<<1>>)}
MCValues(f) == IF f # "user" THEN {<<>>, <<5>>} ELSE {<<>>}
MCStorages(f) == IF f # "user" THEN {1} ELSE {0, 1, 3}
MCLimits(f) ==
  IF f = "ber" THEN {[size |-> 8, scratch |-> 4, frames |-> 2, depth |-> 1, elements |-> 3],
                     [size |-> 6, scratch |-> 2, frames |-> 3, depth |-> 2, elements |-> 3],
                     [size |-> 5, scratch |-> 5, frames |-> 1, depth |-> 2, elements |-> 3]}
  ELSE {[size |-> 8, scratch |-> 8, frames |-> 3, depth |-> 3, elements |-> 3]}
MCEncoded(f, e) ==
  IF f # "user" THEN FieldsEncode(BerFormat, e)
  ELSE [rc |-> "OK", bytes |-> <<Len(e.tag)>> \o e.tag \o <<Len(e.value)>> \o e.value]
MCParent(f, tag) == IF f # "user" THEN Constructed(BerFormat, tag) ELSE tag = <<>> \/ tag[1] >= 7
MCFaults(f) == CASE f = "ber"   -> {"INVALID_VALUE", "END"}
                 [] f = "user"  -> {"OK"}
                 [] f = "short" -> {"BUFFER_TOO_SHORT"}
                 [] f = "calm"  -> {}
\* The first byte, or everything up to the end of the buffer.
MCLeftovers(f, n) == IF f # "user" /\ n = 0 THEN {}
                     ELSE {[i \in 1 .. n |-> 238]} \cup IF f = "ber" THEN {<<238>>} ELSE {}
-----------------------------------------------------------------------------
\* Trees for measured encoding: "calm" is BER without faults, "short" BER whose encoder may
\* answer BUFFER_TOO_SHORT.  Node k holds the byte k, so that no two nodes are alike.
TreeNode(k, parent, depth) == [tag |-> Tag(IF parent THEN <<48>> ELSE <<1>>), parent |-> parent,
                               depth |-> depth, value |-> IF parent THEN <<>> ELSE <<k>>]
\* The links a Document of these nodes has.
Least(S) == IF S = {} THEN 0 ELSE CHOOSE k \in S : \A i \in S : k <= i
Linked(t) ==
  LET d(k) == t[k].depth
      below(k) == {i \in k + 1 .. Len(t) : \A m \in k + 1 .. i : d(m) > d(k)}
      after(k) == {i \in k + 1 .. Len(t) : d(i) = d(k) /\ \A m \in k + 1 .. i : d(m) >= d(k)}
      above(k) == {i \in 1 .. k - 1 : k \in below(i) /\ d(i) = d(k) - 1}
  IN  [k \in 1 .. Len(t) |-> [tag |-> t[k].tag, parent |-> t[k].parent, depth |-> d(k),
                              value |-> t[k].value, first |-> Least(below(k)),
                              next |-> Least(after(k)), up |-> Least(above(k))]] \o <<>>
Lists(n) == {[k \in 1 .. n |-> TreeNode(k, p[k], d[k])] : p \in [1 .. n -> BOOLEAN],
                                                        d \in [1 .. n -> 0 .. 2]}
Deep  == {<<TreeNode(1, TRUE, 0), TreeNode(2, TRUE, 1), TreeNode(3, TRUE, 2), TreeNode(4, FALSE, 3),
            TreeNode(5, FALSE, d)>> : d \in 0 .. 3}
BadTag == <<TreeNode(1, TRUE, 0), [TreeNode(2, FALSE, 1) EXCEPT !.tag = Tag(<<0>>)]>>
Small == {Linked(t) : t \in UNION {Lists(n) : n \in 0 .. 3} \cup Deep \cup {BadTag}}

Job(source, format, nodes, capacity, sizing, fuel, frames, depth, elements) ==
  [source |-> source, format |-> format, nodes |-> nodes, capacity |-> capacity,
   sizing |-> sizing, fuel |-> fuel, frames |-> frames, depth |-> depth, elements |-> elements]
PreorderJobs == {Job("preorder", l[1], n, 0, FALSE, 0, l[2], l[3], l[4]) : n \in Small,
                   l \in {<<"calm", 4, 4, 5>>, <<"short", 4, 4, 5>>, <<"calm", 1, 4, 3>>,
                          <<"calm", 2, 0, 2>>}}
TreeJobs == {Job(s, c[1], n, c[2], c[3], c[4], 0, 0, 0) : s \in {"document", "node"}, n \in Small,
               c \in {<<"calm", 0, TRUE, 9>>, <<"short", 20, FALSE, 9>>, <<"calm", 4, FALSE, 9>>,
                      <<"calm", 20, FALSE, 9>>, <<"calm", 20, FALSE, 0>>,
                      <<"calm", 20, FALSE, 1>>, <<"calm", 20, FALSE, 2>>}}
MCJobs == PreorderJobs \cup {j \in TreeJobs : IsTree(j) /\ (j.source = "node" => j.nodes # <<>>)}

\* One writer at a time: the caller's own, or the one of a measured encoding.
stageIdle == /\ phase = "idle" /\ job = <<>> /\ src = <<>> /\ ws = <<>> /\ draft = <<>>
             /\ answer = NoAnswer /\ failed = FALSE
writerIdle == /\ limits \in MCLimits("user")
              /\ wr = TreeWriterInit("user", limits.size, limits.scratch)
              /\ call = Call("STORAGE", <<>>, <<>>) /\ result = "OK" /\ script = <<>>
Apart == phase = "idle" /\ UNCHANGED stageVars

MCInit == (Init /\ stageIdle) \/ (StageInit /\ writerIdle)
MCNext == \/ DoBegin /\ Apart
          \/ DoElement /\ Apart
          \/ DoEnd /\ Apart
          \/ DoStorage /\ Apart
          \/ DoEvent /\ Apart
          \/ StageNext /\ UNCHANGED vars
MCSpec == MCInit /\ [][MCNext]_<<vars, stageVars>> /\ WF_<<vars, stageVars>>(StageNext /\ UNCHANGED vars)

-----------------------------------------------------------------------------
BerDecode(s, i, j) == CheckedDecode(FieldsDecode(BerFormat, SubSeq(s, i + 1, j)), j - i)

Walk == INSTANCE TreeWalk WITH Streams <- {}, Decode <- BerDecode,
                               stream <- <<>>, nodes <- <<>>, outcome <- <<>>

\* Whenever no parent is open, reading the output as a tree gives the nodes that were
\* written: each tag and value at the depth its caller or event said, in order.  (An
\* element written whole under a parent's tag is the caller's to make well-formed.)
ReadsBack ==
  LET out   == SubSeq(wr.buf, 1, wr.pos)
      found == Walk!Entries(out)
      At(k) == CHOOSE e \in found : Cardinality({f \in found : f.offset <= e.offset}) = k
      NodeAt(e) == LET i == e.offset
                       d == e.source
                   IN  [tag |-> SubSeq(out, i + 1, i + d.tag.size), depth |-> e.depth,
                        value |-> IF d.constructed THEN <<>>
                                  ELSE SubSeq(out, i + d.value.offset + 1,
                                              i + d.value.offset + d.value.size)]
      complete == \A k \in 1 .. Len(script) : IsParent(wr.format, script[k].tag) => script[k].value = <<>>
  IN  wr.format = "ber" /\ wr.frames = <<>> /\ complete =>
        /\ \A e \in found : e.source.rc = "OK"
        /\ script = [k \in 1 .. Cardinality(found) |-> NodeAt(At(k))]

\* The bytes are the tree's, written event by event or in one call.
WritesTree == ReadsBack /\ EncodesTree
=============================================================================
