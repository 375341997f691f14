----------------------------- MODULE MCBindings -----------------------------
(***************************************************************************)
(* The five bindings side by side: a program is written in one of the       *)
(* languages, and keeps to it.                                              *)
(***************************************************************************)
EXTENDS BindingCore, TLC

VARIABLES language, token

Go     == INSTANCE GoBinding
Lua    == INSTANCE LuaBinding
Wasm   == INSTANCE WasmBinding
Cpp    == INSTANCE CppBinding
Python == INSTANCE PythonBinding

mcVars == <<bindingVars, language, token>>

MCInit == /\ BindingInit /\ token = <<>>
          /\ language \in {"go", "lua", "wasm", "c++", "python"}
MCNext == /\ \/ language = "go" /\ Go!Next /\ UNCHANGED token
             \/ language = "lua" /\ Lua!Next /\ UNCHANGED token
             \/ language = "wasm" /\ Wasm!Next /\ UNCHANGED token
             \/ language = "c++" /\ Cpp!Next /\ UNCHANGED token
             \/ language = "python" /\ Python!Next
          /\ UNCHANGED language
MCSpec == MCInit /\ [][MCNext]_mcVars

-----------------------------------------------------------------------------
Usable(h) == CASE language = "go" -> Go!Usable(h) [] language = "lua" -> Lua!Usable(h)
               [] language = "wasm" -> Wasm!Usable(h) [] language = "c++" -> Cpp!Usable(h)
               [] language = "python" -> Python!Usable(h)
Admits(q) == CASE language = "go" -> Go!Admits(q) [] language = "lua" -> Lua!Admits(q)
               [] language = "wasm" -> Wasm!Admits(q) [] language = "c++" -> Cpp!Admits(q)
               [] language = "python" -> Python!Admits(q)
ProgramOwners == CASE language = "go" -> Go!ProgramOwners [] language = "lua" -> Lua!ProgramOwners
                   [] language = "wasm" -> Wasm!ProgramOwners [] language = "c++" -> Cpp!ProgramOwners
                   [] language = "python" -> Python!ProgramOwners
DocumentOwners(d) ==
  CASE language = "go" -> Go!DocumentOwners(d) [] language = "lua" -> Lua!DocumentOwners(d)
    [] language = "wasm" -> Wasm!DocumentOwners(d) [] language = "c++" -> Cpp!DocumentOwners(d)
    [] language = "python" -> Python!DocumentOwners(d)

\* The one case the Go binding gets wrong (see GoBinding!EvaluateDocument): an
\* execution was given a second document without a reset, and wraps the first one's nodes as the
\* second's.  It is tame while no Node was made in that way.
Stray(h)   == language = "go" /\ Go!Stray(h)
Strayed(q) == language = "go" /\ Go!Strayed(q)
Tame       == \A h \in Handles : ~Stray(h)

-----------------------------------------------------------------------------
\* Handle h leads to the node it was made for: that is there, in the handle's document, and has
\* not been freed and its address given to another.
LeadsHome(h) == /\ handle[h].at \in NodesOf(native, handle[h].document)
                /\ native.node[handle[h].at].identity = handle[h].identity

\* A handle that a binding still accepts denotes the very node it was made for.  In Go this is
\* so until a Node was wrapped as another document's: an edit through that one changes the
\* generation of the wrong document, and properly made Nodes are then accepted after theirs was
\* freed, although document.go:90 says "Close or any successful edit invalidates it".
HandlesDenote == Tame => \A h \in Handles : Usable(h) => LeadsHome(h)

\* An execution that a binding still accepts has its program and its native state; the bytes it
\* reads are pinned; and the document whose nodes or values it would hand out is there, unless it
\* is a strayed one of Go's, which hands out Nodes of the first document also when that is gone
\* (program.go:697), although NextDocument is said to return "a checked snapshot handle" (:689).
ExecutionsSafe ==
  \A q \in Executions :
    /\ execution[q].open => program.references > 0 /\ native.exec[q].phase # "none"
    /\ execution[q].pins >= native.exec[q].windows
    /\ Admits(q) /\ ~Strayed(q) /\ native.exec[q].phase = "finished" /\ native.exec[q].owner # NULL
         => native.doc[native.exec[q].owner].alive

\* The program is freed with its last owner and not before, and so is each native document (or
\* when the callback that freed it inside returns): no leak, no use after free.
OwnersCounted ==
  /\ program.references = ProgramOwners + (IF program.open THEN 1 ELSE 0)
  /\ \A d \in Documents : native.doc[d].alive <=> DocumentOwners(d) > 0 \/ native.doc[d].pending = 2
  /\ \A a \in Live(native) : native.doc[native.node[a].document].alive

\* Executions never outlive, and never outstay, what they hold.
OwnershipSafe == ExecutionsSafe /\ OwnersCounted

\* A handle expires for good, and only when its document was edited or closed: a refused call, a
\* failed evaluation, a callback or a reset takes no handle away.  In Go this, too, is so until a
\* Node was wrapped as another document's.
HandlesKept ==
  [][Tame' => \A h \in Handles : Taken(h) =>
       /\ ~Usable(h) => ~Usable(h)'
       /\ Usable(h) /\ ~Usable(h)' =>
            LET d == handle[h].document
            IN  ~IsOpen(d)' \/ native'.doc[d].revision > native.doc[d].revision]_mcVars

Symmetry == Permutations(Documents) \cup Permutations(Executions) \cup Permutations(Handles)
            \cup Permutations(Addresses)
=============================================================================
