------------------------------ MODULE FileTree ------------------------------
(***************************************************************************)
(* What the testfs shell promises: a tree of named files and directories.  *)
(* A command either has its whole effect or none.  When the process is     *)
(* killed inside a command, everything the command does not name is as     *)
(* before; what it names is described by the Interrupted actions.          *)
(***************************************************************************)
EXTENDS Integers, Sequences

CONSTANTS Names,     \* names of files and directories, without "." and ".."
          Nodes,     \* identities of files and directories
          Root,
          MaxSize,   \* bytes in the largest file
          Writes     \* the offsets and data of write commands

VARIABLES kind,      \* "I_FILE", "I_DIR", or "I_NONE" for a node not in use
          entries,   \* <<directory, name, node>>
          size,
          bytes,     \* of each file, also behind its end
          cwd

vars == <<kind, entries, size, bytes, cwd>>

NoBytes == [i \in 0 .. MaxSize - 1 |-> 0]

Child(n) == {x \in Nodes : <<cwd, n, x>> \in entries}

Overwrite(old, o, data) ==
  [i \in DOMAIN old |-> IF i - o \in 0 .. Len(data) - 1 THEN data[i - o + 1] ELSE old[i]]

Init ==
  /\ kind = [x \in Nodes |-> IF x = Root THEN "I_DIR" ELSE "I_NONE"]
  /\ entries = {}
  /\ size = [x \in Nodes |-> 0]
  /\ bytes = [x \in Nodes |-> NoBytes]
  /\ cwd = Root

(* A command that fails, or only looks.                                    *)
Look == UNCHANGED vars

Link(n, x, k) ==
  /\ Child(n) = {} /\ kind[x] = "I_NONE" /\ \A e \in entries : e[3] # x
  /\ kind' = [kind EXCEPT ![x] = k]
  /\ entries' = entries \cup {<<cwd, n, x>>}
  /\ UNCHANGED <<size, bytes, cwd>>

Create(n, x) == Link(n, x, "I_FILE") \/ Link(n, x, "I_DIR")

Remove(n, x) ==
  /\ x \in Child(n) /\ \A e \in entries : e[1] # x
  /\ kind' = [kind EXCEPT ![x] = "I_NONE"]
  /\ entries' = entries \ {<<cwd, n, x>>}
  /\ size' = [size EXCEPT ![x] = 0]
  /\ bytes' = [bytes EXCEPT ![x] = NoBytes]
  /\ UNCHANGED cwd

Write(n, x, o, data) ==
  /\ x \in Child(n) /\ kind[x] # "I_DIR"
  /\ bytes' = [bytes EXCEPT ![x] = Overwrite(@, o, data)]
  /\ size' = [size EXCEPT ![x] = IF o + Len(data) > @ THEN o + Len(data) ELSE @]
  /\ UNCHANGED <<kind, entries, cwd>>

(* Into a directory of the current one, or up to the one that contains it. *)
Chdir(x) ==
  /\ kind[x] = "I_DIR" /\ \E n \in Names : x \in Child(n) \/ <<x, n, cwd>> \in entries
  /\ cwd' = x
  /\ UNCHANGED <<kind, entries, size, bytes>>

Restart ==
  /\ cwd' = Root
  /\ UNCHANGED <<kind, entries, size, bytes>>

(* A killed create may leave an entry whose node has no type yet.          *)
CreateInterrupted(n, x) == Link(n, x, "I_NONE")

(* A killed write may leave its bytes behind the end of the file, where a  *)
(* later write that extends the file uncovers them.                        *)
WriteInterrupted(n, x, o, data) ==
  /\ x \in Child(n) /\ kind[x] # "I_DIR"
  /\ bytes' = [bytes EXCEPT ![x] = Overwrite(@, o, data)]
  /\ UNCHANGED <<kind, entries, size, cwd>>

Next ==
  \/ Look
  \/ \E n \in Names, x \in Nodes : \/ Create(n, x) \/ Remove(n, x)
                                   \/ CreateInterrupted(n, x)
  \/ \E n \in Names, x \in Nodes, w \in Writes :
       \/ Write(n, x, w.offset, w.data)
       \/ WriteInterrupted(n, x, w.offset, w.data)
  \/ \E x \in Nodes : Chdir(x)
  \/ Restart

Spec == Init /\ [][Next]_vars
=============================================================================
