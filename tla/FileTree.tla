------------------------------ MODULE FileTree ------------------------------
(***************************************************************************)
(* What a caller of the NTFS driver may rely on: files come into the tree  *)
(* complete and in one step, stay there, and change only when they are     *)
(* written.  An update that is cut short may damage the one record it was  *)
(* about.                                                                  *)
(***************************************************************************)
EXTENDS Naturals

CONSTANTS Root, Same(_, _)   \* Same: two names a lookup cannot tell apart

VARIABLES
  links,     \* directory entries, [dir, name, rec]
  files      \* record -> [dir, payload], for the root and every linked record

treeVars == <<links, files>>

Damaged == [damaged |-> TRUE]

LinkedIn(ls) == {l.rec : l \in ls}

Create ==
  \E d \in DOMAIN files :
    /\ files[d] # Damaged /\ files[d].dir
    /\ \E new \in links' \ links :
         /\ new.dir = d /\ new.rec \notin DOMAIN files
         /\ \A l \in links : l.dir = d => ~Same(l.name, new.name)
         /\ links' = links \cup {new}
         /\ DOMAIN files' = DOMAIN files \cup {new.rec}
         /\ \A r \in DOMAIN files : files'[r] = files[r]
         /\ files'[new.rec] # Damaged

Write ==
  /\ links' = links /\ DOMAIN files' = DOMAIN files
  /\ \E r \in DOMAIN files :
       /\ files[r] # Damaged /\ ~files[r].dir
       /\ files'[r] # Damaged /\ ~files'[r].dir
       /\ files'[r].payload.len = files[r].payload.len
       /\ \A s \in DOMAIN files \ {r} : files'[s] = files[s]

Damage ==
  \E r \in DOMAIN files :
    /\ links' = {l \in links : l.dir # r}
    /\ files' = [s \in {r, Root} \cup (DOMAIN files \cap LinkedIn(links')) |->
                   IF s = r THEN Damaged ELSE files[s]]

TreeInit == Root \in DOMAIN files
TreeNext == Create \/ Write \/ Damage
TreeSpec == TreeInit /\ [][TreeNext]_treeVars
=============================================================================
