-------------------------- MODULE EntryReferences --------------------------
(***************************************************************************)
(* An application that looks a PDO entry up once, with                     *)
(* mo_ecat_master_get_pdo_entry, and keeps its entry_id for                *)
(* mo_ecat_pdo_read and mo_ecat_pdo_write.  Each slave has one entry, so   *)
(* that the id of an entry, counted from one, is its slave's position.     *)
(***************************************************************************)
EXTENDS SharedData

CONSTANT Outputs        \* the products whose entry is an output

VARIABLE reference      \* what the application keeps of the entry

\* A reference names the slave it was looked up for.  It is old (a ghost) once
\* the layout it is from has been taken away.
NoReference == [id |-> 0, product |-> "none", old |-> FALSE]

LookUp ==
  /\ \E id \in 1 .. Len(mapped) :
       reference' = [id |-> id, product |-> mapped[id], old |-> FALSE]
  /\ UNCHANGED data

\* _pdo_image_entry_data: the layout is active, the id exists, the direction is
\* the one asked for.
Active == mapped # <<>> /\ (target = "RUNNING" \/ At("RUNNING"))

Granted(id, output) ==
  Active /\ id \in 1 .. Len(mapped) /\ (mapped[id] \in Outputs <=> output)

Share ==
  /\ DataDispatch \/ \E cmd \in Commands : Write(cmd)
  /\ reference' = [reference EXCEPT !.old = @ \/ (reference.id > 0 /\ mapped' # mapped)]

ReferenceSpec ==
  /\ DataInit /\ reference = NoReference
  /\ [][LookUp \/ Share]_<<data, reference>>

\* "重新 configure() 后旧 generation 的 PDO 引用被明确拒绝" (主站解耦架构设计.md:580):
\* a reference of an earlier layout is refused, it never leads to the entry of
\* another slave that is in the present one.
OldReferencesRefused ==
  LET r == reference IN
    r.old /\ Granted(r.id, r.product \in Outputs) => mapped[r.id] = r.product
=============================================================================
