----------------------------- MODULE TableParts -----------------------------
(***************************************************************************)
(* Parts of a daemon that share no state and whose promises are about what *)
(* is in their tables, each alone: host names of the mesh, the desired     *)
(* state that is put in order, one-time join codes and the templates of    *)
(* its clients.  The first state names the part a behaviour is about.      *)
(***************************************************************************)
EXTENDS MeshNames, ServiceOrder, JoinCodes, TemplateStore

VARIABLE concern   \* the part a behaviour is about

tablesVars == <<concern, meshVars, orderVars, codeVars, templateVars>>

Concerns == {"names", "order", "codes", "templates"}

TablesTypeOK ==
  /\ concern \in Concerns
  /\ MeshTypeOK /\ OrderTypeOK /\ CodeTypeOK /\ TemplatesTypeOK

TablesInit ==
  /\ concern \in Concerns
  /\ MeshInit /\ OrderInit /\ CodeInit /\ TemplatesInit

TablesNext ==
  /\ UNCHANGED concern
  /\ \/ /\ concern = "names" /\ MeshNext
        /\ UNCHANGED <<orderVars, codeVars, templateVars>>
     \/ /\ concern = "order" /\ OrderNext
        /\ UNCHANGED <<meshVars, codeVars, templateVars>>
     \/ /\ concern = "codes" /\ CodeNext
        /\ UNCHANGED <<meshVars, orderVars, templateVars>>
     \/ /\ concern = "templates" /\ TemplatesNext
        /\ UNCHANGED <<meshVars, orderVars, codeVars>>

TablesSpec == TablesInit /\ [][TablesNext]_tablesVars
=============================================================================
