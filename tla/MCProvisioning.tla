--------------------------- MODULE MCProvisioning ---------------------------
(***************************************************************************)
(* Provisioning with a network that takes one password, a name that the    *)
(* page's form spells otherwise and that is then too long to be loaded, a  *)
(* name whose spelling does not fit the handler's field, and a password    *)
(* that is cut.                                                            *)
(***************************************************************************)
EXTENDS Provisioning, TLC

MCAir == {<<"home", "key">>}

MCEncoded ==
  "a long name" :> "a+long+name" @@ "many blanks" :> "many++blanks"
    @@ [x \in {"home", "key", "64 digits", ""} |-> x]
MCClip == "64 digits" :> "63 digits"

=============================================================================
