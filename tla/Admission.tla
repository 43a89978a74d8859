------------------------------ MODULE Admission ------------------------------
(***************************************************************************)
(* The validating webhook for Shoots (pkg/admission/validator): whether a  *)
(* write of a Shoot is let through, given the collection that is compiled  *)
(* into the webhook's binary.  The webhook keeps no state.                 *)
(***************************************************************************)
EXTENDS PackConfig

\* Mutated: the kind of the resource is not compared.
PatchResolvesAnyKind(s, ref) == \E res \in s.resources : res.name = ref

\* The referenced resource of a patch is listed in the Shoot as a v1 Secret.
\* Whether the secret exists, and what it holds, is not looked at.
PatchResolves(s, ref) ==
    \E res \in s.resources : res.name = ref /\ res.kind = "Secret"

\* Mutated: the collection is not asked for the pack.
ExtensionOKAnyPack(coll, s) ==
    \/ s.extension \in {"absent", "disabled"}
    \/ /\ s.provider.kind = "config"
       /\ IsValid(s.provider.packs)
       /\ \A j \in DOMAIN s.provider.packs :
             \A x \in DOMAIN s.provider.packs[j].patches :
                 PatchResolves(s, s.provider.packs[j].patches[x])

\* validateExtension: an extension that is not listed or is disabled needs no
\* config; the config of the others is decoded, validated and compared with
\* the collection and with the resources of the same Shoot.
ExtensionOK(coll, s) ==
    \/ s.extension \in {"absent", "disabled"}
    \/ /\ s.provider.kind = "config"
       /\ IsValid(s.provider.packs)
       /\ \A j \in DOMAIN s.provider.packs :
             LET p == s.provider.packs[j] IN
             /\ PackExists(coll, p.name, p.version)
             /\ \A x \in DOMAIN p.patches : PatchResolves(s, p.patches[x])

\* Mutated: a Shoot that is being deleted is checked like any other.
AdmitsNoDeletion(coll, s) == ExtensionOK(coll, s)

\* Validate: a Shoot that is being deleted is never held up.
Admits(coll, s) == s.deleting \/ ExtensionOK(coll, s)
=============================================================================
