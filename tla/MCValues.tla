------------------------------ MODULE MCValues ------------------------------
(***************************************************************************)
(* What is stored and who reads it, for TLC: a padded value, an index's    *)
(* bytes, an envelope and an index with what they are bound to, and the    *)
(* rows of tenants with keyrings of their own.  The four share no          *)
(* variable.  A behavior is of one of them, and the others stay as they    *)
(* begin.                                                                  *)
(***************************************************************************)
EXTENDS Padding, IndexFormat, Preimages, Tenants, TLC

-----------------------------------------------------------------------------
(* Padding: a four-bit usize, every legal policy, and every plaintext of   *)
(* up to three bytes among zero, the marker and another byte.              *)

MCUsizeMax == 15
MCPlaintexts == UNION {[1..n -> {0, 1, 128}] : n \in 0..3}
MCPolicies ==
    {NoPadding} \cup [kind : {"block"}, size : 2..MCUsizeMax]
                \cup [kind : {"length"}, size : 1..MCUsizeMax]

-----------------------------------------------------------------------------
(* Preimages: bytes of three values, UUIDs longer than integers, and IDs   *)
(* that occur in one another's place.                                      *)

MCSealIds == {<<0>>, <<2>>}
MCIndexIds == {<<0>>, <<1>>}
MCKeyIds == {<<1>>, <<2>>}
MCNormalized == {<<>>, <<0>>, <<1>>, <<0, 0>>, <<0, 1>>, <<1, 0>>}

-----------------------------------------------------------------------------
(* Tenants: two of them, three key IDs, one row and two calls.             *)

CONSTANTS t1, t2, k1, k2

MCFirstId == (t1 :> k1) @@ (t2 :> k2)

-----------------------------------------------------------------------------
CONSTANT Parts

VARIABLE part   \* what the behavior is of

MCInit ==
    /\ part \in Parts
    /\ Init
    /\ part # "padding" => policy = NoPadding /\ origin.plaintext = <<>>
    /\ IndexInit
    /\ PreimagesInit
    /\ TenantsInit

MCNext ==
    \/ /\ part = "padding" /\ Next
       /\ UNCHANGED <<part, storedIndex, preimageVars, tenantVars>>
    \/ /\ part = "index" /\ IndexNext
       /\ UNCHANGED <<part, vars, preimageVars, tenantVars>>
    \/ /\ part = "preimages" /\ PreimagesNext
       /\ UNCHANGED <<part, vars, storedIndex, tenantVars>>
    \/ /\ part = "tenants" /\ TenantsNext
       /\ UNCHANGED <<part, vars, storedIndex, preimageVars>>

MCSpec ==
    /\ MCInit /\ [][MCNext]_<<part, vars, storedIndex, preimageVars, tenantVars>>
    /\ TenantsFairness
=============================================================================
