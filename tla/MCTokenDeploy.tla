----------------------------- MODULE MCTokenDeploy -----------------------------
(* Two workers; account 0 deploys, and the block of the deployment may be  *)
(* replaced once, before or after its receipt was read.                    *)
EXTENDS TokenDeploy

CONSTANTS a0, a1

MCAccounts == {a0, a1}
=============================================================================
