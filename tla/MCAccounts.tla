----------------------------- MODULE MCAccounts -----------------------------
(***************************************************************************)
(* Small instances of Accounts for TLC.                                    *)
(***************************************************************************)
EXTENDS Accounts, TLC

CONSTANTS anna, budi

(* anna and budi are on one team. *)
OneTeam == {<<anna, budi>>, <<budi, anna>>}
AdminAndCaptain == (anna :> "admin") @@ (budi :> "captain")
=============================================================================
