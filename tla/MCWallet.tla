------------------------------ MODULE MCWallet ------------------------------
(***************************************************************************)
(* The commands of the wallet program.                                     *)
(***************************************************************************)
EXTENDS Wallet

MCCommands == {sendTransaction, txstatus, rewards, balance, showTransaction}
=============================================================================
