------------------------- MODULE AccountsRefinement -------------------------
(***************************************************************************)
(* The account service keeps the ledger: the committed tables of Accounts, *)
(* read as the accounts, links and sessions of AccountLedger.              *)
(***************************************************************************)
EXTENDS Accounts

Account(u) == [id |-> u, email |-> args[u].email, username |-> args[u].username]
Link(t)    == [id |-> t, account |-> subject[t], purpose |-> Purpose(t)]
Session(s) == [id |-> s, account |-> subject[s]]

AccountRows == {Account(u) : u \in users}
LinkRows    == {Link(t) : t \in tokens}
SessionRows == {Session(s) : s \in sessions}
Libraries   == profiles \cap wishlists

Ledger == INSTANCE AccountLedger WITH
  Ids       <- Requests,
  accounts  <- AccountRows,
  libraries <- Libraries,
  password  <- hash,
  verified  <- verifiedBy,
  links     <- LinkRows,
  spentBy   <- usedBy,
  sessions  <- SessionRows,
  present   <- prior

\* However requests interleave, fail or lose their commit's answer, what they
\* do to the committed database is a sequence of whole operations: no step
\* shows half a registration, a spent link without its effect, a new password
\* that leaves a session which was there when the reset arrived, or an account
\* whose keys were taken meanwhile.
KeepsLedger == Ledger!Spec
=============================================================================
