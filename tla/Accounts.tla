------------------------------ MODULE Accounts ------------------------------
(***************************************************************************)
(* The user table and registration (apps/users).  A registration looks for *)
(* the address and inserts the account in two statements, each a           *)
(* transaction of its own; the table is unique on the exact email.         *)
(*                                                                         *)
(* An email is an address in one of two spellings: in lower case, or with  *)
(* capitals before the @.  The domain is put in lower case on every path   *)
(* (normalize_email, lower) and is left out.                               *)
(*                                                                         *)
(* A definition marked "Bug variant" is no part of the specification: it   *)
(* is the definition below it with a mistake, kept to show that a property *)
(* notices the mistake.                                                    *)
(***************************************************************************)
EXTENDS Integers

CONSTANTS
  Addresses,
  Clients,                  \* web workers that take registrations
  NoAccount, NoEmail

VARIABLES
  users,                    \* the user table
  registration              \* the email each web worker is about to insert

Email == [address : Addresses, spelling : {"lower", "mixed"}]

Account == [origin : {"registration", "seed"}, password : BOOLEAN]

ASSUME AccountsAssumption == NoAccount \notin Account /\ NoEmail \notin Email

InitAccounts ==
  /\ users = [e \in Email |-> NoAccount]
  /\ registration = [c \in Clients |-> NoEmail]

\* Bug variant: validate_email returns the address as it was written
LowerNot(e) == e

Lower(e) == [e EXCEPT !.spelling = "lower"]

\* RegisterSerializer.validate_email: nobody has the address (email__iexact)
CheckEmail(c, e) ==
  /\ registration[c] = NoEmail
  /\ \A f \in Email : f.address = e.address => users[f] = NoAccount
  /\ registration' = [registration EXCEPT ![c] = Lower(e)]
  /\ UNCHANGED users

\* create_user, unless the address has been inserted meanwhile
CreateUser(c) ==
  LET e == registration[c] IN
  /\ e # NoEmail
  /\ \/ /\ users[e] = NoAccount
        /\ users' = [users EXCEPT ![e] = [origin |-> "registration", password |-> TRUE]]
     \/ /\ users[e] # NoAccount
        /\ UNCHANGED users
  /\ registration' = [registration EXCEPT ![c] = NoEmail]

Register(c) == (\E e \in Email : CheckEmail(c, e)) \/ CreateUser(c)

-----------------------------------------------------------------------------
(***************************************************************************)
(* An address has one account, in whichever spelling it is registered, by  *)
(* however many requests at once, although the constraint knows spellings  *)
(* only.                                                                   *)
(***************************************************************************)
OneAccountPerAddress ==
  \A e, f \in Email : e.address = f.address /\ NoAccount \notin {users[e], users[f]} => e = f
=============================================================================
