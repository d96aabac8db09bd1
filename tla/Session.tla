------------------------------ MODULE Session -------------------------------
(***************************************************************************)
(* How a ClobClient comes by its API credentials.  CreateOrDeriveAPIKey    *)
(* POSTs for a new key and, whatever goes wrong, asks for the one that     *)
(* exists; CreateAPIKeyWithHeaders POSTs what another signer has prepared. *)
(* The credentials raise the level of a client that has a signer, on which *)
(* the operations that follow depend.                                      *)
(*                                                                         *)
(* The server is external: a signer has one key, which the first creation  *)
(* the server handles issues, however late.  An answer that is no object    *)
(* counts as a refusal; any object is taken for credentials, one that does *)
(* not state the key for blank ones.                                       *)
(***************************************************************************)
EXTENDS Listing

VARIABLES
    creds,   \* c.creds: "none", "given" to NewClobClient, the "server"'s, or
             \* "blank": an object without a key's fields
    key,     \* has the server issued the signer's key
    granted, \* the answer to the attempt in flight carries it
    owed     \* a creation was given up and may still be handled

session == <<creds, key, granted, owed>>

SessionTypeOK ==
    /\ creds \in {"none", "given", "server", "blank"}
    /\ key \in BOOLEAN /\ granted \in BOOLEAN /\ owed \in BOOLEAN

\* NewClobClient: a private key makes L1, credentials as well make L2.
SessionInit ==
    /\ ListInit
    /\ creds = IF mode = "L2" THEN "given" ELSE "none"
    /\ key \in (IF op = "auth" THEN BOOLEAN ELSE {FALSE})
    /\ granted = FALSE /\ owed = FALSE

Authenticating == op = "auth" /\ stage \in {"create", "derive", "headers"}

\* assertLevel1Auth: without a signer both calls fail at once, but headers
\* from elsewhere can be sent.
BeginAuth ==
    /\ op = "auth" /\ stage = "enter"
    /\ \/ /\ mode = "L0"
          /\ stage' = "noCreds"
          /\ UNCHANGED vars
       \/ /\ mode # "L0"
          /\ stage' = "create"
          /\ Fresh("POST")
       \/ /\ stage' = "headers"
          /\ Fresh("POST")
    /\ UNCHANGED <<op, params, mode, pages, cursor, results, holes, cut,
                   caller, session>>

AuthRequest ==
    /\ Authenticating
    /\ Client
    /\ UNCHANGED <<listing, session>>

\* The server creates a key where there is none, and tells an existing one.
Serve ==
    /\ Authenticating
    /\ Handle
    /\ granted' = (key = (stage = "derive"))
    /\ key' = (key \/ stage # "derive")
    /\ UNCHANGED <<listing, creds, owed>>

\* A creation that was given up is handled after all, while another attempt
\* is made or before the derivation is handled.
ServeLate ==
    /\ Authenticating
    /\ \/ /\ stage # "derive" /\ HandleLate
          /\ UNCHANGED owed
       \/ /\ stage = "derive" /\ owed /\ ~handled /\ pc # "returned"
          /\ owed' = FALSE
          /\ UNCHANGED vars
    /\ key' = TRUE
    /\ UNCHANGED <<listing, creds, granted>>

\* The level that credentials give: without a signer still none.
Raised == IF mode = "L0" THEN "L0" ELSE "L2"

\* SetAPICreds, with whatever the object states.
TakeKey ==
    /\ Authenticating
    /\ pc = "returned" /\ result = "ok"
    /\ creds' \in {"blank"} \cup (IF granted THEN {"server"} ELSE {})
    /\ mode' = Raised
    /\ stage' = "keyed"
    /\ granted' = FALSE
    /\ UNCHANGED <<vars, op, params, pages, cursor, results, holes, cut,
                   caller, key, owed>>

\* Mutant: a creation that fails is not followed by a derivation.
GiveUp == stage' = "noCreds" /\ UNCHANGED vars

\* if err != nil { return c.DeriveAPIKey(nonce) }
Derive == stage' = "derive" /\ Fresh("GET")

TryDerive ==
    /\ op = "auth" /\ stage = "create"
    /\ pc = "returned" /\ result # "ok"
    /\ Derive
    /\ owed' = (late > 0)
    /\ granted' = FALSE
    /\ UNCHANGED <<op, params, mode, pages, cursor, results, holes, cut,
                   caller, creds, key>>

AuthFails ==
    /\ op = "auth" /\ stage \in {"derive", "headers"}
    /\ pc = "returned" /\ result # "ok"
    /\ stage' = IF stage = "derive" THEN "noCreds" ELSE "unissued"
    /\ granted' = FALSE
    /\ UNCHANGED <<vars, op, params, mode, pages, cursor, results, holes, cut,
                   caller, creds, key, owed>>

\* The program goes on with what it has got.
Proceed ==
    /\ op = "auth" /\ stage \in {"keyed", "noCreds", "unissued"}
    /\ op' \in Ops \ {"auth", "request"}
    /\ stage' = "enter"
    /\ owed' = FALSE
    /\ Fresh("GET")
    /\ UNCHANGED <<params, mode, pages, cursor, results, holes, cut, caller,
                   creds, key, granted>>

AuthStep == BeginAuth \/ AuthRequest \/ Serve \/ TakeKey \/ TryDerive \/ AuthFails

-----------------------------------------------------------------------------
(* Properties.                                                             *)

\* CreateOrDeriveAPIKey never ends without credentials that it could have: a
\* client with a signer has tried the derivation and it was refused or failed; and
\* credentials with a key are those the server has issued, whether answers were
\* lost or the creation was handled late.  (Blank ones, taken from an object that
\* states no key, end the attempt as if it had succeeded.)
KeyRecovered ==
    /\ (op = "auth" /\ stage = "noCreds" /\ mode # "L0")
           => method = "GET" /\ result \notin {"none", "ok"}
    /\ creds = "server" => key
=============================================================================
