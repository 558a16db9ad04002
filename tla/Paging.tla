------------------------------- MODULE Paging -------------------------------
(***************************************************************************)
(* The status of an answer and the paging parameters of a request          *)
(* (src/api/pagination.ts), which the endpoints share.                     *)
(***************************************************************************)
EXTENDS Sql

Ok(body) == [status |-> 200, body |-> body]
Missing == [status |-> 404]
Invalid == [status |-> 400]

OrMissing(found) == IF found.found THEN Ok(found.result) ELSE Missing

PagingLimits ==
  [Block |-> <<20, 30>>, BurnBlock |-> <<20, 30>>, Tx |-> <<20, 50>>,
   Event |-> <<20, 100>>, Burnchain |-> <<96, 250>>, Contract |-> <<20, 50>>,
   Microblock |-> <<20, 200>>, Token |-> <<50, 200>>, Pox2Event |-> <<96, 200>>,
   Stacker |-> <<100, 200>>, Signer |-> <<100, 250>>, PoxCycle |-> <<20, 60>>,
   TokenHolders |-> <<100, 200>>, BlockSignerSignature |-> <<500, 1000>>,
   FtBalance |-> <<100, 200>>]

\* No limit, or 0, is the default; a limit above the maximum is refused.
GetPagingQueryLimit(resource, limit) ==
  CASE limit = None \/ limit = 0 -> PagingLimits[resource][1]
    [] limit # None /\ limit > PagingLimits[resource][2] -> None
    [] OTHER -> limit

\* The answer for a page, unless its limit is refused.
Paged(resource, limit, Answer(_)) ==
  LET n == GetPagingQueryLimit(resource, limit)
  IN IF n = None THEN Invalid ELSE Answer(n)
=============================================================================
