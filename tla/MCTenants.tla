----------------------------- MODULE MCTenants -----------------------------
(***************************************************************************)
(* A finite instance of Tenants for TLC: three users, o the configured     *)
(* owner, and shops of different pasts.                                    *)
(***************************************************************************)
EXTENDS Tenants

CONSTANTS o, a, b

Idle == [r \in Runs |-> NoRun]

\* /remove_owner a, which is about to load a and found that o is the main owner.
Removing ==
  {[Idle EXCEPT ![r] = Removal(a)] : r \in Runs}

Shop(slug, order, roleO, roleA, roleB, out) ==
  [slug |-> slug, rows |-> order, blocked |-> out, codes |-> {}, runs |-> {Idle},
   roles |-> [u \in Users |-> CASE u = o -> roleO [] u = a -> roleA [] OTHER -> roleB]]

\* A new shop; one that has customers but no owner yet; two owners, the
\* configured one first or last, and a blocked user; a shop made by
\* bootstrap_telegram_shop.py; one that is about to be reset; one where a
\* removal is under way.
MCShops ==
  {Shop("default", <<>>, "none", "none", "none", {}),
   Shop("default", <<a>>, "none", "client", "none", {a}),
   Shop("default", <<o, a, b>>, "owner", "owner", "staff", {b}),
   Shop("default", <<b, a, o>>, "owner", "owner", "client", {}),
   Shop("shop", <<o, a>>, "owner", "client", "none", {}),
   [Shop("default", <<a, o>>, "client", "owner", "none", {}) EXCEPT !.codes = {a}],
   [Shop("default", <<a, o>>, "owner", "client", "none", {}) EXCEPT !.runs = Removing]}

MCEstablished == {Shop("default", <<o, a>>, "owner", "owner", "none", {})}

=============================================================================
