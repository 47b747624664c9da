------------------------------- MODULE MCAuthz -------------------------------
(***************************************************************************)
(* The two sides of the authz service for TLC.                             *)
(***************************************************************************)
EXTENDS Authz, TLC

CONSTANTS acme, beta, sheet, ua, ub, app, own, mod, doc, pos, odd

MCInit == {[obj |-> acme, rel |-> "admin", sub |-> ua]}

anchor(c) == [obj |-> sheet, rel |-> "anchor", sub |-> c]
role(s) == [obj |-> sheet, rel |-> "role", sub |-> s]
admin(s) == [obj |-> acme, rel |-> "admin", sub |-> s]
R(op, who, c, ts) == [op |-> op, actor |-> who, company |-> c, tuples |-> ts]

\* create, share, unshare, delete in two companies, the owner's cleanup, and a
\* change of the module's admins.
MCRequest ==
    {R("grant", ua, acme, <<anchor(acme), role(ua)>>),
     R("grant", ub, beta, <<anchor(beta), role(ub)>>),
     R("grant", ua, acme, <<role(ub)>>),
     R("revoke", app, acme, <<role(ub)>>),
     R("revoke", ua, acme, <<anchor(acme)>>),
     R("revoke", ua, acme, <<role(ua), anchor(acme)>>),
     R("grant", ua, acme, <<admin(ub)>>)}

MCAccess == {<<ua, acme>>, <<ub, beta>>}

\* own is the request's company, mod another company's module.
MCKind == own :> "company" @@ mod :> "company_module" @@ doc :> "module"
            @@ pos :> "org" @@ odd :> "unbindable"

MCTarget == DOMAIN MCKind

MCNames == [x \in MCTarget |-> x = own]

Asks(scope, sup, op, part, auth, its) ==
    [scope |-> scope, batch |-> Len(its) > 1, superadminRole |-> sup, operator |-> op,
     companyRole |-> part, foundation |-> auth, items |-> its]

MCAsked ==
    {Asks("company", FALSE, FALSE, FALSE, FALSE, <<x>>) : x \in MCTarget}
      \cup {Asks("company", TRUE, TRUE, TRUE, FALSE, <<doc, own>>),
            Asks("company", TRUE, TRUE, FALSE, TRUE, <<NoObject>>),
            Asks("company", FALSE, TRUE, TRUE, FALSE, <<pos, doc>>),
            Asks("global", TRUE, FALSE, FALSE, FALSE, <<doc>>),
            Asks("global", FALSE, FALSE, FALSE, FALSE, <<NoObject>>),
            Asks("global", TRUE, FALSE, FALSE, FALSE, <<doc, NoObject>>)}

ClientSymmetry == Permutations(Client)

==============================================================================
