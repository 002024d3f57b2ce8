----------------------------- MODULE MCConsole ------------------------------
(* Two operators, two products, two environments: a product with one plain *)
(* variable and one secret, and databases at the stages of its life.       *)
EXTENDS Console

CONSTANTS svc, app, plain, secret, dev, prod, v, w, blank, bad, none, any, b1, b2

MCOrder == <<dev, prod>>

KeyOf(k, d) == [x \in {k} |-> [secret |-> x = secret, default |-> d]]

MCDrafts == {Nothing, KeyOf(plain, v), KeyOf(plain, none), KeyOf(secret, none)}

Both == Merge(KeyOf(plain, none), KeyOf(secret, none))

(* A database with the given documents and no others.                      *)
With(documents) ==
  [path \in Path |-> IF path \in DOMAIN documents THEN documents[path]
                     ELSE IF path = Services THEN Nothing ELSE Absent]

Product1(retiring) ==
  Merge(Sole(Services, Sole(svc, 1)), Sole(SchemaOf(svc), [keys |-> Both, retiring |-> retiring]))

File(n, values) == [version |-> n, values |-> values]

OneFlag == Sole(Flags, Sole(<<1, dev>>, TRUE))
Dev  == Sole(ConfigOf(svc, dev), File(1, Merge(Sole(plain, v), Sole(secret, v))))
Prod == Sole(ConfigOf(svc, prod), File(1, Sole(plain, w)))
Old  == Sole(ArchiveOf(svc), With(Product1(TRUE)))

MCEmpty     == With(OneFlag)
MCFresh     == With(Merge(Product1(FALSE), Dev))
MCPopulated == With(Merge(OneFlag, Merge(Product1(FALSE), Merge(Dev, Prod))))
MCRetiring  == With(Merge(Product1(TRUE), Dev))
MCRecreated == With(Merge(Product1(TRUE), Merge(Prod, Old)))
MCStores    == {MCEmpty, MCFresh, MCPopulated, MCRetiring, MCRecreated}
MCEdited    == {With(Merge(Product1(FALSE), Merge(Dev, Prod)))}

Symmetric == {[b \in Browser |-> IF b = b1 THEN b2 ELSE b1], [b \in Browser |-> b]}
=============================================================================
