\* A key of another namespace, and one that is a null: run with -continue to see
\* the two.
CONSTANTS
  Locales = {en, ar}
  Reference = en
  Namespaces = {n1, n2}
  Keys = {t1}
INIT CataloguesInit
NEXT CataloguesNext
INVARIANTS
  ElsewhereIsNotMissed
  PresentIsWorded
CHECK_DEADLOCK FALSE
