CONSTANTS
  Inst = {a, b}
  Session = {s1, s2}
  Id = {t, d1, d2}
  Template = t
  Name = {tn, n1}
  TemplateName = tn
  None = None
SPECIFICATION Spec
SYMMETRY Symmetry
INVARIANTS
  TypeOK
  OneRecordPerName
  TablesAtHome
PROPERTIES
  ImplementsAtomicDatabases
  RecordGoesWithRow
