SPECIFICATION Spec
CONSTANTS
  Thread = {t1, t2}
  Directory = {"roll"}
  Camera = {"usb:1", "usb:2"}
  Content <- MCContent
  Unviewable <- MCUnviewable
  MaxPending = 2
INVARIANTS
  ShownIsSource
  PreviewOfRow
  ImportedFromSource
SYMMETRY MCSymmetry
CHECK_DEADLOCK FALSE
