SPECIFICATION Spec
CONSTANTS
  a = a
  b = b
  i = i
  export = export
  top = top
  NoIno = NoIno
  Root <- top
  Inos <- HostInos
  Names <- TwoNames
  realroot <- ExportPath
  Host <- JustTheExport
  WalkNames <- Walks
  Fids = {f1, f2}
  Tasks = {t1, t2}
  max_depth = 1
  MaxPath = 3
SYMMETRY Symmetry
INVARIANTS TypeOK DepthBounds HandleNeverOther QidIsFile ErrorAfterChange
