SPECIFICATION Spec
CONSTANTS
  a = a
  b = b
  i = i
  export = export
  top = top
  NoIno = NoIno
  Root <- top
  Inos <- HostInos
  Names <- TwoNames
  realroot <- ExportPath
  Host <- JustTheExport
  WalkNames <- Walks
  Fids = {f1, f2}
  Tasks = {t1, t2}
  max_depth = 2
  MaxPath = 3
SYMMETRY Symmetry
INVARIANTS WalkRepresents
