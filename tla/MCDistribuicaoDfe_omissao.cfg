SPECIFICATION Spec
CONSTANTS
  Sincs = {s1, s2}
  UltimoNsu = 3
  TamLote = 2
  MaxLotes = 2
  Omissao = "qualquer"
  MaxFalhas = 0
  Nada = Nada
INVARIANT
  CursorSeguro
