SPECIFICATION ProgressoSpec
CONSTANTS
  Sincs = {s1, s2}
  UltimoNsu = 3
  TamLote = 2
  MaxLotes = 2
  Omissao = "fim"
  MaxFalhas = 2
  Nada = Nada
  k1 = k1  k2 = k2
  w1 = w1  w2 = w2
  Chaves = {k1, k2}
  Trabalhadores = {w1, w2}
  Lote = 2
  Concorrencia = 1
  MaxFalhasLimpeza = 2
  p1 = p1  p2 = p2
  e1 = e1
  Procs = {p1, p2}
  MaxVersao = 2
  Entradas = {e1}
  Isolamentos = {"RR", "RC"}
INVARIANTS ProgressoTypeOK CursorSeguro PosseRespeitada
PROPERTIES
  ClaimPreservado NotaChega ImplementaFila AgendadoConclui
  ImplementaHistorico TransacaoTermina
