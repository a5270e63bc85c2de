SPECIFICATION FechamentosSpec
CONSTANTS
  p1 = p1  p2 = p2
  e1 = e1
  Nada = Nada
  Procs = {p1, p2}
  MaxVersao = 3
  Entradas = {e1}
  Isolamentos = {"RR", "RC"}
  MaxVersaoSimples = 2
  MaxFech = 2
  g1 = g1  g2 = g2
  r1 = r1  r2 = r2
  Guias = {g1, g2}
  Recibos = {r1, r2}
  MaxChavesUsadas = 3
  ValorTotal = 2
  Valores = {1}
  ValorUpload = 2
  MaxEventos = 2
SYMMETRY Simetria
INVARIANTS TypeOK CorrenteUnica RetificacaoApontaEntrega FechamentosTypeOK ApuracaoFechada
  ArquivosCoerentes PagamentosRespaldados RepeticaoNaoDuplica
PROPERTIES EntregaImutavel EscritaRCSinalizaRevisao RevisaoConverge ComprovanteEstavel ExclusaoDeGuiaAgenda ConciliacaoRespeitaCancelamento
