SPECIFICATION OperacoesSpec
CONSTANTS
  p1 = p1  p2 = p2
  Nada = Nada
  Pedidos = {p1, p2}
  Tipos = {"NFE", "NFSE"}
  ComExclusao = TRUE
  n1 = n1  n2 = n2
  Nos = {n1, n2}
  MaxChaves = 2
  Limite = 2
  Hora = 2
  MaxTempo = 2
  MaxQuedas = 1
  e1 = e1  e2 = e2  e3 = e3
  Entregas = {e1, e2, e3}
  Lote = 2
  Concorrencia = 2
  MaxFalhas = 2
  MaxVersao = 2
  b1 = b1  b2 = b2
  Bens = {b1, b2}
  Meses = 1
  Parcelas = 2
  Bases = {4}
  Escala = 2
  Coeficientes = {1, 2}
  Ajustes = {{}, {2}}
  cte = cte  outro = outro
SYMMETRY Simetria
INVARIANTS
  OperacoesTypeOK CompletaTemXml DecisaoPreservada
  JanelaRespeitada CadeiaDePromessas
  EntregasCoerentes
  RazaoConsistente E111Confere SubstituicaoExclui
PROPERTIES
  CanceladaFica SuspensaoRespeitada InterrupcaoDefinitiva
