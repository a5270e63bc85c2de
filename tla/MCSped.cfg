SPECIFICATION SpedSpec
CONSTANTS
  g1 = g1  g2 = g2
  Geracoes = {g1, g2}
  Itens = {"x"}
  Outros = {"fornecedor"}
  Unidades = {"UN", "CX"}
  Datas = {1, 2, 3}
  Competencias = {1, 2}
  Mes = 2
  MaxEdicoes = 2
  Entradas <- MesesDeDocumentos
  Casos <- MesesDeTributos
SYMMETRY Simetria
INVARIANTS
  ReferenciasFecham NadaSeOmite CatalogoDoInventario GeracaoRastreada ApuracaoConfere
CHECK_DEADLOCK FALSE
