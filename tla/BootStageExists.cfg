CONSTANT
    Cards = {"none", "plain"}
SPECIFICATION Spec
PROPERTY
    ExistsIsComplete
